SPECIFICATION Spec
CONSTANTS
  a = a
  b = b
  g = g
  core = core
  File = {a, b}
  Name = {g}
  Line = {1, 2}
  Layer = {core}
  LayerOf <- MCLayerOf
  None = None
  Absent = Absent
  Contents <- MCContents
  FirstTree <- MCFirstTree
  MaxOrd = 3
  MaxFaults = 0
  Reverts = FALSE
INVARIANTS CallersFound

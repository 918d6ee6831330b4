SPECIFICATION FairSpec
CONSTANTS
  f = f
  g = g
  h = h
  a = a
  b = b
  Absent = Absent
  Missing = Missing
  None = None
  Path = {f, g, h}
  Content = {a, b}
  Tree <- MCTree
  Worker = {"w1"}
  Hook = {"h1"}
  Slotted = TRUE
  CleanSaves = FALSE
  PoolSize = 2
  QueueMax = 2
  MaxFaults = 2
  MaxSaves = 1
  MaxForced = 1
INVARIANTS Recoverable ShadowComplete
PROPERTIES RebuildSucceeds
\* Once HEAD is recorded and nobody saves or forces a rebuild, all rest.
CHECK_DEADLOCK FALSE

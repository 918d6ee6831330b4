SPECIFICATION FairSpec
CONSTANTS
  f = f
  g = g
  a = a
  b = b
  c0 = c0
  c1 = c1
  c2 = c2
  c3 = c3
  Absent = Absent
  None = None
  Alien = Alien
  Path = {f, g}
  Content = {a, b}
  Commit = {c0, c1, c2, c3}
  Tree <- MCTree
  History <- MCHistory
  Initial = c0
  Scenarios <- MCDiscard
PROPERTIES AlwaysConverges
\* A developer who has used up the commands leaves the system at rest.
CHECK_DEADLOCK FALSE

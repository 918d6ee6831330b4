SPECIFICATION Spec
CONSTANTS
  p1 = p1
  p2 = p2
  p3 = p3
  t1 = t1
  t2 = t2
  t3 = t3
  t4 = t4
  None = None
  Proc = {p1, p2, p3}
  Thread = {t1, t2, t3, t4}
  ProcOf <- MCProcOf
  MaxCrashes = 2
  Overlap = FALSE
  SlowHolders = FALSE
INVARIANTS AtMostOneRebuild
PROPERTIES ReleaseRemovesOwnFile ImplementsSlot

SPECIFICATION FairSpec
CONSTANTS
  p1 = p1
  p2 = p2
  p3 = p3
  t1 = t1
  t2 = t2
  t3 = t3
  t4 = t4
  None = None
  Proc = {p1, p2}
  Thread = {t1, t2, t3}
  ProcOf <- MCProcOf
  MaxCrashes = 1
  Overlap = TRUE
  SlowHolders = TRUE
INVARIANTS InProcessExclusion
PROPERTIES CrashedHolderReclaimed AttemptsReturn

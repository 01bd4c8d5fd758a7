SPECIFICATION Spec
CONSTANTS
  r1 = r1
  r2 = r2
  p1 = p1
  NoTask = NoTask
  NoSnapshot = NoSnapshot
  Run = {r1, r2}
  PendingId = {p1}
  MaxFaults = 0
  MaxBusy = 2
SYMMETRY Symmetry
INVARIANTS
  ResumedHasSuccessor
CHECK_DEADLOCK FALSE

SPECIFICATION Spec
CONSTANTS
  r1 = r1
  r2 = r2
  r3 = r3
  p1 = p1
  p2 = p2
  NoTask = NoTask
  NoSnapshot = NoSnapshot
  Run = {r1, r2, r3}
  PendingId = {p1, p2}
  MaxFaults = 0
  MaxBusy = 2
SYMMETRY Symmetry
CONSTRAINT BusyBound
INVARIANTS
  NamedTaskIsResumed
CHECK_DEADLOCK FALSE

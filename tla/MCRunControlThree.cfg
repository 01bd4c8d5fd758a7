SPECIFICATION Spec
CONSTANTS
  r1 = r1
  r2 = r2
  r3 = r3
  p1 = p1
  NoTask = NoTask
  NoSnapshot = NoSnapshot
  Run = {r1, r2, r3}
  PendingId = {p1}
  MaxFaults = 0
  MaxBusy = 2
SYMMETRY Symmetry
CONSTRAINTS
  BusyBound
  OneWorker
PROPERTIES
  ContinuedOnce
CHECK_DEADLOCK FALSE

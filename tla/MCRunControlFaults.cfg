SPECIFICATION Spec
CONSTANTS
  r1 = r1
  r2 = r2
  p1 = p1
  NoTask = NoTask
  NoSnapshot = NoSnapshot
  Run = {r1, r2}
  PendingId = {p1}
  MaxFaults = 2
  MaxBusy = 2
SYMMETRY Symmetry
INVARIANTS
  IInv
  StoppedIsSettled
  CompletedAtMeansStopped
PROPERTIES
  FinalUnlessHandler
CHECK_DEADLOCK FALSE

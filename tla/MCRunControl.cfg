SPECIFICATION FairSpec
CONSTANTS
  r1 = r1
  r2 = r2
  p1 = p1
  p2 = p2
  NoTask = NoTask
  NoSnapshot = NoSnapshot
  Run = {r1, r2}
  PendingId = {p1, p2}
  MaxFaults = 0
  MaxBusy = 2
INVARIANTS
  TypeOK
  QuietSummaryIsLatest
PROPERTIES
  ImplementsLifecycle
  LatestRequestTaken
CHECK_DEADLOCK FALSE

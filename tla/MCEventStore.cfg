SPECIFICATION Spec
CONSTANTS
  r1 = r1
  r2 = r2
  Run = {r1, r2}
  MaxEvents = 2
  PageSize = 2
  StorageFails = FALSE
SYMMETRY Symmetry
INVARIANTS
  TypeOK
PROPERTIES
  ImplementsFeed
CHECK_DEADLOCK FALSE

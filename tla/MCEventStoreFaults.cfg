SPECIFICATION Spec
CONSTANTS
  r1 = r1
  r2 = r2
  Run = {r1, r2}
  MaxEvents = 2
  PageSize = 1
  StorageFails = TRUE
SYMMETRY Symmetry
INVARIANTS
  IInv
  OneMissingAtSave
  StoredInOrder
PROPERTIES
  NoEventLost
  NothingSkipped
CHECK_DEADLOCK FALSE

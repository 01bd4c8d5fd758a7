SPECIFICATION Spec
CONSTANTS
  r1 = r1
  r2 = r2
  Run = {r1, r2}
  MaxEvents = 1
  PageSize = 2
  StorageFails = TRUE
SYMMETRY Symmetry
INVARIANTS
  LegacyShapePreserved
CHECK_DEADLOCK FALSE

SPECIFICATION UtilizationSpec
CONSTANTS
  MaxU64 = 7
  KIB = 2
  Numbers = {0, 2, 5}
INVARIANTS
  UtilizationExact
CHECK_DEADLOCK FALSE

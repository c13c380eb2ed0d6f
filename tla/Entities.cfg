SPECIFICATION EntitiesSpec
CONSTANTS
  MaxU64 = 2000000
  KIB = 8
  MaxFloat = 20000
  SourceValues <- MCSourceValues
  FirstBoard <- MCFirstBoard
INVARIANTS
  EntitiesHonest
CHECK_DEADLOCK FALSE

SPECIFICATION Spec
CONSTANTS
  MaxU64 = 2000000
  KIB = 8
  Boards = {b1, b2}
  Tables <- MCTables
  MaxStarts = 2
  HaPrefix <- MCHaPrefix
  Lower <- MCLower
INVARIANTS
  TopicsAgree
  EntitiesIdentified
CHECK_DEADLOCK FALSE

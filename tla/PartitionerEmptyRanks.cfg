SPECIFICATION Spec
CONSTANTS
  MaxSize = 14
  MaxPartitions = 9
  EmptyRanks = TRUE
INVARIANTS
  OwnerOwns
CHECK_DEADLOCK FALSE

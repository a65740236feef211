SPECIFICATION Spec
CONSTANTS
  MaxSize = 14
  MaxPartitions = 9
  EmptyRanks = FALSE
INVARIANTS
  OwnerOwns
  RangesTile
CHECK_DEADLOCK FALSE

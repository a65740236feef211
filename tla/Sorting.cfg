SPECIFICATION Spec
CONSTANTS
  Calls <- AllCalls
  g_maxTasks = 3
  maxBlocks = 5
  threadsPerBlock = 2
INVARIANTS
  SortedInTheEnd
  TasksTile
  StackFits
PROPERTY SortEnds
CHECK_DEADLOCK FALSE

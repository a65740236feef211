SPECIFICATION Spec
CONSTANTS
  Calls <- Descending
  g_maxTasks = 3
  maxBlocks = 5
  threadsPerBlock = 2
INVARIANT DescendingSortDescends
CHECK_DEADLOCK FALSE

SPECIFICATION PoolSpec
CONSTANTS
  MaxThreads = 1
  MayQuit = FALSE
  MaxCalls = 1
INVARIANT
  NoCallOnDeadLoop
CHECK_DEADLOCK FALSE

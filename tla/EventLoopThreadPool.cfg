SPECIFICATION FairPoolSpec
CONSTANTS
  MaxThreads = 3
  MayQuit = TRUE
  MaxCalls = 2
INVARIANTS
  PoolTypeOK
  StartHandsOverLoop
  PublishedLoopExists
  RoundRobin
PROPERTIES
  StartReturns
  DestructorReturns
CHECK_DEADLOCK FALSE

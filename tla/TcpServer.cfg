SPECIFICATION FairSpec
CONSTANTS
  MaxThreads = 1
  MayQuit = FALSE
  MaxCalls = 1
  MaxConns = 3
  MaxFds = 2
INVARIANTS
  TypeOK
  PolledConnectionsAlive
  QueuesHaveLoops
  ServerOutlivesCalls
PROPERTIES
  ClosedIsFreed
  ClientsAreAccepted
CHECK_DEADLOCK FALSE

SPECIFICATION FairSpec
CONSTANTS
  Threads = {t1}
  Messages = {m1, m2}
  MessageLen = 2
  FileLen = 2
  high_water_mark_ = 2
INVARIANTS
  EndIsPermanent
  StreamInOrder
  InterestFollowsBuffer
  FinAfterData
  FileInOrder
PROPERTIES
  NothingAfterFin
  ClosedStaysSilent
  DataShutdownCompletes
CHECK_DEADLOCK FALSE

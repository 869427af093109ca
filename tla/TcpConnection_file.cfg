SPECIFICATION FairSpec
CONSTANTS
  Threads = {t1}
  Messages = {m1}
  MessageLen = 1
  FileLen = 2
  high_water_mark_ = 2
PROPERTY
  ShutdownCompletes
CHECK_DEADLOCK FALSE

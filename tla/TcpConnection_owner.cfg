SPECIFICATION Spec
CONSTANTS
  Threads = {t1}
  Messages = {m1}
  MessageLen = 1
  FileLen = 2
  high_water_mark_ = 2
INVARIANT
  RawFunctorsHaveOwner
CHECK_DEADLOCK FALSE

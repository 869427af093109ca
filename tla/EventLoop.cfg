SPECIFICATION FairSpec
CONSTANTS
  Threads = {t1, t2}
  Functors = {f1, f2, f3}
  EventFdMax = 2
INVARIANTS
  NoLostWakeup
  NoSleepAfterQuit
PROPERTIES
  ImplementsExecutor
  QueuedFunctorsRun
  QuitEndsLoop

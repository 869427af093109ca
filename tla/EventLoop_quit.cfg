SPECIFICATION FairSpec
CONSTANTS
  Threads = {t1}
  Functors = {f1}
  EventFdMax = 2
PROPERTY
  QuitIsNeverLost

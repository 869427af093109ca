SPECIFICATION FairSpec
CONSTANTS
  Addresses = {a1, a2}
  Intervals = {0, 1}
  MaxTimers = 2
  MaxTime = 2
  NoTimer = NoTimer
INVARIANTS
  TypeOK
  IndexesAgree
  BatchStaysInList
  TimerFdArmed
  RoundSettles
PROPERTIES
  TimersLeaveForAReason
  DueTimersRun

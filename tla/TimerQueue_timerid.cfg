SPECIFICATION Spec
CONSTANTS
  Addresses = {a1, a2}
  Intervals = {0}
  MaxTimers = 2
  MaxTime = 2
  NoTimer = NoTimer
INVARIANT
  TimerIdIsOwn

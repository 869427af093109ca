----------------------------- MODULE TimerQueue -----------------------------
(***************************************************************************)
(* The timers of one EventLoop: Timer objects at reusable addresses, the   *)
(* two indexes timer_list_ and active_timer_set_, the cancellations put    *)
(* off while callbacks run, and the timerfd.  Timers are added and         *)
(* cancelled by the loop's thread, inside and outside timer callbacks, and *)
(* by other threads, through the loop's queue of functors.                 *)
(*                                                                         *)
(* Time is counted in ticks, longer than the 100 us that resetTimerFd      *)
(* waits at least, and goes on at any point, callbacks included.           *)
(***************************************************************************)
EXTENDS Naturals, Sequences

CONSTANTS Addresses,   \* where a Timer object can be
          Intervals,   \* of repeating timers, in ticks; 0 stands for "one-shot"
          MaxTimers,   \* bound: timers ever created
          MaxTime,     \* bound: the clock stops here
          NoTimer

ASSUME IntervalsAssumption == Intervals \subseteq Nat

ASSUME BoundsAssumption == MaxTimers \in Nat /\ MaxTime \in Nat \ {0}

VARIABLES
  now,                   \* the monotonic clock
  timers,                \* the heap: per address a Timer or NoTimer
  s_global_sequence_,    \* the number of the next Timer
  timer_list_,           \* <<expiration, sequence>> :> address
  active_timer_set_,     \* {<<address, sequence>>}
  canceling_timer_set_,
  is_running_callback_,
  batch,                 \* handleRead: expired_timers; in reset(), those still to be reset
  expired,               \* handleRead: those of them whose callback has not been called
  resetting,             \* handleRead is in reset()
  readNow,               \* handleRead: its `now`
  deadline,              \* of the timerfd; 0 when it is not armed
  readable,              \* whether the timerfd is
  polled,                \* the poll reported it; handleRead is still to be called
  tasks,                 \* functors queued by other threads, oldest first
  adding,                \* addTimer calls of other threads that have queued their functor
  ids,                   \* TimerIds that addTimer has returned
  fired,                 \* timers (their sequence) whose callback has been called
  cancelled              \* timers whose cancellation found them in the queue

queueVars == <<timer_list_, active_timer_set_, canceling_timer_set_>>
readVars == <<is_running_callback_, batch, expired, resetting, readNow>>
fdVars == <<deadline, readable, polled>>
callVars == <<tasks, adding, ids>>
ghostVars == <<fired, cancelled>>
vars == <<now, timers, s_global_sequence_, queueVars, readVars, fdVars, callVars, ghostVars>>

Sequences_ == 0..(MaxTimers - 1)
Times == Nat \ {0}
Timer == [expiration : Times, interval : Intervals, sequence : Sequences_]
Garbage == MaxTimers   \* a number that no timer has
TimerIds == Addresses \X (Sequences_ \cup {Garbage})
Entries == Times \X Sequences_
Functor == [op : {"add"}, timer : Addresses] \cup [op : {"cancel"}, id : TimerIds]

ASSUME NoTimerAssumption == NoTimer \notin Timer

TypeOK ==
  /\ now \in 1..MaxTime
  /\ timers \in [Addresses -> Timer \cup {NoTimer}]
  /\ s_global_sequence_ \in 0..MaxTimers
  /\ DOMAIN timer_list_ \subseteq Entries
  /\ \A e \in DOMAIN timer_list_ : timer_list_[e] \in Addresses
  /\ active_timer_set_ \subseteq TimerIds
  /\ canceling_timer_set_ \subseteq TimerIds
  /\ is_running_callback_ \in BOOLEAN
  /\ batch \subseteq Entries
  /\ expired \subseteq batch
  /\ resetting \in BOOLEAN
  /\ readNow \in 0..MaxTime
  /\ deadline \in Times \cup {0}
  /\ readable \in BOOLEAN
  /\ polled \in BOOLEAN
  /\ tasks \in Seq(Functor)
  /\ adding \subseteq TimerIds
  /\ ids \subseteq TimerIds
  /\ fired \subseteq Sequences_
  /\ cancelled \subseteq Sequences_

Init ==
  /\ now = 1
  /\ timers = [a \in Addresses |-> NoTimer]
  /\ s_global_sequence_ = 0
  /\ timer_list_ = <<>>
  /\ active_timer_set_ = {}
  /\ canceling_timer_set_ = {}
  /\ is_running_callback_ = FALSE
  /\ batch = {}
  /\ expired = {}
  /\ resetting = FALSE
  /\ readNow = 0
  /\ deadline = 0
  /\ readable = FALSE
  /\ polled = FALSE
  /\ tasks = <<>>
  /\ adding = {}
  /\ ids = {}
  /\ fired = {}
  /\ cancelled = {}

-----------------------------------------------------------------------------
(* The indexes                                                             *)

EntryLess(e, f) == e[1] < f[1] \/ (e[1] = f[1] /\ e[2] < f[2])

\* e comes first in the order of timer_list_, which expired_timers keeps.
First(e, entries) == e \in entries /\ \A f \in entries : f = e \/ EntryLess(e, f)

entryOf(timer) == <<timer.expiration, timer.sequence>>

\* timer_list_ without the entries `gone`, and with a at `entry`.
PutEntry(gone, entry, a) ==
  timer_list_' = [e \in (DOMAIN timer_list_ \ gone) \cup {entry} |->
                    IF e = entry THEN a ELSE timer_list_[e]]

erase_ListOnly(id) ==
  IF id \in active_timer_set_
  THEN /\ timer_list_' = [e \in DOMAIN timer_list_ \ {entryOf(timers[id[1]])} |-> timer_list_[e]]
       /\ timers' = [timers EXCEPT ![id[1]] = NoTimer]
       /\ UNCHANGED active_timer_set_
  ELSE UNCHANGED <<timer_list_, active_timer_set_, timers>>

erase_ByAddress(id) ==
  IF \E t \in active_timer_set_ : t[1] = id[1]
  THEN /\ timer_list_' = [e \in DOMAIN timer_list_ \ {entryOf(timers[id[1]])} |-> timer_list_[e]]
       /\ active_timer_set_' = {t \in active_timer_set_ : t[1] # id[1]}
       /\ timers' = [timers EXCEPT ![id[1]] = NoTimer]
  ELSE UNCHANGED <<timer_list_, active_timer_set_, timers>>

\* erase(del_timer).  The unique_ptr in the node of the map deletes the Timer.
erase(id) ==
  IF id \in active_timer_set_
  THEN /\ timer_list_' = [e \in DOMAIN timer_list_ \ {entryOf(timers[id[1]])} |-> timer_list_[e]]
       /\ active_timer_set_' = active_timer_set_ \ {id}
       /\ timers' = [timers EXCEPT ![id[1]] = NoTimer]
  ELSE UNCHANGED <<timer_list_, active_timer_set_, timers>>

\* insert(timer), for the timer at a.
insert(a, timer) ==
  /\ PutEntry({}, entryOf(timer), a)
  /\ active_timer_set_' = active_timer_set_ \cup {<<a, timer.sequence>>}

\* Timer::restart(now); 0 is the invalid time.
restart(timer, time) ==
  [timer EXCEPT !.expiration = IF timer.interval > 0 THEN time + timer.interval ELSE 0]

-----------------------------------------------------------------------------
(* The timerfd                                                             *)

\* resetTimerFd(expiration): timerfd_settime also takes back a readiness that has
\* not been read.  A time that has passed means "at once".
resetTimerFd(expiration) ==
  /\ deadline' = IF expiration > now THEN expiration ELSE now
  /\ readable' = FALSE
  /\ UNCHANGED polled

FireTimerFd ==
  /\ deadline # 0
  /\ deadline <= now
  /\ deadline' = 0
  /\ readable' = TRUE
  /\ UNCHANGED <<polled, now, timers, s_global_sequence_, queueVars, readVars, callVars, ghostVars>>

Tick ==
  /\ now < MaxTime
  /\ now' = now + 1
  /\ UNCHANGED <<timers, s_global_sequence_, queueVars, readVars, fdVars, callVars, ghostVars>>

-----------------------------------------------------------------------------
(* Adding and cancelling                                                   *)

NewTimer(when, interval) ==
  [expiration |-> when, interval |-> interval, sequence |-> s_global_sequence_]

\* What addTimer does in every thread: new Timer.
Create(a, when, interval) ==
  /\ timers[a] = NoTimer
  /\ s_global_sequence_ < MaxTimers
  /\ timers' = [timers EXCEPT ![a] = NewTimer(when, interval)]
  /\ s_global_sequence_' = s_global_sequence_ + 1

addTimerInLoop_NeverRearms(a, timer) ==
  /\ insert(a, timer)
  /\ IF DOMAIN timer_list_ = {} THEN resetTimerFd(timer.expiration) ELSE UNCHANGED fdVars

\* addTimerInLoop(timer): the timerfd is set if the timer becomes the earliest.
addTimerInLoop(a, timer) ==
  /\ insert(a, timer)
  /\ IF \A e \in DOMAIN timer_list_ : timer.expiration < e[1]
     THEN resetTimerFd(timer.expiration)
     ELSE UNCHANGED fdVars

cancelTimerInLoop_AtOnce(id) ==
  /\ erase(id)
  /\ cancelled' = IF id \in active_timer_set_ THEN cancelled \cup {id[2]} ELSE cancelled
  /\ UNCHANGED canceling_timer_set_

\* cancelTimerInLoop(timer_id): at once, or left to reset() while callbacks run.
cancelTimerInLoop(id) ==
  /\ IF is_running_callback_
     THEN /\ canceling_timer_set_' = canceling_timer_set_ \cup {id}
          /\ UNCHANGED <<timer_list_, active_timer_set_, timers>>
     ELSE erase(id) /\ UNCHANGED canceling_timer_set_
  /\ cancelled' = IF id \in active_timer_set_ THEN cancelled \cup {id[2]} ELSE cancelled

InHandleRead == is_running_callback_ \/ resetting

\* Within handleRead, user code runs only in the callbacks, from the first one on.
InUserCode == InHandleRead => is_running_callback_ /\ expired # batch

\* addTimer on the loop's thread, where runInLoop calls addTimerInLoop directly:
\* in a timer's callback or in any other code of the loop.
LoopAddTimer(a, when, interval) ==
  /\ InUserCode
  /\ Create(a, when, interval)
  /\ addTimerInLoop(a, NewTimer(when, interval))
  /\ ids' = ids \cup {<<a, s_global_sequence_>>}
  /\ UNCHANGED <<now, canceling_timer_set_, readVars, tasks, adding, ghostVars>>

LoopCancelTimer(id) ==
  /\ InUserCode
  /\ id \in ids
  /\ cancelTimerInLoop(id)
  /\ UNCHANGED <<now, s_global_sequence_, readVars, fdVars, callVars, fired>>

\* addTimer on another thread: it queues the insertion, then reads the sequence
\* number through the raw pointer to build the TimerId.
ThreadAddTimer(a, when, interval) ==
  /\ Create(a, when, interval)
  /\ tasks' = Append(tasks, [op |-> "add", timer |-> a])
  /\ adding' = adding \cup {<<a, s_global_sequence_>>}
  /\ UNCHANGED <<now, queueVars, readVars, fdVars, ids, ghostVars>>

\* The Timer may have been deleted: then the number is that of the next timer at the
\* address, or, in free memory, still the old one or that of nothing.
ThreadGetTimerId(call, s) ==
  /\ call \in adding
  /\ s \in IF timers[call[1]] # NoTimer THEN {timers[call[1]].sequence} ELSE {call[2], Garbage}
  /\ adding' = adding \ {call}
  /\ ids' = ids \cup {<<call[1], s>>}
  /\ UNCHANGED <<now, timers, s_global_sequence_, queueVars, readVars, fdVars, tasks, ghostVars>>

ThreadCancelTimer(id) ==
  /\ id \in ids
  /\ \A i \in DOMAIN tasks : tasks[i] # [op |-> "cancel", id |-> id]   \* bound: queued once
  /\ tasks' = Append(tasks, [op |-> "cancel", id |-> id])
  /\ UNCHANGED <<now, timers, s_global_sequence_, queueVars, readVars, fdVars, adding, ids, ghostVars>>

\* The loop runs the oldest functor, after the channels of the round.
RunFunctor ==
  /\ tasks # <<>>
  /\ ~InHandleRead /\ ~polled
  /\ tasks' = Tail(tasks)
  /\ \/ /\ Head(tasks).op = "add"
        /\ addTimerInLoop(Head(tasks).timer, timers[Head(tasks).timer])
        /\ UNCHANGED <<timers, canceling_timer_set_, cancelled>>
     \/ /\ Head(tasks).op = "cancel"
        /\ cancelTimerInLoop(Head(tasks).id)
        /\ UNCHANGED fdVars
  /\ UNCHANGED <<now, s_global_sequence_, readVars, adding, ids, fired>>

-----------------------------------------------------------------------------
(* handleRead()                                                            *)

\* epoll_wait returns the timerfd's channel; other callbacks may run before its own.
PollTimerFd ==
  /\ readable
  /\ ~polled
  /\ ~InHandleRead
  /\ polled' = TRUE
  /\ UNCHANGED <<deadline, readable, now, timers, s_global_sequence_, queueVars, readVars,
                 callVars, ghostVars>>

\* getExpiredTimers(now): the entries up to <<now, LLONG_MAX>>.
getExpiredTimers(time) == {e \in DOMAIN timer_list_ : e[1] <= time}

\* Up to the loop over the callbacks.  A readiness taken back by resetTimerFd since
\* the poll is an EAGAIN that is only logged: handleRead goes on all the same.
HandleReadBegin ==
  /\ polled
  /\ polled' = FALSE
  /\ readNow' = now
  /\ readable' = FALSE
  /\ batch' = getExpiredTimers(now)
  /\ expired' = batch'
  /\ is_running_callback_' = TRUE
  /\ UNCHANGED <<now, timers, s_global_sequence_, queueVars, resetting, deadline, callVars, ghostVars>>

\* timer_list_[entry]->run(); what the callback does are LoopAddTimer and LoopCancelTimer.
RunCallback(e) ==
  /\ First(e, expired)
  /\ fired' = fired \cup {e[2]}
  /\ expired' = expired \ {e}
  /\ UNCHANGED <<now, timers, s_global_sequence_, queueVars, is_running_callback_, batch,
                 resetting, readNow, fdVars, callVars, cancelled>>

\* is_running_callback_=false, and into reset(expired_timers,now).
CallbacksEnd ==
  /\ is_running_callback_
  /\ expired = {}
  /\ is_running_callback_' = FALSE
  /\ resetting' = TRUE
  /\ UNCHANGED <<now, timers, s_global_sequence_, queueVars, expired, batch, readNow, fdVars,
                 callVars, ghostVars>>

Restarts_AnyTimer(e) == <<timer_list_[e], e[2]>> \notin canceling_timer_set_

Restarts(e) ==
  /\ timers[timer_list_[e]].interval > 0
  /\ <<timer_list_[e], e[2]>> \notin canceling_timer_set_

\* The body of reset()'s first loop: a repeating timer that was not cancelled is
\* moved to its new entry, any other is deleted.
ResetEntry(e) ==
  LET a == timer_list_[e]
      timer == restart(timers[a], readNow)
  IN /\ resetting
     /\ First(e, batch)
     /\ batch' = batch \ {e}
     /\ \/ /\ Restarts(e)
           /\ timers' = [timers EXCEPT ![a] = timer]
           /\ PutEntry({e}, <<timer.expiration, e[2]>>, a)
           /\ UNCHANGED <<active_timer_set_, canceling_timer_set_>>
        \/ /\ ~Restarts(e)
           /\ erase(<<a, e[2]>>)
           /\ canceling_timer_set_' = canceling_timer_set_ \ {<<a, e[2]>>}
     /\ UNCHANGED <<now, s_global_sequence_, is_running_callback_, expired, resetting, readNow,
                    fdVars, callVars, ghostVars>>

EraseCancelled_Forgets(id) ==
  /\ resetting
  /\ batch = {}
  /\ id \in canceling_timer_set_
  /\ canceling_timer_set_' = canceling_timer_set_ \ {id}
  /\ UNCHANGED <<timer_list_, active_timer_set_, timers>>
  /\ UNCHANGED <<now, s_global_sequence_, readVars, fdVars, callVars, ghostVars>>

\* Its second loop: what is left of the cancellations.
EraseCancelled(id) ==
  /\ resetting
  /\ batch = {}
  /\ id \in canceling_timer_set_
  /\ canceling_timer_set_' = canceling_timer_set_ \ {id}
  /\ erase(id)
  /\ UNCHANGED <<now, s_global_sequence_, readVars, fdVars, callVars, ghostVars>>

HandleReadEnd_NoRearm ==
  /\ resetting
  /\ batch = {} /\ canceling_timer_set_ = {}
  /\ resetting' = FALSE
  /\ readNow' = 0
  /\ UNCHANGED <<now, timers, s_global_sequence_, queueVars, is_running_callback_, expired, batch,
                 fdVars, callVars, ghostVars>>

\* The end of reset(): the timerfd is set for the earliest timer.
HandleReadEnd ==
  /\ resetting
  /\ batch = {} /\ canceling_timer_set_ = {}
  /\ resetting' = FALSE
  /\ readNow' = 0
  /\ \/ DOMAIN timer_list_ = {} /\ UNCHANGED fdVars
     \/ \E e \in DOMAIN timer_list_ : First(e, DOMAIN timer_list_) /\ resetTimerFd(e[1])
  /\ UNCHANGED <<now, timers, s_global_sequence_, queueVars, is_running_callback_, expired, batch,
                 callVars, ghostVars>>

-----------------------------------------------------------------------------
HandleRead ==
  \/ HandleReadBegin
  \/ \E e \in expired : RunCallback(e)
  \/ CallbacksEnd
  \/ \E e \in batch : ResetEntry(e)
  \/ \E id \in canceling_timer_set_ : EraseCancelled(id)
  \/ HandleReadEnd

Next ==
  \/ Tick
  \/ FireTimerFd
  \/ RunFunctor
  \/ PollTimerFd
  \/ HandleRead
  \/ \E a \in Addresses, when \in 1..MaxTime, interval \in Intervals :
       LoopAddTimer(a, when, interval) \/ ThreadAddTimer(a, when, interval)
  \/ \E call \in adding, s \in Sequences_ \cup {Garbage} : ThreadGetTimerId(call, s)
  \/ \E id \in ids : LoopCancelTimer(id) \/ ThreadCancelTimer(id)

Spec == Init /\ [][Next]_vars

\* Time goes on, the kernel fires the timerfd, every round of the loop polls, and
\* callbacks return.
Fairness ==
  /\ WF_vars(Tick)
  /\ WF_vars(FireTimerFd)
  /\ WF_vars(PollTimerFd)
  /\ WF_vars(HandleRead)

FairSpec == Spec /\ Fairness

-----------------------------------------------------------------------------
(* Properties                                                              *)

InQueue(s) == \E e \in DOMAIN timer_list_ : e[2] = s
Due(s) == \E e \in DOMAIN timer_list_ : e[2] = s /\ e[1] <= now

\* The two indexes hold the same timers, each under its own expiration and sequence
\* number, and every Timer they point to exists: the assertions on their sizes
\* (TimerQueue.cc:108, 121, 126, 146, 151, 212, 229) and what they stand for.
IndexesAgree ==
  /\ \A e \in DOMAIN timer_list_ :
       /\ timers[timer_list_[e]] # NoTimer
       /\ entryOf(timers[timer_list_[e]]) = e
       /\ <<timer_list_[e], e[2]>> \in active_timer_set_
  /\ \A id \in active_timer_set_ : \E e \in DOMAIN timer_list_ : <<timer_list_[e], e[2]>> = id

\* timer_list_[entry] in handleRead and reset (TimerQueue.cc:139, 172) never makes a
\* node with a null pointer: nothing a callback does removes a timer of the batch.
BatchStaysInList == batch \subseteq DOMAIN timer_list_

\* Outside handleRead the timerfd is ready, or set to go off no later than the
\* earliest timer (TimerQueue.cc:99, 198), whatever was added or cancelled since.
TimerFdArmed ==
  ~InHandleRead /\ DOMAIN timer_list_ # {} =>
    \/ readable \/ polled
    \/ deadline # 0 /\ \A e \in DOMAIN timer_list_ : deadline <= e[1] \/ deadline <= now

\* When handleRead is over, the timers that were cancelled, the repeating
\* ones that the round restarts included, and the one-shot timers that have run are no
\* longer in the queue (TimerQueue.cc:112-119, 174-191).
RoundSettles ==
  ~InHandleRead =>
    \A e \in DOMAIN timer_list_ :
      /\ e[2] \notin cancelled
      /\ e[2] \in fired => timers[timer_list_[e]].interval > 0

\* A timer leaves the queue only because it was cancelled, or because it is one-shot
\* and has run: not with another one that expires at the same time, and not through
\* the TimerId of an earlier timer at its address (TimerQueue.cc:172-187, 233-243).
TimersLeaveForAReason ==
  [][\A e \in DOMAIN timer_list_ :
       \/ InQueue(e[2])'
       \/ e[2] \in cancelled'
       \/ e[2] \in fired /\ timers[timer_list_[e]].interval = 0]_vars

\* A timer that is due does not stay so: it is run and restarted, run and deleted, or
\* cancelled (TimerQueue.cc:124-207).
DueTimersRun ==
  \A s \in Sequences_ : Due(s) ~> ~Due(s)

-----------------------------------------------------------------------------
(* What comments and tests say and the code does not do                    *)

\* README.md:21: the queue of functors is all that threads share.  The Timer that
\* addTimer reads after it has queued it must then still be the one it made.
TimerIdIsOwn ==
  \A call \in adding : timers[call[1]] # NoTimer /\ timers[call[1]].sequence = call[2]
=============================================================================

-------------------------- MODULE TimerQueueProofs --------------------------
(***************************************************************************)
(* The timer queue with any number of timers, addresses and intervals: its *)
(* two indexes agree, a round finds the timers of its batch, the timerfd   *)
(* is set for the earliest timer, and a timer leaves only when it was      *)
(* cancelled or has run.                                                   *)
(***************************************************************************)
EXTENDS TimerQueue, TLAPS

\* Every Timer on the heap has a number of its own, older than the next one.
Numbered ==
  /\ \A a \in Addresses : timers[a] # NoTimer => timers[a].sequence < s_global_sequence_
  /\ \A a, b \in Addresses :
       timers[a] # NoTimer /\ timers[b] # NoTimer /\ timers[a].sequence = timers[b].sequence => a = b

\* The Timer of a queued addTimerInLoop exists, is in no index and in no other functor,
\* and nothing has happened to it.
Waiting(a) ==
  /\ timers[a] # NoTimer
  /\ <<a, timers[a].sequence>> \notin active_timer_set_
  /\ timers[a].sequence \notin fired \cup cancelled

Pending ==
  \A i \in DOMAIN tasks :
    tasks[i].op = "add" =>
      /\ Waiting(tasks[i].timer)
      /\ \A j \in DOMAIN tasks : tasks[j].op = "add" /\ tasks[j].timer = tasks[i].timer => j = i

\* No number is known before its timer was made.
KnownNumbers ==
  /\ \A id \in ids \cup adding \cup canceling_timer_set_ : id[2] < s_global_sequence_ \/ id[2] = Garbage
  /\ \A s \in fired \cup cancelled : s < s_global_sequence_

\* Where handleRead is, and what it has done.
Round ==
  /\ ~(is_running_callback_ /\ resetting)
  /\ polled => ~InHandleRead
  /\ ~is_running_callback_ => expired = {}
  /\ ~InHandleRead => batch = {} /\ canceling_timer_set_ = {}
  /\ \A e \in batch : e \notin expired => e[2] \in fired
  /\ \A id \in canceling_timer_set_ \cap active_timer_set_ : id[2] \in cancelled

\* What is cancelled, or one-shot and run, is still in the queue only as long as the
\* round has to settle it.
Settling ==
  \A e \in DOMAIN timer_list_ :
    /\ e[2] \in cancelled => <<timer_list_[e], e[2]>> \in canceling_timer_set_
    /\ e[2] \in fired /\ timers[timer_list_[e]].interval = 0 => e \in batch \ expired

\* The conjunction that is inductive.
TimerInv ==
  /\ TypeOK
  /\ Numbered
  /\ IndexesAgree
  /\ Pending
  /\ KnownNumbers
  /\ BatchStaysInList
  /\ Round
  /\ Settling
  /\ TimerFdArmed

-----------------------------------------------------------------------------
(* The indexes                                                             *)

\* A pair is its two parts.
LEMMA EntryParts ==
  /\ \A e \in Entries : e[1] \in Nat /\ e[1] # 0 /\ e[2] \in Sequences_ /\ e = <<e[1], e[2]>>
  /\ \A id \in TimerIds : id[1] \in Addresses /\ id = <<id[1], id[2]>>
  /\ \A s \in Sequences_ : s \in Nat /\ s < MaxTimers /\ s # Garbage
BY BoundsAssumption DEF Entries, Times, TimerIds, Sequences_, Garbage

LEMMA TimerParts ==
  ASSUME NEW timer \in Timer
  PROVE  /\ timer.expiration \in Times /\ timer.interval \in Nat /\ timer.sequence \in Sequences_
         /\ entryOf(timer) \in Entries
         /\ entryOf(timer)[1] = timer.expiration /\ entryOf(timer)[2] = timer.sequence
BY IntervalsAssumption DEF Timer, Entries, entryOf

\* What an entry of timer_list_ stands for.
LEMMA ListedTimer ==
  ASSUME TypeOK, IndexesAgree, NEW e \in DOMAIN timer_list_
  PROVE  /\ e \in Entries /\ timer_list_[e] \in Addresses
         /\ timers[timer_list_[e]] \in Timer
         /\ timers[timer_list_[e]] # NoTimer
         /\ timers[timer_list_[e]].expiration = e[1] /\ timers[timer_list_[e]].sequence = e[2]
<1>1. e \in Entries /\ timer_list_[e] \in Addresses
  BY DEF TypeOK
<1>2. timers[timer_list_[e]] \in Timer /\ timers[timer_list_[e]] # NoTimer
  BY <1>1 DEF TypeOK, IndexesAgree
<1>3. entryOf(timers[timer_list_[e]]) = e
  BY DEF IndexesAgree
<1> QED
  BY <1>1, <1>2, <1>3, TimerParts

\* A timer is under one entry.
LEMMA OneEntry ==
  ASSUME TypeOK, Numbered, IndexesAgree, NEW e \in DOMAIN timer_list_, NEW f \in DOMAIN timer_list_,
         e[2] = f[2] \/ timer_list_[e] = timer_list_[f]
  PROVE  e = f
<1>1. timer_list_[e] = timer_list_[f]
  BY ListedTimer DEF Numbered
<1>2. entryOf(timers[timer_list_[e]]) = e /\ entryOf(timers[timer_list_[f]]) = f
  BY DEF IndexesAgree
<1> QED
  BY <1>1, <1>2

\* What an element of active_timer_set_ stands for.
LEMMA ActiveTimer ==
  ASSUME TypeOK, IndexesAgree, NEW id \in active_timer_set_
  PROVE  /\ id[1] \in Addresses /\ timers[id[1]] # NoTimer /\ timers[id[1]].sequence = id[2]
         /\ timers[id[1]] \in Timer
         /\ entryOf(timers[id[1]]) \in DOMAIN timer_list_
         /\ timer_list_[entryOf(timers[id[1]])] = id[1] /\ entryOf(timers[id[1]])[2] = id[2]
         /\ id = <<id[1], id[2]>>
<1>1. PICK e \in DOMAIN timer_list_ : <<timer_list_[e], e[2]>> = id
  BY DEF IndexesAgree
<1>2. id[1] = timer_list_[e] /\ id[2] = e[2]
  BY <1>1
<1>3. entryOf(timers[timer_list_[e]]) = e
  BY DEF IndexesAgree
<1> QED
  BY <1>1, <1>2, <1>3, ListedTimer

\* erase() takes a timer out of both indexes and deletes it, or does nothing.
LEMMA EraseIndexes ==
  ASSUME TypeOK, Numbered, IndexesAgree, NEW id, erase(id), UNCHANGED s_global_sequence_
  PROVE  /\ timers' \in [Addresses -> Timer \cup {NoTimer}]
         /\ DOMAIN timer_list_' \subseteq DOMAIN timer_list_
         /\ \A e \in DOMAIN timer_list_' :
              timer_list_'[e] = timer_list_[e] /\ timers'[timer_list_[e]] = timers[timer_list_[e]]
         /\ \A e \in DOMAIN timer_list_ : e \notin DOMAIN timer_list_' => <<timer_list_[e], e[2]>> = id
         /\ active_timer_set_' = active_timer_set_ \ {id}
         /\ \A a \in Addresses :
              timers[a] # NoTimer /\ <<a, timers[a].sequence>> \notin active_timer_set_ => timers'[a] = timers[a]
         /\ Numbered' /\ IndexesAgree'
<1>0. timers \in [Addresses -> Timer \cup {NoTimer}]
  BY DEF TypeOK
<1>1. CASE id \notin active_timer_set_
  <2>1. UNCHANGED <<timer_list_, active_timer_set_, timers>>
    BY <1>1 DEF erase
  <2> QED
    BY <1>0, <1>1, <2>1 DEF Numbered, IndexesAgree
<1>2. CASE id \in active_timer_set_
  <2>1. PICK a : a = id[1]
    OBVIOUS
  <2>2. PICK d : d = entryOf(timers[a])
    OBVIOUS
  <2>3. /\ a \in Addresses /\ timers[a] # NoTimer /\ timers[a].sequence = id[2] /\ timers[a] \in Timer
        /\ d \in DOMAIN timer_list_ /\ timer_list_[d] = a /\ d[2] = id[2] /\ id = <<a, d[2]>>
    BY <1>2, <2>1, <2>2, ActiveTimer
  <2>4. /\ timer_list_' = [e \in DOMAIN timer_list_ \ {d} |-> timer_list_[e]]
        /\ active_timer_set_' = active_timer_set_ \ {id}
        /\ timers' = [timers EXCEPT ![a] = NoTimer]
    BY <1>2, <2>1, <2>2 DEF erase
  <2>5. \A b \in Addresses : timers'[b] = IF b = a THEN NoTimer ELSE timers[b]
    BY <1>0, <2>4
  <2>6. \A e \in DOMAIN timer_list_ : e # d => timer_list_[e] # a /\ timer_list_[e] \in Addresses
    BY <2>3, OneEntry, ListedTimer
  <2>7. \A e \in DOMAIN timer_list_' :
          /\ e \in DOMAIN timer_list_ /\ e # d
          /\ timer_list_'[e] = timer_list_[e] /\ timers'[timer_list_[e]] = timers[timer_list_[e]]
    BY <2>4, <2>5, <2>6
  <2>8. Numbered'
    BY <2>5 DEF Numbered
  <2>9. IndexesAgree'
    <3>1. ASSUME NEW e \in DOMAIN timer_list_'
          PROVE  /\ timers'[timer_list_'[e]] # NoTimer
                 /\ entryOf(timers'[timer_list_'[e]]) = e
                 /\ <<timer_list_'[e], e[2]>> \in active_timer_set_'
      <4>1. /\ e \in DOMAIN timer_list_ /\ timer_list_[e] # a
            /\ timer_list_'[e] = timer_list_[e] /\ timers'[timer_list_[e]] = timers[timer_list_[e]]
        BY <2>6, <2>7
      <4>2. <<timer_list_[e], e[2]>> \in active_timer_set_ /\ <<timer_list_[e], e[2]>> # id
        BY <2>3, <4>1 DEF IndexesAgree
      <4> QED
        BY <2>4, <4>1, <4>2 DEF IndexesAgree
    <3>2. ASSUME NEW x \in active_timer_set_'
          PROVE  \E e \in DOMAIN timer_list_' : <<timer_list_'[e], e[2]>> = x
      <4>1. PICK e \in DOMAIN timer_list_ : <<timer_list_[e], e[2]>> = x
        BY <2>4 DEF IndexesAgree
      <4>2. e # d
        BY <2>3, <2>4, <4>1
      <4> QED
        BY <2>4, <4>1, <4>2
    <3> QED
      BY <3>1, <3>2 DEF IndexesAgree
  <2>10. timers' \in [Addresses -> Timer \cup {NoTimer}]
    BY <1>0, <2>4
  <2>11. \A e \in DOMAIN timer_list_ : e \notin DOMAIN timer_list_' => <<timer_list_[e], e[2]>> = id
    BY <2>3, <2>4
  <2>12. \A b \in Addresses :
           timers[b] # NoTimer /\ <<b, timers[b].sequence>> \notin active_timer_set_ => timers'[b] = timers[b]
    BY <1>2, <2>3, <2>5
  <2>13. DOMAIN timer_list_' \subseteq DOMAIN timer_list_
    BY <2>4
  <2> QED
    BY <2>4, <2>7, <2>8, <2>9, <2>10, <2>11, <2>12, <2>13
<1> QED
  BY <1>1, <1>2

\* insert() puts a timer that neither index knows into both.
LEMMA InsertIndexes ==
  ASSUME TypeOK, Numbered, IndexesAgree, NEW a \in Addresses, NEW timer \in Timer, insert(a, timer),
         timers'[a] = timer, \A b \in Addresses : b # a => timers'[b] = timers[b],
         \A e \in DOMAIN timer_list_ : timer_list_[e] # a /\ e[2] # timer.sequence
  PROVE  /\ entryOf(timer) \in Entries /\ entryOf(timer)[1] = timer.expiration
         /\ entryOf(timer)[2] = timer.sequence
         /\ DOMAIN timer_list_' = DOMAIN timer_list_ \cup {entryOf(timer)}
         /\ timer_list_'[entryOf(timer)] = a
         /\ \A e \in DOMAIN timer_list_ :
              timer_list_'[e] = timer_list_[e] /\ timers'[timer_list_[e]] = timers[timer_list_[e]]
         /\ active_timer_set_' = active_timer_set_ \cup {<<a, timer.sequence>>}
         /\ IndexesAgree'
<1>1. PICK n : n = entryOf(timer)
  OBVIOUS
<1>2. n \in Entries /\ n[1] = timer.expiration /\ n[2] = timer.sequence
  BY <1>1, TimerParts
<1>3. /\ timer_list_' = [e \in DOMAIN timer_list_ \cup {n} |-> IF e = n THEN a ELSE timer_list_[e]]
      /\ active_timer_set_' = active_timer_set_ \cup {<<a, n[2]>>}
  <2>1. (DOMAIN timer_list_ \ {}) \cup {n} = DOMAIN timer_list_ \cup {n}
    OBVIOUS
  <2> QED
    BY <1>1, <1>2, <2>1 DEF insert, PutEntry
<1>4. /\ DOMAIN timer_list_' = DOMAIN timer_list_ \cup {n} /\ timer_list_'[n] = a
      /\ \A e \in DOMAIN timer_list_ :
           /\ e # n /\ timer_list_[e] \in Addresses
           /\ timer_list_'[e] = timer_list_[e] /\ timers'[timer_list_[e]] = timers[timer_list_[e]]
  BY <1>2, <1>3, ListedTimer
<1>5. IndexesAgree'
  <2>1. ASSUME NEW e \in DOMAIN timer_list_'
        PROVE  /\ timers'[timer_list_'[e]] # NoTimer
               /\ entryOf(timers'[timer_list_'[e]]) = e
               /\ <<timer_list_'[e], e[2]>> \in active_timer_set_'
    <3>1. CASE e = n
      BY <1>1, <1>3, <1>4, <3>1, NoTimerAssumption
    <3>2. CASE e \in DOMAIN timer_list_
      BY <1>3, <1>4, <3>2 DEF IndexesAgree
    <3> QED
      BY <1>4, <3>1, <3>2
  <2>2. ASSUME NEW x \in active_timer_set_'
        PROVE  \E e \in DOMAIN timer_list_' : <<timer_list_'[e], e[2]>> = x
    <3>1. CASE x \in active_timer_set_
      <4>1. PICK e \in DOMAIN timer_list_ : <<timer_list_[e], e[2]>> = x
        BY <3>1 DEF IndexesAgree
      <4> QED
        BY <1>4, <4>1
    <3>2. CASE x = <<a, n[2]>>
      BY <1>4, <3>2
    <3> QED
      BY <1>3, <3>1, <3>2
  <2> QED
    BY <2>1, <2>2 DEF IndexesAgree
<1> QED
  BY <1>1, <1>2, <1>3, <1>4, <1>5

\* addTimerInLoop() leaves a timerfd that is set for the earliest timer.
LEMMA ArmedAfterAdd ==
  ASSUME TypeOK, NEW a, NEW timer \in Timer, addTimerInLoop(a, timer), UNCHANGED now,
         InHandleRead' = InHandleRead, TimerFdArmed, NEW n \in Entries, n[1] = timer.expiration,
         DOMAIN timer_list_' = DOMAIN timer_list_ \cup {n}
  PROVE  /\ deadline' \in Times \cup {0} /\ readable' \in BOOLEAN /\ UNCHANGED polled
         /\ TimerFdArmed'
<1>0. /\ deadline \in Nat /\ now \in Nat /\ now # 0 /\ timer.expiration \in Nat /\ timer.expiration # 0
      /\ deadline \in Times \cup {0} /\ readable \in BOOLEAN
      /\ \A e \in DOMAIN timer_list_ : e[1] \in Nat
  BY BoundsAssumption, EntryParts, TimerParts DEF TypeOK, Times
<1>1. CASE \A e \in DOMAIN timer_list_ : timer.expiration < e[1]
  <2>1. /\ deadline' = IF timer.expiration > now THEN timer.expiration ELSE now
        /\ readable' = FALSE /\ UNCHANGED polled
    BY <1>1 DEF addTimerInLoop, resetTimerFd
  <2>2. \A e \in DOMAIN timer_list_' : timer.expiration <= e[1]
    BY <1>0, <1>1
  <2>3. deadline' \in Nat /\ deadline' # 0 /\ (deadline' = timer.expiration \/ deadline' = now)
    BY <1>0, <2>1
  <2>4. \A e \in DOMAIN timer_list_' : deadline' <= e[1] \/ deadline' <= now
    BY <1>0, <2>2, <2>3
  <2> QED
    BY <2>1, <2>3, <2>4 DEF TimerFdArmed, Times
<1>2. CASE ~\A e \in DOMAIN timer_list_ : timer.expiration < e[1]
  <2>1. UNCHANGED <<deadline, readable, polled>>
    BY <1>2 DEF addTimerInLoop, fdVars
  <2>2. PICK f \in DOMAIN timer_list_ : ~(timer.expiration < f[1])
    BY <1>2
  <2>3. f[1] \in Nat /\ f[1] <= timer.expiration
    BY <1>0, <2>2
  <2>4. ASSUME deadline # 0, \A e \in DOMAIN timer_list_ : deadline <= e[1] \/ deadline <= now
        PROVE  \A e \in DOMAIN timer_list_' : deadline <= e[1] \/ deadline <= now
    BY <1>0, <2>3, <2>4
  <2> QED
    BY <1>0, <2>1, <2>2, <2>4 DEF TimerFdArmed
<1> QED
  BY <1>1, <1>2

-----------------------------------------------------------------------------
(* The queue of functors                                                   *)

LEMMA TaskAppended ==
  ASSUME TypeOK, NEW f \in Functor, tasks' = Append(tasks, f)
  PROVE  /\ tasks' \in Seq(Functor)
         /\ \A i \in DOMAIN tasks' : \/ i \in DOMAIN tasks /\ tasks'[i] = tasks[i]
                                     \/ i = Len(tasks) + 1 /\ tasks'[i] = f
BY DEF TypeOK

LEMMA TaskTaken ==
  ASSUME TypeOK, tasks # <<>>, tasks' = Tail(tasks)
  PROVE  /\ tasks' \in Seq(Functor) /\ 1 \in DOMAIN tasks /\ Head(tasks) = tasks[1] /\ Head(tasks) \in Functor
         /\ \A i \in DOMAIN tasks' : i + 1 \in DOMAIN tasks /\ tasks'[i] = tasks[i + 1] /\ i + 1 # 1
         /\ \A i, j \in DOMAIN tasks' : i + 1 = j + 1 => i = j
<1>1. tasks \in Seq(Functor) /\ Len(tasks) \in Nat /\ Len(tasks) # 0
  BY DEF TypeOK
<1>2. /\ tasks' \in Seq(Functor) /\ Len(tasks') = Len(tasks) - 1 /\ DOMAIN tasks' = 1..(Len(tasks) - 1)
      /\ \A i \in 1..(Len(tasks) - 1) : tasks'[i] = tasks[i + 1]
  BY <1>1
<1>3. \A i \in DOMAIN tasks' : i \in Nat /\ i > 0 /\ i <= Len(tasks) - 1
  BY <1>1, <1>2
<1>4. \A i \in DOMAIN tasks' : i + 1 \in DOMAIN tasks /\ i + 1 # 1
  BY <1>1, <1>3
<1>5. \A i, j \in DOMAIN tasks' : i + 1 = j + 1 => i = j
  BY <1>3
<1>6. 1 \in DOMAIN tasks /\ Head(tasks) = tasks[1] /\ Head(tasks) \in Functor
  BY <1>1
<1> QED
  BY <1>2, <1>4, <1>5, <1>6

\* The waiting timers wait on, when functors only leave.
LEMMA PendingTaken ==
  ASSUME TypeOK, Pending, tasks # <<>>, tasks' = Tail(tasks),
         \A a \in Addresses :
           /\ Waiting(a)
           /\ Head(tasks).op = "add" => a # Head(tasks).timer
           => Waiting(a)'
  PROVE  Pending'
<1>1. /\ tasks' \in Seq(Functor) /\ 1 \in DOMAIN tasks /\ Head(tasks) = tasks[1]
      /\ \A i \in DOMAIN tasks' : i + 1 \in DOMAIN tasks /\ tasks'[i] = tasks[i + 1] /\ i + 1 # 1
      /\ \A i, j \in DOMAIN tasks' : i + 1 = j + 1 => i = j
  BY TaskTaken
<1> SUFFICES ASSUME NEW i \in DOMAIN tasks', tasks'[i].op = "add", NEW a, a = tasks'[i].timer
             PROVE  /\ Waiting(a)'
                    /\ \A j \in DOMAIN tasks' : tasks'[j].op = "add" /\ tasks'[j].timer = a => j = i
  BY DEF Pending, Waiting
<1>2. a = tasks'[i].timer
  OBVIOUS
<1>3. a \in Addresses
  <2>1. tasks'[i] \in Functor
    BY <1>1
  <2> QED
    BY <1>2, <2>1 DEF Functor
<1>4. Waiting(a) /\ (Head(tasks).op = "add" => a # Head(tasks).timer)
  BY <1>1, <1>2 DEF Pending
<1>5. Waiting(a)'
  BY <1>3, <1>4
<1>6. \A j \in DOMAIN tasks' : tasks'[j].op = "add" /\ tasks'[j].timer = a => j = i
  BY <1>1, <1>2 DEF Pending
<1> QED
  BY <1>5, <1>6

LEMMA PendingKept ==
  ASSUME TypeOK, Pending, UNCHANGED tasks, \A a \in Addresses : Waiting(a) => Waiting(a)'
  PROVE  Pending'
<1> SUFFICES ASSUME NEW i \in DOMAIN tasks, tasks[i].op = "add", NEW a, a = tasks[i].timer
             PROVE  /\ Waiting(a)'
                    /\ \A j \in DOMAIN tasks : tasks[j].op = "add" /\ tasks[j].timer = a => j = i
  BY DEF Pending, Waiting
<1>1. a \in Addresses
  <2>1. tasks[i] \in Functor
    BY DEF TypeOK
  <2> QED
    BY <2>1 DEF Functor
<1> QED
  BY <1>1 DEF Pending

-----------------------------------------------------------------------------
(* The invariant holds at first, and when the indexes stay as they are     *)

LEMMA TimerInvInit == Init => TimerInv
<1> SUFFICES ASSUME Init PROVE TimerInv
  OBVIOUS
<1> USE DEF Init
<1>1. DOMAIN timer_list_ = {} /\ DOMAIN tasks = {} /\ tasks \in Seq(Functor)
  <2>1. \A S : <<>> \in Seq(S) /\ Len(<<>>) = 0
    OBVIOUS
  <2>2. DOMAIN <<>> = 1..Len(<<>>)
    OBVIOUS
  <2> QED
    BY <2>1, <2>2
<1>2. TypeOK
  <2>1. now \in 1..MaxTime /\ s_global_sequence_ \in 0..MaxTimers /\ readNow \in 0..MaxTime
    BY BoundsAssumption
  <2>2. timers \in [Addresses -> Timer \cup {NoTimer}]
    OBVIOUS
  <2>3. DOMAIN timer_list_ \subseteq Entries /\ \A e \in DOMAIN timer_list_ : timer_list_[e] \in Addresses
    BY <1>1
  <2> QED
    BY <1>1, <2>1, <2>2, <2>3 DEF TypeOK
<1>3. Numbered /\ IndexesAgree /\ Pending /\ KnownNumbers
  BY <1>1 DEF Numbered, IndexesAgree, Pending, KnownNumbers
<1>4. BatchStaysInList /\ Round /\ Settling /\ TimerFdArmed
  BY <1>1 DEF BatchStaysInList, Round, Settling, TimerFdArmed, InHandleRead
<1> QED
  BY <1>2, <1>3, <1>4 DEF TimerInv

LEMMA IndexesKept ==
  ASSUME Numbered, IndexesAgree, UNCHANGED <<timers, s_global_sequence_, timer_list_, active_timer_set_>>
  PROVE  Numbered' /\ IndexesAgree'
BY DEF Numbered, IndexesAgree

LEMMA TickInv ==
  ASSUME TimerInv, Tick
  PROVE  TimerInv'
<1> USE DEF TimerInv, Tick, queueVars, readVars, fdVars, callVars, ghostVars
<1>1. now \in Nat /\ now' \in Nat /\ now <= now' /\ deadline \in Nat
  BY BoundsAssumption DEF TypeOK, Times
<1>2. TypeOK'
  <2>1. now' \in 1..MaxTime
    BY BoundsAssumption DEF TypeOK
  <2> QED
    BY <2>1 DEF TypeOK
<1>3. Pending'
  BY PendingKept DEF Waiting
<1>4. (KnownNumbers /\ BatchStaysInList /\ Round /\ Settling)'
  BY DEF KnownNumbers, BatchStaysInList, Round, Settling, InHandleRead
<1>5. TimerFdArmed'
  <2>1. deadline <= now => deadline <= now'
    BY <1>1
  <2> QED
    BY <2>1 DEF TimerFdArmed, InHandleRead
<1> QED
  BY <1>2, <1>3, <1>4, <1>5, IndexesKept

LEMMA FdInv ==
  ASSUME TimerInv, FireTimerFd \/ PollTimerFd
  PROVE  TimerInv'
<1> USE DEF TimerInv, FireTimerFd, PollTimerFd, queueVars, readVars, callVars, ghostVars
<1>1. TypeOK'
  BY DEF TypeOK
<1>2. Pending'
  BY PendingKept DEF Waiting
<1>3. (KnownNumbers /\ BatchStaysInList /\ Round /\ Settling)'
  BY DEF KnownNumbers, BatchStaysInList, Round, Settling, InHandleRead
<1>4. TimerFdArmed'
  BY DEF TimerFdArmed
<1> QED
  BY <1>1, <1>2, <1>3, <1>4, IndexesKept

LEMMA GetTimerIdInv ==
  ASSUME TimerInv, NEW call \in adding, NEW s \in Sequences_ \cup {Garbage}, ThreadGetTimerId(call, s)
  PROVE  TimerInv'
<1> USE DEF TimerInv, ThreadGetTimerId, queueVars, readVars, fdVars, ghostVars
<1>1. call[1] \in Addresses /\ call \in TimerIds
  BY EntryParts DEF TypeOK
<1>2. TypeOK'
  BY <1>1 DEF TypeOK, TimerIds
<1>3. Pending'
  BY PendingKept DEF Waiting
<1>4. KnownNumbers'
  <2>1. s < s_global_sequence_ \/ s = Garbage
    BY <1>1 DEF KnownNumbers, Numbered
  <2> QED
    BY <2>1 DEF KnownNumbers
<1>5. (BatchStaysInList /\ Round /\ Settling /\ TimerFdArmed)'
  BY DEF BatchStaysInList, Round, Settling, TimerFdArmed, InHandleRead
<1> QED
  BY <1>2, <1>3, <1>4, <1>5, IndexesKept

LEMMA ThreadCancelInv ==
  ASSUME TimerInv, NEW id \in ids, ThreadCancelTimer(id)
  PROVE  TimerInv'
<1> USE DEF TimerInv, ThreadCancelTimer, queueVars, readVars, fdVars, ghostVars
<1>1. PICK f : f = [op |-> "cancel", id |-> id]
  OBVIOUS
<1>2. f \in Functor /\ f.op = "cancel"
  BY <1>1 DEF Functor, TypeOK
<1>3. /\ tasks' \in Seq(Functor)
      /\ \A i \in DOMAIN tasks' : \/ i \in DOMAIN tasks /\ tasks'[i] = tasks[i]
                                  \/ i = Len(tasks) + 1 /\ tasks'[i] = f
  BY <1>1, <1>2, TaskAppended
<1>4. TypeOK'
  BY <1>3 DEF TypeOK
<1>5. Pending'
  BY <1>2, <1>3 DEF Pending, Waiting
<1>6. (KnownNumbers /\ BatchStaysInList /\ Round /\ Settling /\ TimerFdArmed)'
  BY DEF KnownNumbers, BatchStaysInList, Round, Settling, TimerFdArmed, InHandleRead
<1> QED
  BY <1>4, <1>5, <1>6, IndexesKept

\* A new Timer of another thread, and the functor that brings it to the loop.
LEMMA ThreadAddInv ==
  ASSUME TimerInv, NEW a \in Addresses, NEW when \in 1..MaxTime, NEW interval \in Intervals,
         ThreadAddTimer(a, when, interval)
  PROVE  TimerInv'
<1> USE DEF TimerInv, ThreadAddTimer, Create, queueVars, readVars, fdVars, ghostVars
<1>1. /\ s_global_sequence_ \in Nat /\ s_global_sequence_ \in Sequences_
      /\ s_global_sequence_' \in 0..MaxTimers /\ s_global_sequence_ < s_global_sequence_'
      /\ \A s \in Nat : s < s_global_sequence_ => s < s_global_sequence_'
  BY BoundsAssumption DEF TypeOK, Sequences_
<1>2. PICK timer : timer = NewTimer(when, interval)
  OBVIOUS
<1>3. timer \in Timer /\ timer.sequence = s_global_sequence_ /\ timer # NoTimer
  <2>1. when \in Times
    BY BoundsAssumption DEF Times
  <2> QED
    BY <1>1, <1>2, <2>1, NoTimerAssumption DEF NewTimer, Timer
<1>4. /\ timers' \in [Addresses -> Timer \cup {NoTimer}] /\ timers'[a] = timer /\ timers[a] = NoTimer
      /\ \A b \in Addresses : b # a => timers'[b] = timers[b]
  BY <1>2, <1>3 DEF TypeOK
<1>5. PICK f : f = [op |-> "add", timer |-> a]
  OBVIOUS
<1>6. f \in Functor /\ f.op = "add" /\ f.timer = a
  BY <1>5 DEF Functor
<1>7. /\ tasks' \in Seq(Functor)
      /\ \A i \in DOMAIN tasks' : \/ i \in DOMAIN tasks /\ tasks'[i] = tasks[i]
                                  \/ i = Len(tasks) + 1 /\ tasks'[i] = f
  BY <1>5, <1>6, TaskAppended
<1>8. TypeOK'
  <2>1. <<a, s_global_sequence_>> \in TimerIds
    BY <1>1 DEF TimerIds
  <2> QED
    BY <1>1, <1>4, <1>7, <2>1 DEF TypeOK
<1>9. \A b \in Addresses : timers[b] # NoTimer => timers[b].sequence \in Nat /\ timers[b].sequence < s_global_sequence_
  BY TimerParts, EntryParts DEF TypeOK, Numbered
<1>10. Numbered'
  BY <1>1, <1>3, <1>4, <1>9 DEF Numbered
<1>11. \A e \in DOMAIN timer_list_ : timer_list_[e] # a /\ timers'[timer_list_[e]] = timers[timer_list_[e]]
  BY <1>4, ListedTimer
<1>12. IndexesAgree'
  BY <1>11 DEF IndexesAgree
<1>13. KnownNumbers'
  <2>1. \A s \in fired \cup cancelled : s \in Nat
    BY EntryParts DEF TypeOK
  <2>2. \A id \in ids \cup adding \cup canceling_timer_set_ : id[2] \in Nat
    BY BoundsAssumption DEF TypeOK, TimerIds, Sequences_, Garbage
  <2> QED
    BY <1>1, <2>1, <2>2 DEF KnownNumbers
<1>14. Pending'
  <2>1. Waiting(a)'
    <3>1. \A id \in active_timer_set_ : id[2] # s_global_sequence_
      BY <1>1, <1>9, ActiveTimer
    <3>2. s_global_sequence_ \notin fired \cup cancelled
      BY <1>1 DEF KnownNumbers
    <3> QED
      BY <1>3, <1>4, <3>1, <3>2 DEF Waiting
  <2>2. \A b \in Addresses : Waiting(b) => b # a /\ Waiting(b)'
    BY <1>4 DEF Waiting
  <2>3. \A i \in DOMAIN tasks : tasks[i].op = "add" => tasks[i].timer \in Addresses /\ Waiting(tasks[i].timer)
    BY DEF TypeOK, Functor, Pending
  <2> SUFFICES ASSUME NEW i \in DOMAIN tasks', tasks'[i].op = "add", NEW b, b = tasks'[i].timer
               PROVE  /\ Waiting(b)'
                      /\ \A j \in DOMAIN tasks' : tasks'[j].op = "add" /\ tasks'[j].timer = b => j = i
    BY DEF Pending, Waiting
  <2>4. CASE i = Len(tasks) + 1 /\ tasks'[i] = f
    <3>1. b = a
      BY <1>6, <2>4
    <3>2. \A j \in DOMAIN tasks : tasks[j].op = "add" => tasks[j].timer # a
      BY <2>2, <2>3
    <3> QED
      BY <1>7, <2>1, <2>4, <3>1, <3>2
  <2>5. CASE i \in DOMAIN tasks /\ tasks'[i] = tasks[i]
    <3>1. b \in Addresses /\ Waiting(b) /\ b # a /\ Waiting(b)'
      BY <2>2, <2>3, <2>5
    <3>2. \A j \in DOMAIN tasks : tasks[j].op = "add" /\ tasks[j].timer = b => j = i
      BY <2>5 DEF Pending
    <3> QED
      BY <1>6, <1>7, <3>1, <3>2
  <2> QED
    BY <1>7, <2>4, <2>5
<1>15. Settling'
  BY <1>11 DEF Settling
<1>16. (BatchStaysInList /\ Round /\ TimerFdArmed)'
  BY DEF BatchStaysInList, Round, TimerFdArmed, InHandleRead
<1> QED
  BY <1>8, <1>10, <1>12, <1>13, <1>14, <1>15, <1>16

-----------------------------------------------------------------------------
(* Adding                                                                  *)

LEMMA LoopAddInv ==
  ASSUME TimerInv, NEW a \in Addresses, NEW when \in 1..MaxTime, NEW interval \in Intervals,
         LoopAddTimer(a, when, interval)
  PROVE  TimerInv'
<1> USE DEF TimerInv, LoopAddTimer, Create, queueVars, readVars, ghostVars
<1>1. /\ s_global_sequence_ \in Nat /\ s_global_sequence_ \in Sequences_
      /\ s_global_sequence_' \in 0..MaxTimers /\ s_global_sequence_ < s_global_sequence_'
      /\ \A s \in Nat : s < s_global_sequence_ => s < s_global_sequence_'
  BY BoundsAssumption DEF TypeOK, Sequences_
<1>2. PICK timer : timer = NewTimer(when, interval)
  OBVIOUS
<1>3. timer \in Timer /\ timer.sequence = s_global_sequence_ /\ timer # NoTimer
  <2>1. when \in Times
    BY BoundsAssumption DEF Times
  <2> QED
    BY <1>1, <1>2, <2>1, NoTimerAssumption DEF NewTimer, Timer
<1>4. /\ timers' \in [Addresses -> Timer \cup {NoTimer}] /\ timers'[a] = timer /\ timers[a] = NoTimer
      /\ \A b \in Addresses : b # a => timers'[b] = timers[b]
  BY <1>2, <1>3 DEF TypeOK
<1>5. \A b \in Addresses : timers[b] # NoTimer => timers[b].sequence \in Nat /\ timers[b].sequence < s_global_sequence_
  BY TimerParts, EntryParts DEF TypeOK, Numbered
<1>6. Numbered'
  BY <1>1, <1>3, <1>4, <1>5 DEF Numbered
<1>7. \A e \in DOMAIN timer_list_ : timer_list_[e] # a /\ e[2] # timer.sequence
  BY <1>1, <1>3, <1>4, <1>5, ListedTimer
<1>8. PICK n : n = entryOf(timer)
  OBVIOUS
<1>9. addTimerInLoop(a, timer) /\ insert(a, timer)
  BY <1>2 DEF addTimerInLoop
<1>10. /\ n \in Entries /\ n[1] = timer.expiration /\ n[2] = timer.sequence
       /\ DOMAIN timer_list_' = DOMAIN timer_list_ \cup {n} /\ timer_list_'[n] = a
       /\ \A e \in DOMAIN timer_list_ :
            timer_list_'[e] = timer_list_[e] /\ timers'[timer_list_[e]] = timers[timer_list_[e]]
       /\ active_timer_set_' = active_timer_set_ \cup {<<a, timer.sequence>>}
       /\ IndexesAgree'
  BY <1>3, <1>4, <1>7, <1>8, <1>9, InsertIndexes
<1>11. /\ deadline' \in Times \cup {0} /\ readable' \in BOOLEAN /\ UNCHANGED polled
       /\ TimerFdArmed'
  <2>1. InHandleRead' = InHandleRead
    BY DEF InHandleRead
  <2> QED
    BY <1>3, <1>9, <1>10, <2>1, ArmedAfterAdd
<1>12. UNCHANGED <<now, canceling_timer_set_, is_running_callback_, batch, expired, resetting, readNow, tasks, adding, fired, cancelled>>
       /\ ids' = ids \cup {<<a, s_global_sequence_>>}
  OBVIOUS
<1> HIDE DEF LoopAddTimer, Create
<1>13. TypeOK'
  <2>1. <<a, s_global_sequence_>> \in TimerIds
    BY <1>1 DEF TimerIds
  <2>2. \A e \in DOMAIN timer_list_' : e \in Entries /\ timer_list_'[e] \in Addresses
    BY <1>10 DEF TypeOK
  <2>3. active_timer_set_' \subseteq TimerIds /\ ids' \subseteq TimerIds
    BY <1>3, <1>10, <1>12, <2>1 DEF TypeOK
  <2> QED
    BY <1>1, <1>4, <1>11, <1>12, <2>2, <2>3 DEF TypeOK
<1>14. Pending'
  <2>1. \A b \in Addresses : Waiting(b) => Waiting(b)'
    BY <1>4, <1>10, <1>12 DEF Waiting
  <2> QED
    BY <1>12, <2>1, PendingKept
<1>15. KnownNumbers'
  <2>1. \A s \in fired \cup cancelled : s \in Nat
    BY EntryParts DEF TypeOK
  <2>2. \A id \in ids \cup adding \cup canceling_timer_set_ : id[2] \in Nat
    BY BoundsAssumption DEF TypeOK, TimerIds, Sequences_, Garbage
  <2> QED
    BY <1>1, <1>12, <2>1, <2>2 DEF KnownNumbers
<1>16. s_global_sequence_ \notin fired \cup cancelled /\ <<a, s_global_sequence_>> \notin canceling_timer_set_
  <2>1. s_global_sequence_ # Garbage
    BY <1>1, EntryParts
  <2> QED
    BY <1>1, <2>1 DEF KnownNumbers
<1>17. Settling'
  <2>1. ASSUME NEW e \in DOMAIN timer_list_
        PROVE  /\ e[2] \in cancelled => <<timer_list_'[e], e[2]>> \in canceling_timer_set_
               /\ e[2] \in fired /\ timers'[timer_list_'[e]].interval = 0 => e \in batch \ expired
    BY <1>10 DEF Settling
  <2>2. n[2] \notin fired \cup cancelled
    BY <1>3, <1>10, <1>16
  <2> QED
    BY <1>10, <1>12, <2>1, <2>2 DEF Settling
<1>18. (BatchStaysInList /\ Round)'
  <2>1. BatchStaysInList'
    BY <1>10, <1>12 DEF BatchStaysInList
  <2>2. \A id \in canceling_timer_set_ \cap active_timer_set_' : id[2] \in cancelled
    BY <1>3, <1>10, <1>16 DEF Round
  <2> QED
    BY <1>11, <1>12, <2>1, <2>2 DEF Round, InHandleRead
<1> QED
  BY <1>6, <1>10, <1>11, <1>13, <1>14, <1>15, <1>17, <1>18

\* The functor that inserts the Timer of another thread.
LEMMA RunAddInv ==
  ASSUME TimerInv, RunFunctor, Head(tasks).op = "add",
         addTimerInLoop(Head(tasks).timer, timers[Head(tasks).timer]),
         UNCHANGED <<timers, canceling_timer_set_, cancelled>>
  PROVE  TimerInv'
<1> USE DEF TimerInv
<1>1. /\ UNCHANGED <<timers, canceling_timer_set_, cancelled, now, s_global_sequence_, is_running_callback_,
                     batch, expired, resetting, readNow, adding, ids, fired>>
      /\ tasks # <<>> /\ tasks' = Tail(tasks) /\ ~InHandleRead /\ ~polled
  BY DEF RunFunctor, readVars
<1>2. PICK a : a = Head(tasks).timer
  OBVIOUS
<1>3. PICK timer : timer = timers[a]
  OBVIOUS
<1>4. /\ tasks' \in Seq(Functor) /\ 1 \in DOMAIN tasks /\ Head(tasks) = tasks[1] /\ Head(tasks) \in Functor
  BY <1>1, TaskTaken
<1>5. a \in Addresses /\ Waiting(a)
  BY <1>2, <1>4 DEF Functor, Pending
<1>6. timer \in Timer /\ timer # NoTimer /\ <<a, timer.sequence>> \notin active_timer_set_ /\ timer.sequence \notin fired \cup cancelled
  BY <1>3, <1>5 DEF Waiting, TypeOK
<1>7. \A e \in DOMAIN timer_list_ : timer_list_[e] # a /\ e[2] # timer.sequence
  <2> SUFFICES ASSUME NEW e \in DOMAIN timer_list_, timer_list_[e] = a \/ e[2] = timer.sequence PROVE FALSE
    OBVIOUS
  <2>1. timer_list_[e] = a /\ e[2] = timer.sequence
    BY <1>3, <1>5, <1>6, ListedTimer DEF Numbered
  <2> QED
    BY <1>6, <2>1 DEF IndexesAgree
<1>8. addTimerInLoop(a, timer) /\ insert(a, timer)
  BY <1>2, <1>3 DEF addTimerInLoop
<1>9. PICK n : n = entryOf(timer)
  OBVIOUS
<1>10. /\ n \in Entries /\ n[1] = timer.expiration /\ n[2] = timer.sequence
       /\ DOMAIN timer_list_' = DOMAIN timer_list_ \cup {n} /\ timer_list_'[n] = a
       /\ \A e \in DOMAIN timer_list_ :
            timer_list_'[e] = timer_list_[e] /\ timers'[timer_list_[e]] = timers[timer_list_[e]]
       /\ active_timer_set_' = active_timer_set_ \cup {<<a, timer.sequence>>}
       /\ IndexesAgree'
  <2>1. timers'[a] = timer /\ \A b \in Addresses : b # a => timers'[b] = timers[b]
    BY <1>1, <1>3
  <2> QED
    BY <1>5, <1>6, <1>7, <1>8, <1>9, <2>1, InsertIndexes
<1>11. /\ deadline' \in Times \cup {0} /\ readable' \in BOOLEAN /\ UNCHANGED polled
       /\ TimerFdArmed'
  <2>1. InHandleRead' = InHandleRead
    BY <1>1 DEF InHandleRead
  <2> QED
    BY <1>1, <1>6, <1>8, <1>10, <2>1, ArmedAfterAdd
<1>12. TypeOK'
  <2>1. <<a, timer.sequence>> \in TimerIds
    BY <1>5, <1>6, TimerParts DEF TimerIds
  <2>2. \A e \in DOMAIN timer_list_' : e \in Entries /\ timer_list_'[e] \in Addresses
    BY <1>5, <1>10 DEF TypeOK
  <2>3. active_timer_set_' \subseteq TimerIds
    BY <1>10, <2>1 DEF TypeOK
  <2> QED
    BY <1>1, <1>4, <1>11, <2>2, <2>3 DEF TypeOK
<1>13. Numbered' /\ KnownNumbers'
  BY <1>1 DEF Numbered, KnownNumbers
<1>14. Pending'
  <2>1. \A b \in Addresses : Waiting(b) /\ b # a => Waiting(b)'
    BY <1>1, <1>10 DEF Waiting
  <2> QED
    BY <1>1, <1>2, <2>1, PendingTaken
<1>15. Settling'
  <2>1. ASSUME NEW e \in DOMAIN timer_list_
        PROVE  /\ e[2] \in cancelled => <<timer_list_'[e], e[2]>> \in canceling_timer_set_
               /\ e[2] \in fired /\ timers'[timer_list_'[e]].interval = 0 => e \in batch \ expired
    BY <1>1, <1>10 DEF Settling
  <2>2. n[2] \notin fired \cup cancelled
    BY <1>6, <1>10
  <2> QED
    BY <1>1, <1>10, <2>1, <2>2 DEF Settling
<1>16. (BatchStaysInList /\ Round)'
  BY <1>1, <1>10, <1>11 DEF BatchStaysInList, Round, InHandleRead
<1> QED
  BY <1>10, <1>11, <1>12, <1>13, <1>14, <1>15, <1>16

-----------------------------------------------------------------------------
(* Cancelling                                                              *)

\* A cancellation is counted for a timer of the queue, never for a waiting one.
LEMMA CancelledNumber ==
  ASSUME TimerInv, NEW id, cancelled' = IF id \in active_timer_set_ THEN cancelled \cup {id[2]} ELSE cancelled
  PROVE  /\ cancelled' \subseteq Sequences_
         /\ \A s \in cancelled' : s < s_global_sequence_
         /\ \A a \in Addresses : Waiting(a) => timers[a].sequence \notin cancelled'
         /\ \A e \in DOMAIN timer_list_ : e[2] \in cancelled' => e[2] \in cancelled \/ <<timer_list_[e], e[2]>> = id
<1> USE DEF TimerInv
<1>1. CASE id \notin active_timer_set_
  BY <1>1 DEF TypeOK, KnownNumbers, Waiting
<1>2. CASE id \in active_timer_set_
  <2>1. /\ id[1] \in Addresses /\ timers[id[1]] # NoTimer /\ timers[id[1]].sequence = id[2]
        /\ timers[id[1]] \in Timer
        /\ id = <<id[1], id[2]>>
    BY <1>2, ActiveTimer
  <2>2. id[2] \in Sequences_ /\ id[2] < s_global_sequence_
    BY <2>1, TimerParts DEF Numbered
  <2>3. \A a \in Addresses : Waiting(a) => timers[a].sequence # id[2]
    BY <1>2, <2>1 DEF Waiting, Numbered
  <2>4. \A e \in DOMAIN timer_list_ : e[2] = id[2] => <<timer_list_[e], e[2]>> = id
    BY <2>1, ListedTimer DEF Numbered
  <2>5. cancelled' = cancelled \cup {id[2]}
    BY <1>2
  <2> QED
    BY <2>2, <2>3, <2>4, <2>5 DEF TypeOK, KnownNumbers, Waiting
<1> QED
  BY <1>1, <1>2

\* While callbacks run the cancellation is only noted.
LEMMA CancelLater ==
  ASSUME TimerInv, NEW id \in ids, LoopCancelTimer(id), is_running_callback_
  PROVE  TimerInv'
<1> USE DEF TimerInv
<1>1. /\ canceling_timer_set_' = canceling_timer_set_ \cup {id}
      /\ cancelled' = IF id \in active_timer_set_ THEN cancelled \cup {id[2]} ELSE cancelled
      /\ UNCHANGED <<timer_list_, active_timer_set_, timers, now, s_global_sequence_, is_running_callback_,
                     batch, expired, resetting, readNow, deadline, readable, polled, tasks, adding, ids, fired>>
  BY DEF LoopCancelTimer, cancelTimerInLoop, readVars, fdVars, callVars
<1>2. /\ cancelled' \subseteq Sequences_
      /\ \A s \in cancelled' : s < s_global_sequence_
      /\ \A a \in Addresses : Waiting(a) => timers[a].sequence \notin cancelled'
      /\ \A e \in DOMAIN timer_list_ : e[2] \in cancelled' => e[2] \in cancelled \/ <<timer_list_[e], e[2]>> = id
  BY <1>1, CancelledNumber
<1>3. TypeOK'
  <2>1. canceling_timer_set_' \subseteq TimerIds
    BY <1>1 DEF TypeOK
  <2> QED
    BY <1>1, <1>2, <2>1 DEF TypeOK
<1>4. Pending'
  <2>1. \A a \in Addresses : Waiting(a) => Waiting(a)'
    BY <1>1, <1>2 DEF Waiting
  <2> QED
    BY <1>1, <2>1, PendingKept
<1>5. KnownNumbers'
  BY <1>1, <1>2 DEF KnownNumbers
<1>6. Round'
  <2>1. \A x \in canceling_timer_set_' \cap active_timer_set_ : x[2] \in cancelled'
    BY <1>1 DEF Round
  <2> QED
    BY <1>1, <2>1 DEF Round, InHandleRead
<1>7. Settling'
  BY <1>1, <1>2 DEF Settling
<1>8. (BatchStaysInList /\ TimerFdArmed)'
  BY <1>1 DEF BatchStaysInList, TimerFdArmed, InHandleRead
<1> QED
  BY <1>1, <1>3, <1>4, <1>5, <1>6, <1>7, <1>8, IndexesKept

\* The timers that are left are due no earlier.
LEMMA ArmedAfterErase ==
  ASSUME TimerFdArmed, DOMAIN timer_list_' \subseteq DOMAIN timer_list_,
         UNCHANGED <<now, deadline, readable, polled>>, InHandleRead' = InHandleRead
  PROVE  TimerFdArmed'
BY DEF TimerFdArmed

\* Otherwise the timer goes at once, on the loop's thread or in the functor.
LEMMA CancelNow ==
  ASSUME TimerInv, NEW id, cancelTimerInLoop(id), ~InHandleRead, tasks' \in Seq(Functor),
         UNCHANGED <<now, s_global_sequence_, readVars, fdVars, adding, ids, fired>>,
         (\A a \in Addresses : Waiting(a) => Waiting(a)') => Pending'
  PROVE  TimerInv'
<1> USE DEF TimerInv
<1>1. /\ erase(id) /\ UNCHANGED canceling_timer_set_
      /\ cancelled' = IF id \in active_timer_set_ THEN cancelled \cup {id[2]} ELSE cancelled
      /\ UNCHANGED <<now, s_global_sequence_, is_running_callback_, batch, expired, resetting, readNow,
                     deadline, readable, polled, adding, ids, fired>>
      /\ batch = {} /\ canceling_timer_set_ = {} /\ InHandleRead' = InHandleRead
  BY DEF cancelTimerInLoop, InHandleRead, readVars, fdVars, Round
<1>2. /\ cancelled' \subseteq Sequences_
      /\ \A s \in cancelled' : s < s_global_sequence_
      /\ \A a \in Addresses : Waiting(a) => timers[a].sequence \notin cancelled'
      /\ \A e \in DOMAIN timer_list_ : e[2] \in cancelled' => e[2] \in cancelled \/ <<timer_list_[e], e[2]>> = id
  BY <1>1, CancelledNumber
<1>3. /\ timers' \in [Addresses -> Timer \cup {NoTimer}]
      /\ DOMAIN timer_list_' \subseteq DOMAIN timer_list_
      /\ \A e \in DOMAIN timer_list_' :
           timer_list_'[e] = timer_list_[e] /\ timers'[timer_list_[e]] = timers[timer_list_[e]]
      /\ active_timer_set_' = active_timer_set_ \ {id}
      /\ \A a \in Addresses :
           timers[a] # NoTimer /\ <<a, timers[a].sequence>> \notin active_timer_set_ => timers'[a] = timers[a]
      /\ Numbered' /\ IndexesAgree'
  BY <1>1, EraseIndexes
<1>4. TypeOK'
  <2>1. \A e \in DOMAIN timer_list_' : e \in Entries /\ timer_list_'[e] \in Addresses
    BY <1>3 DEF TypeOK
  <2> QED
    BY <1>1, <1>2, <1>3, <2>1 DEF TypeOK
<1>5. Pending'
  <2>1. \A a \in Addresses : Waiting(a) => Waiting(a)'
    BY <1>1, <1>2, <1>3 DEF Waiting
  <2> QED
    BY <2>1
<1>6. KnownNumbers'
  BY <1>1, <1>2 DEF KnownNumbers
<1>7. Settling'
  <2> SUFFICES ASSUME NEW e \in DOMAIN timer_list_'
               PROVE  /\ e[2] \notin cancelled'
                      /\ ~(e[2] \in fired' /\ timers'[timer_list_'[e]].interval = 0)
    BY DEF Settling
  <2>1. /\ e \in DOMAIN timer_list_ /\ e[2] \notin cancelled
        /\ ~(e[2] \in fired /\ timers[timer_list_[e]].interval = 0)
    BY <1>1, <1>3 DEF Settling
  <2>2. <<timer_list_[e], e[2]>> # id
    BY <1>3 DEF IndexesAgree
  <2> QED
    BY <1>1, <1>2, <1>3, <2>1, <2>2
<1>8. (BatchStaysInList /\ Round)'
  BY <1>1 DEF BatchStaysInList, Round, InHandleRead
<1>9. TimerFdArmed'
  BY <1>1, <1>3, ArmedAfterErase
<1> QED
  BY <1>3, <1>4, <1>5, <1>6, <1>7, <1>8, <1>9

LEMMA LoopCancelInv ==
  ASSUME TimerInv, NEW id \in ids, LoopCancelTimer(id)
  PROVE  TimerInv'
<1>1. CASE is_running_callback_
  BY <1>1, CancelLater
<1>2. CASE ~is_running_callback_
  <2>1. /\ ~InHandleRead /\ cancelTimerInLoop(id) /\ UNCHANGED tasks
        /\ UNCHANGED <<now, s_global_sequence_, readVars, fdVars, adding, ids, fired>>
    BY <1>2 DEF LoopCancelTimer, InUserCode, callVars
  <2>2. TypeOK /\ Pending /\ tasks' \in Seq(Functor)
    BY <2>1 DEF TimerInv, TypeOK
  <2>3. (\A a \in Addresses : Waiting(a) => Waiting(a)') => Pending'
    BY <2>1, <2>2, PendingKept
  <2> QED
    BY <2>1, <2>2, <2>3, CancelNow
<1> QED
  BY <1>1, <1>2

LEMMA RunFunctorInv ==
  ASSUME TimerInv, RunFunctor
  PROVE  TimerInv'
<1>1. CASE Head(tasks).op = "cancel" /\ cancelTimerInLoop(Head(tasks).id) /\ UNCHANGED fdVars
  <2>1. PICK id : id = Head(tasks).id
    OBVIOUS
  <2>2. /\ ~InHandleRead /\ cancelTimerInLoop(id) /\ tasks # <<>> /\ tasks' = Tail(tasks)
        /\ UNCHANGED <<now, s_global_sequence_, readVars, fdVars, adding, ids, fired>>
    BY <1>1, <2>1 DEF RunFunctor
  <2>3. TypeOK /\ Pending
    BY DEF TimerInv
  <2>4. tasks' \in Seq(Functor)
    BY <2>2, <2>3, TaskTaken
  <2>5. (\A a \in Addresses : Waiting(a) => Waiting(a)') => Pending'
    BY <2>2, <2>3, PendingTaken
  <2> QED
    BY <2>2, <2>4, <2>5, CancelNow
<1> QED
  BY <1>1, RunAddInv DEF RunFunctor

-----------------------------------------------------------------------------
(* handleRead()                                                            *)

LEMMA HandleReadBeginInv ==
  ASSUME TimerInv, HandleReadBegin
  PROVE  TimerInv'
<1> USE DEF TimerInv, HandleReadBegin, queueVars, callVars, ghostVars
<1>1. ~InHandleRead /\ canceling_timer_set_ = {} /\ batch' \subseteq DOMAIN timer_list_ /\ expired' = batch' /\ InHandleRead'
  BY DEF Round, InHandleRead, getExpiredTimers
<1>2. TypeOK'
  <2>1. now \in 0..MaxTime
    BY BoundsAssumption DEF TypeOK
  <2> QED
    BY <1>1, <2>1 DEF TypeOK
<1>3. Pending'
  BY PendingKept DEF Waiting
<1>4. (KnownNumbers /\ BatchStaysInList)'
  BY <1>1 DEF KnownNumbers, BatchStaysInList
<1>5. Round'
  BY <1>1 DEF Round, InHandleRead
<1>6. Settling'
  <2>1. \A e \in DOMAIN timer_list_ : ~(e[2] \in fired /\ timers[timer_list_[e]].interval = 0)
    BY <1>1 DEF Settling, Round
  <2> QED
    BY <2>1 DEF Settling
<1>7. TimerFdArmed'
  BY <1>1 DEF TimerFdArmed
<1> QED
  BY <1>2, <1>3, <1>4, <1>5, <1>6, <1>7, IndexesKept

LEMMA RunCallbackInv ==
  ASSUME TimerInv, NEW e \in expired, RunCallback(e)
  PROVE  TimerInv'
<1> USE DEF TimerInv, RunCallback, queueVars, fdVars, callVars
<1>1. e \in batch /\ e \in DOMAIN timer_list_ /\ is_running_callback_ /\ InHandleRead'
  BY DEF TypeOK, BatchStaysInList, Round, InHandleRead
<1>2. e[2] \in Sequences_ /\ e[2] < s_global_sequence_
  BY <1>1, ListedTimer, TimerParts DEF Numbered
<1>3. TypeOK'
  BY <1>2 DEF TypeOK
<1>4. Pending'
  <2>1. \A a \in Addresses : Waiting(a) => timers[a].sequence # e[2]
    <3> SUFFICES ASSUME NEW a \in Addresses, Waiting(a), timers[a].sequence = e[2] PROVE FALSE
      OBVIOUS
    <3>1. timer_list_[e] = a
      BY <1>1, ListedTimer DEF Numbered, Waiting
    <3> QED
      BY <1>1, <3>1 DEF IndexesAgree, Waiting
  <2>2. \A a \in Addresses : Waiting(a) => Waiting(a)'
    BY <2>1 DEF Waiting
  <2> QED
    BY <2>2, PendingKept
<1>5. KnownNumbers'
  BY <1>2 DEF KnownNumbers
<1>6. Round'
  <2>1. \A f \in batch : f \notin expired' => f[2] \in fired'
    BY DEF Round
  <2> QED
    BY <1>1, <2>1 DEF Round, InHandleRead
<1>7. Settling'
  <2> SUFFICES ASSUME NEW f \in DOMAIN timer_list_, f[2] \in fired', timers[timer_list_[f]].interval = 0
               PROVE  f \in batch \ expired'
    BY DEF Settling
  <2>1. CASE f[2] = e[2]
    BY <1>1, <2>1, OneEntry
  <2>2. CASE f[2] # e[2]
    BY <2>2 DEF Settling
  <2> QED
    BY <2>1, <2>2
<1>8. (BatchStaysInList /\ TimerFdArmed)'
  BY <1>1 DEF BatchStaysInList, TimerFdArmed
<1> QED
  BY <1>3, <1>4, <1>5, <1>6, <1>7, <1>8, IndexesKept

LEMMA CallbacksEndInv ==
  ASSUME TimerInv, CallbacksEnd
  PROVE  TimerInv'
<1> USE DEF TimerInv, CallbacksEnd, queueVars, fdVars, callVars, ghostVars
<1>1. TypeOK'
  BY DEF TypeOK
<1>2. Pending'
  BY PendingKept DEF Waiting
<1>3. (KnownNumbers /\ BatchStaysInList /\ Round /\ Settling /\ TimerFdArmed)'
  BY DEF KnownNumbers, BatchStaysInList, Round, Settling, TimerFdArmed, InHandleRead
<1> QED
  BY <1>1, <1>2, <1>3, IndexesKept

\* reset() deletes a timer.
LEMMA EraseInRound ==
  ASSUME TimerInv, NEW id, erase(id), resetting, canceling_timer_set_' = canceling_timer_set_ \ {id},
         batch' \subseteq batch, \A f \in batch : f \in batch' <=> <<timer_list_[f], f[2]>> # id,
         UNCHANGED <<now, s_global_sequence_, is_running_callback_, expired, resetting, readNow,
                     fdVars, callVars, ghostVars>>
  PROVE  TimerInv'
<1> USE DEF TimerInv, fdVars, callVars, ghostVars
<1>1. ~is_running_callback_ /\ expired = {} /\ InHandleRead /\ InHandleRead'
  BY DEF Round, InHandleRead
<1>2. /\ timers' \in [Addresses -> Timer \cup {NoTimer}]
      /\ DOMAIN timer_list_' \subseteq DOMAIN timer_list_
      /\ \A e \in DOMAIN timer_list_' :
           timer_list_'[e] = timer_list_[e] /\ timers'[timer_list_[e]] = timers[timer_list_[e]]
      /\ \A e \in DOMAIN timer_list_ : e \notin DOMAIN timer_list_' => <<timer_list_[e], e[2]>> = id
      /\ active_timer_set_' = active_timer_set_ \ {id}
      /\ \A a \in Addresses :
           timers[a] # NoTimer /\ <<a, timers[a].sequence>> \notin active_timer_set_ => timers'[a] = timers[a]
      /\ Numbered' /\ IndexesAgree'
  BY EraseIndexes
<1>3. TypeOK'
  <2>1. \A e \in DOMAIN timer_list_' : e \in Entries /\ timer_list_'[e] \in Addresses
    BY <1>2 DEF TypeOK
  <2> QED
    BY <1>1, <1>2, <2>1 DEF TypeOK
<1>4. Pending'
  <2>1. \A a \in Addresses : Waiting(a) => Waiting(a)'
    BY <1>2 DEF Waiting
  <2> QED
    BY <2>1, PendingKept
<1>5. KnownNumbers'
  BY DEF KnownNumbers
<1>6. BatchStaysInList'
  BY <1>2 DEF BatchStaysInList
<1>7. Round'
  <2>1. \A x \in canceling_timer_set_' \cap active_timer_set_' : x[2] \in cancelled'
    BY <1>2 DEF Round
  <2> QED
    BY <1>1, <2>1 DEF Round, InHandleRead
<1>8. Settling'
  <2> SUFFICES ASSUME NEW e \in DOMAIN timer_list_'
               PROVE  /\ e[2] \in cancelled' => <<timer_list_'[e], e[2]>> \in canceling_timer_set_'
                      /\ e[2] \in fired' /\ timers'[timer_list_'[e]].interval = 0 => e \in batch' \ expired'
    BY DEF Settling
  <2>1. /\ e \in DOMAIN timer_list_ /\ timer_list_'[e] = timer_list_[e]
        /\ timers'[timer_list_[e]] = timers[timer_list_[e]]
    BY <1>2
  <2>2. <<timer_list_[e], e[2]>> # id
    BY <1>2, <2>1 DEF IndexesAgree
  <2> QED
    BY <1>1, <2>1, <2>2 DEF Settling
<1>9. TimerFdArmed'
  BY <1>1 DEF TimerFdArmed
<1> QED
  BY <1>2, <1>3, <1>4, <1>5, <1>6, <1>7, <1>8, <1>9

LEMMA EraseCancelledInv ==
  ASSUME TimerInv, NEW id \in canceling_timer_set_, EraseCancelled(id)
  PROVE  TimerInv'
<1>1. /\ erase(id) /\ resetting /\ canceling_timer_set_' = canceling_timer_set_ \ {id}
      /\ batch = {} /\ batch' \subseteq batch
      /\ UNCHANGED <<now, s_global_sequence_, is_running_callback_, expired, resetting, readNow,
                     fdVars, callVars, ghostVars>>
  BY DEF EraseCancelled, readVars
<1>2. \A f \in batch : f \in batch' <=> <<timer_list_[f], f[2]>> # id
  BY <1>1
<1> QED
  BY <1>1, <1>2, EraseInRound

\* reset() moves a repeating timer to its next expiration.
LEMMA RestartInv ==
  ASSUME TimerInv, NEW e \in batch, ResetEntry(e), Restarts(e),
         timers' = [timers EXCEPT ![timer_list_[e]] = restart(timers[timer_list_[e]], readNow)],
         PutEntry({e}, <<restart(timers[timer_list_[e]], readNow).expiration, e[2]>>, timer_list_[e]),
         UNCHANGED <<active_timer_set_, canceling_timer_set_>>
  PROVE  TimerInv'
<1> USE DEF TimerInv
<1>1. /\ resetting /\ batch' = batch \ {e}
      /\ UNCHANGED <<now, s_global_sequence_, is_running_callback_, expired, resetting, readNow, deadline,
                     readable, polled, tasks, adding, ids, fired, cancelled>>
  BY DEF ResetEntry, fdVars, callVars, ghostVars
<1>2. ~is_running_callback_ /\ expired = {} /\ InHandleRead /\ InHandleRead' /\ e \in DOMAIN timer_list_
  BY <1>1 DEF Round, InHandleRead, BatchStaysInList
<1>3. PICK a : a = timer_list_[e]
  OBVIOUS
<1>4. /\ a \in Addresses /\ e \in Entries /\ timers[a] \in Timer /\ timers[a] # NoTimer
      /\ timers[a].sequence = e[2] /\ timers[a].interval > 0 /\ <<a, e[2]>> \notin canceling_timer_set_
  BY <1>2, <1>3, ListedTimer DEF Restarts
<1>5. PICK timer : timer = restart(timers[a], readNow)
  OBVIOUS
<1>6. timer \in Timer /\ timer.sequence = e[2] /\ timer.interval = timers[a].interval /\ timer.interval \in Nat
  <2>1. timers[a].interval \in Nat /\ readNow \in Nat
    BY <1>4, BoundsAssumption, TimerParts DEF TypeOK
  <2>2. readNow + timers[a].interval \in Times
    BY <1>4, <2>1 DEF Times
  <2> QED
    BY <1>4, <1>5, <2>1, <2>2 DEF restart, Timer
<1>7. PICK n : n = <<timer.expiration, e[2]>>
  OBVIOUS
<1>8. n = entryOf(timer) /\ n \in Entries /\ n[2] = e[2]
  BY <1>6, <1>7, TimerParts DEF entryOf
<1>9. /\ timers' \in [Addresses -> Timer \cup {NoTimer}] /\ timers'[a] = timer
      /\ \A b \in Addresses : b # a => timers'[b] = timers[b]
  BY <1>3, <1>4, <1>5, <1>6 DEF TypeOK
<1>10. timer_list_' = [f \in (DOMAIN timer_list_ \ {e}) \cup {n} |-> IF f = n THEN a ELSE timer_list_[f]]
  BY <1>3, <1>5, <1>7 DEF PutEntry
<1>11. \A f \in DOMAIN timer_list_ : f # e => f[2] # e[2] /\ timer_list_[f] # a /\ timer_list_[f] \in Addresses
  BY <1>2, <1>3, OneEntry, ListedTimer
<1>12. /\ DOMAIN timer_list_' = (DOMAIN timer_list_ \ {e}) \cup {n} /\ timer_list_'[n] = a
       /\ \A f \in DOMAIN timer_list_ : f # e =>
            f # n /\ timer_list_'[f] = timer_list_[f] /\ timers'[timer_list_[f]] = timers[timer_list_[f]]
  BY <1>8, <1>9, <1>10, <1>11
<1>13. TypeOK'
  <2>1. \A f \in DOMAIN timer_list_' : f \in Entries /\ timer_list_'[f] \in Addresses
    BY <1>4, <1>8, <1>12 DEF TypeOK
  <2> QED
    BY <1>1, <1>2, <1>9, <2>1 DEF TypeOK
<1>14. timer # NoTimer
  BY <1>6, NoTimerAssumption
<1>15. Numbered'
  BY <1>1, <1>4, <1>6, <1>9, <1>14 DEF Numbered
<1>16. IndexesAgree'
  <2>1. ASSUME NEW f \in DOMAIN timer_list_'
        PROVE  /\ timers'[timer_list_'[f]] # NoTimer
               /\ entryOf(timers'[timer_list_'[f]]) = f
               /\ <<timer_list_'[f], f[2]>> \in active_timer_set_
    <3>1. CASE f = n
      <4>1. <<a, e[2]>> \in active_timer_set_
        BY <1>2, <1>3 DEF IndexesAgree
      <4> QED
        BY <1>8, <1>9, <1>12, <1>14, <3>1, <4>1
    <3>2. CASE f \in DOMAIN timer_list_ /\ f # e
      BY <1>12, <3>2 DEF IndexesAgree
    <3> QED
      BY <1>12, <3>1, <3>2
  <2>2. ASSUME NEW x \in active_timer_set_
        PROVE  \E f \in DOMAIN timer_list_' : <<timer_list_'[f], f[2]>> = x
    <3>1. PICK f \in DOMAIN timer_list_ : <<timer_list_[f], f[2]>> = x
      BY DEF IndexesAgree
    <3>2. CASE f = e
      BY <1>3, <1>8, <1>12, <3>1, <3>2
    <3>3. CASE f # e
      BY <1>12, <3>1, <3>3
    <3> QED
      BY <3>2, <3>3
  <2> QED
    BY <2>1, <2>2 DEF IndexesAgree
<1>17. Pending'
  <2>1. \A b \in Addresses : Waiting(b) => b # a
    BY <1>2, <1>3, <1>4 DEF Waiting, IndexesAgree
  <2>2. \A b \in Addresses : Waiting(b) => Waiting(b)'
    BY <1>1, <1>9, <2>1 DEF Waiting
  <2> QED
    BY <1>1, <2>2, PendingKept
<1>18. KnownNumbers'
  BY <1>1 DEF KnownNumbers
<1>19. BatchStaysInList'
  BY <1>1, <1>12 DEF BatchStaysInList
<1>20. Round'
  BY <1>1, <1>2 DEF Round, InHandleRead
<1>21. Settling'
  <2>1. ASSUME NEW f \in DOMAIN timer_list_, f # e
        PROVE  /\ f[2] \in cancelled' => <<timer_list_'[f], f[2]>> \in canceling_timer_set_'
               /\ f[2] \in fired' /\ timers'[timer_list_'[f]].interval = 0 => f \in batch' \ expired'
    BY <1>1, <1>12, <2>1 DEF Settling
  <2>2. n[2] \notin cancelled
    BY <1>2, <1>3, <1>4, <1>8 DEF Settling
  <2>3. timers'[timer_list_'[n]].interval # 0
    BY <1>4, <1>6, <1>9, <1>12
  <2> QED
    BY <1>1, <1>12, <2>1, <2>2, <2>3 DEF Settling
<1>22. TimerFdArmed'
  BY <1>2 DEF TimerFdArmed
<1> QED
  BY <1>13, <1>15, <1>16, <1>17, <1>18, <1>19, <1>20, <1>21, <1>22

LEMMA ResetEntryInv ==
  ASSUME TimerInv, NEW e \in batch, ResetEntry(e)
  PROVE  TimerInv'
<1>1. CASE ~Restarts(e)
  <2>1. PICK id : id = <<timer_list_[e], e[2]>>
    OBVIOUS
  <2>2. /\ erase(id) /\ resetting /\ canceling_timer_set_' = canceling_timer_set_ \ {id}
        /\ batch' = batch \ {e}
        /\ UNCHANGED <<now, s_global_sequence_, is_running_callback_, expired, resetting, readNow,
                       fdVars, callVars, ghostVars>>
    BY <1>1, <2>1 DEF ResetEntry
  <2>3. \A f \in batch : f \in batch' <=> <<timer_list_[f], f[2]>> # id
    <3>1. TypeOK /\ Numbered /\ IndexesAgree /\ batch \subseteq DOMAIN timer_list_
      BY DEF TimerInv, BatchStaysInList
    <3>2. \A f \in batch : f # e => f[2] # e[2]
      BY <3>1, OneEntry
    <3> QED
      BY <2>1, <2>2, <3>2
  <2> QED
    BY <2>2, <2>3, EraseInRound
<1>2. CASE Restarts(e)
  BY <1>2, RestartInv DEF ResetEntry
<1> QED
  BY <1>1, <1>2

LEMMA HandleReadEndInv ==
  ASSUME TimerInv, HandleReadEnd
  PROVE  TimerInv'
<1> USE DEF TimerInv, HandleReadEnd, queueVars, callVars, ghostVars
<1>0. /\ now \in Nat /\ now # 0 /\ deadline \in Times \cup {0} /\ readable \in BOOLEAN /\ 0 \in 0..MaxTime
      /\ \A e \in DOMAIN timer_list_ : e[1] \in Nat /\ e[1] # 0
  BY BoundsAssumption, EntryParts DEF TypeOK, Times
<1>1. ~is_running_callback_ /\ expired = {} /\ ~InHandleRead'
  BY DEF Round, InHandleRead
<1>2. deadline' \in Times \cup {0} /\ readable' \in BOOLEAN /\ UNCHANGED polled /\ TimerFdArmed'
  <2>1. CASE DOMAIN timer_list_ = {} /\ UNCHANGED fdVars
    BY <1>0, <2>1 DEF fdVars, TimerFdArmed
  <2>2. ASSUME NEW e \in DOMAIN timer_list_, First(e, DOMAIN timer_list_), resetTimerFd(e[1])
        PROVE  deadline' \in Times \cup {0} /\ readable' \in BOOLEAN /\ UNCHANGED polled /\ TimerFdArmed'
    <3>1. \A f \in DOMAIN timer_list_ : e[1] <= f[1]
      BY <1>0, <2>2 DEF First, EntryLess
    <3>2. /\ deadline' \in Nat /\ deadline' # 0 /\ (deadline' = e[1] \/ deadline' = now)
          /\ readable' = FALSE /\ UNCHANGED polled
      BY <1>0, <2>2 DEF resetTimerFd
    <3>3. \A f \in DOMAIN timer_list_ : deadline' <= f[1] \/ deadline' <= now
      BY <1>0, <3>1, <3>2
    <3> QED
      BY <3>2, <3>3 DEF TimerFdArmed, Times
  <2> QED
    BY <2>1, <2>2
<1>3. TypeOK'
  BY <1>0, <1>2 DEF TypeOK
<1>4. Pending'
  BY PendingKept DEF Waiting
<1>5. (KnownNumbers /\ BatchStaysInList /\ Settling)'
  BY DEF KnownNumbers, BatchStaysInList, Settling
<1>6. Round'
  BY <1>1, <1>2 DEF Round, InHandleRead
<1> QED
  BY <1>2, <1>3, <1>4, <1>5, <1>6, IndexesKept

-----------------------------------------------------------------------------
(* Every step                                                              *)

LEMMA TimerInvStep == TimerInv /\ [Next]_vars => TimerInv'
<1> SUFFICES ASSUME TimerInv, [Next]_vars PROVE TimerInv'
  OBVIOUS
<1>1. CASE HandleRead
  BY <1>1, HandleReadBeginInv, RunCallbackInv, CallbacksEndInv, ResetEntryInv, EraseCancelledInv,
     HandleReadEndInv DEF HandleRead
<1>2. CASE UNCHANGED vars
  <2> USE DEF TimerInv, vars, queueVars, readVars, fdVars, callVars, ghostVars
  <2>1. TypeOK'
    BY <1>2 DEF TypeOK
  <2>2. Pending'
    BY <1>2, PendingKept DEF Waiting
  <2>3. (KnownNumbers /\ BatchStaysInList /\ Round /\ Settling /\ TimerFdArmed)'
    BY <1>2 DEF KnownNumbers, BatchStaysInList, Round, Settling, TimerFdArmed, InHandleRead
  <2> QED
    BY <1>2, <2>1, <2>2, <2>3, IndexesKept
<1>3. ASSUME NEW a \in Addresses, NEW when \in 1..MaxTime, NEW interval \in Intervals,
             LoopAddTimer(a, when, interval) \/ ThreadAddTimer(a, when, interval)
      PROVE  TimerInv'
  BY <1>3, LoopAddInv, ThreadAddInv
<1>4. ASSUME NEW call \in adding, NEW s \in Sequences_ \cup {Garbage}, ThreadGetTimerId(call, s) PROVE TimerInv'
  BY <1>4, GetTimerIdInv
<1>5. ASSUME NEW id \in ids, LoopCancelTimer(id) \/ ThreadCancelTimer(id) PROVE TimerInv'
  BY <1>5, LoopCancelInv, ThreadCancelInv
<1> QED
  BY <1>1, <1>2, <1>3, <1>4, <1>5, TickInv, FdInv, RunFunctorInv DEF Next

LEMMA TimerInvAlways == Spec => []TimerInv
BY TimerInvInit, TimerInvStep, PTL DEF Spec

-----------------------------------------------------------------------------
(* What holds in every state                                               *)

\* For any timers, addresses and intervals: the two indexes hold the same timers, and
\* every Timer they point to exists (TimerQueue.cc:108-151, 212-243).
THEOREM TimerIndexesCorrect == Spec => []IndexesAgree
<1>1. TimerInv => IndexesAgree
  BY DEF TimerInv
<1> QED
  BY <1>1, TimerInvAlways, PTL

\* The clock, the heap, the indexes, the round and the functors keep their types: the
\* number of a new Timer is within the bound, and a restart sets a valid expiration.
THEOREM TimerTypeCorrect == Spec => []TypeOK
<1>1. TimerInv => TypeOK
  BY DEF TimerInv
<1> QED
  BY <1>1, TimerInvAlways, PTL

\* handleRead() and reset() find the timers of their batch in timer_list_, whatever
\* the callbacks added and cancelled (TimerQueue.cc:139, 172).
THEOREM BatchCorrect == Spec => []BatchStaysInList
<1>1. TimerInv => BatchStaysInList
  BY DEF TimerInv
<1> QED
  BY <1>1, TimerInvAlways, PTL

\* Outside handleRead() the timerfd is ready, or goes off no later than the earliest
\* timer (TimerQueue.cc:99, 198).
THEOREM TimerFdCorrect == Spec => []TimerFdArmed
<1>1. TimerInv => TimerFdArmed
  BY DEF TimerInv
<1> QED
  BY <1>1, TimerInvAlways, PTL

\* A round leaves no cancelled timer and no one-shot timer that has run in the queue
\* (TimerQueue.cc:112-119, 174-191).
THEOREM RoundCorrect == Spec => []RoundSettles
<1>1. TimerInv => RoundSettles
  <2> SUFFICES ASSUME TimerInv, ~InHandleRead, NEW e \in DOMAIN timer_list_
               PROVE  /\ e[2] \notin cancelled
                      /\ e[2] \in fired => timers[timer_list_[e]].interval > 0
    BY DEF RoundSettles
  <2>1. batch = {} /\ canceling_timer_set_ = {}
    BY DEF TimerInv, Round
  <2>2. timers[timer_list_[e]].interval \in Nat
    BY ListedTimer, TimerParts DEF TimerInv
  <2> QED
    BY <2>1, <2>2 DEF TimerInv, Settling
<1> QED
  BY <1>1, TimerInvAlways, PTL

-----------------------------------------------------------------------------
(* What a step may never do                                                *)

\* erase() takes no timer but the one it was asked for.
LEMMA OnlyErasedLeaves ==
  ASSUME TimerInv, NEW id, erase(id), UNCHANGED s_global_sequence_, NEW e \in DOMAIN timer_list_
  PROVE  \/ e \in DOMAIN timer_list_'
         \/ id = <<timer_list_[e], e[2]>> /\ id \in active_timer_set_
BY EraseIndexes DEF TimerInv, IndexesAgree

\* A cancellation takes no timer but the one it cancels.
LEMMA CancelledLeaves ==
  ASSUME TimerInv, NEW id, cancelTimerInLoop(id), UNCHANGED s_global_sequence_,
         NEW e \in DOMAIN timer_list_
  PROVE  e \in DOMAIN timer_list_' \/ e[2] \in cancelled'
<1>1. CASE is_running_callback_
  BY <1>1 DEF cancelTimerInLoop
<1>2. CASE ~is_running_callback_
  <2>1. erase(id) /\ cancelled' = IF id \in active_timer_set_ THEN cancelled \cup {id[2]} ELSE cancelled
    BY <1>2 DEF cancelTimerInLoop
  <2>2. \/ e \in DOMAIN timer_list_'
        \/ id = <<timer_list_[e], e[2]>> /\ id \in active_timer_set_
    BY <2>1, OnlyErasedLeaves
  <2> QED
    BY <2>1, <2>2
<1> QED
  BY <1>1, <1>2

\* A timer of the batch is moved, or it was cancelled or is one-shot and has run.
LEMMA ResetLeaves ==
  ASSUME TimerInv, NEW b \in batch, ResetEntry(b), NEW e \in DOMAIN timer_list_
  PROVE  \/ \E f \in DOMAIN timer_list_' : f[2] = e[2]
         \/ e[2] \in cancelled'
         \/ e[2] \in fired /\ timers[timer_list_[e]].interval = 0
<1>1. CASE ~Restarts(b)
  <2>1. PICK id : id = <<timer_list_[b], b[2]>>
    OBVIOUS
  <2>2. erase(id) /\ UNCHANGED s_global_sequence_ /\ UNCHANGED cancelled /\ resetting
    BY <1>1, <2>1 DEF ResetEntry, ghostVars
  <2>3. CASE e \in DOMAIN timer_list_'
    BY <2>3
  <2>4. CASE e \notin DOMAIN timer_list_'
    <3>1. id = <<timer_list_[e], e[2]>> /\ id \in active_timer_set_
      BY <2>2, <2>4, OnlyErasedLeaves
    <3>2. timer_list_[e] = timer_list_[b] /\ e[2] = b[2]
      BY <2>1, <3>1
    <3>3. CASE id \in canceling_timer_set_
      BY <2>1, <2>2, <3>1, <3>2, <3>3 DEF TimerInv, Round
    <3>4. CASE id \notin canceling_timer_set_
      <4>1. ~(timers[timer_list_[e]].interval > 0)
        BY <1>1, <2>1, <3>2, <3>4 DEF Restarts
      <4>2. timers[timer_list_[e]].interval \in Nat
        BY ListedTimer, TimerParts DEF TimerInv
      <4>3. e[2] \in fired
        BY <2>2, <3>2 DEF TimerInv, Round
      <4> QED
        BY <4>1, <4>2, <4>3
    <3> QED
      BY <3>3, <3>4
  <2> QED
    BY <2>3, <2>4
<1>2. CASE Restarts(b)
  <2>1. PICK n : n = <<restart(timers[timer_list_[b]], readNow).expiration, b[2]>>
    OBVIOUS
  <2>2. PutEntry({b}, n, timer_list_[b])
    BY <1>2, <2>1 DEF ResetEntry
  <2>3. DOMAIN timer_list_' = (DOMAIN timer_list_ \ {b}) \cup {n}
    BY <2>2 DEF PutEntry
  <2>4. n[2] = b[2]
    BY <2>1
  <2> QED
    BY <2>3, <2>4
<1> QED
  BY <1>1, <1>2

\* A step of any thread takes a timer from the queue for one of the two reasons.
LEMMA LeaveStep ==
  ASSUME TimerInv, [Next]_vars, NEW e \in DOMAIN timer_list_
  PROVE  \/ \E f \in DOMAIN timer_list_' : f[2] = e[2]
         \/ e[2] \in cancelled'
         \/ e[2] \in fired /\ timers[timer_list_[e]].interval = 0
<1>1. CASE HandleRead
  <2>1. ASSUME NEW id \in canceling_timer_set_, EraseCancelled(id)
        PROVE  e \in DOMAIN timer_list_' \/ e[2] \in cancelled'
    <3>1. erase(id) /\ UNCHANGED s_global_sequence_ /\ UNCHANGED cancelled
      BY <2>1 DEF EraseCancelled, ghostVars
    <3>2. \/ e \in DOMAIN timer_list_'
          \/ id = <<timer_list_[e], e[2]>> /\ id \in active_timer_set_
      BY <3>1, OnlyErasedLeaves
    <3> QED
      BY <3>1, <3>2 DEF TimerInv, Round
  <2>2. CASE HandleReadBegin \/ CallbacksEnd \/ HandleReadEnd \/ \E b \in expired : RunCallback(b)
    BY <2>2 DEF HandleReadBegin, CallbacksEnd, HandleReadEnd, RunCallback, queueVars
  <2> QED
    BY <1>1, <2>1, <2>2, ResetLeaves DEF HandleRead
<1>2. CASE UNCHANGED timer_list_
  BY <1>2
<1>3. \A a, timer : insert(a, timer) => e \in DOMAIN timer_list_'
  BY DEF insert, PutEntry
<1>4. CASE RunFunctor
  BY <1>3, <1>4, CancelledLeaves DEF RunFunctor, addTimerInLoop
<1>5. ASSUME NEW a, NEW when, NEW interval, LoopAddTimer(a, when, interval)
      PROVE  e \in DOMAIN timer_list_'
  BY <1>3, <1>5 DEF LoopAddTimer, addTimerInLoop
<1>6. ASSUME NEW id, LoopCancelTimer(id)
      PROVE  e \in DOMAIN timer_list_' \/ e[2] \in cancelled'
  BY <1>6, CancelledLeaves DEF LoopCancelTimer
<1>7. CASE Tick \/ FireTimerFd \/ PollTimerFd
  BY <1>2, <1>7 DEF Tick, FireTimerFd, PollTimerFd, queueVars
<1>8. ASSUME NEW a, NEW when, NEW interval, ThreadAddTimer(a, when, interval) PROVE UNCHANGED timer_list_
  BY <1>8 DEF ThreadAddTimer, queueVars
<1>9. ASSUME NEW call, NEW s, ThreadGetTimerId(call, s) PROVE UNCHANGED timer_list_
  BY <1>9 DEF ThreadGetTimerId, queueVars
<1>10. ASSUME NEW id, ThreadCancelTimer(id) PROVE UNCHANGED timer_list_
  BY <1>10 DEF ThreadCancelTimer, queueVars
<1>11. CASE UNCHANGED vars
  BY <1>2, <1>11 DEF vars, queueVars
<1> QED
  BY <1>1, <1>2, <1>4, <1>5, <1>6, <1>7, <1>8, <1>9, <1>10, <1>11 DEF Next

\* No other timer than the cancelled and the run ones ever leaves the queue, whatever
\* expires at the same time and whatever TimerIds of deleted timers are cancelled
\* (TimerQueue.cc:172-187, 233-243).
THEOREM LeaveForAReason == Spec => TimersLeaveForAReason
<1>1. TimerInv /\ [Next]_vars =>
        [\A e \in DOMAIN timer_list_ :
           \/ InQueue(e[2])'
           \/ e[2] \in cancelled'
           \/ e[2] \in fired /\ timers[timer_list_[e]].interval = 0]_vars
  BY LeaveStep DEF InQueue
<1> QED
  BY <1>1, TimerInvAlways, PTL DEF Spec, TimersLeaveForAReason
=============================================================================

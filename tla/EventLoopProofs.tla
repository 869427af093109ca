-------------------------- MODULE EventLoopProofs --------------------------
(***************************************************************************)
(* What holds of EventLoop for any number of threads and functors and any  *)
(* limit of the eventfd: type correctness, the wake-up protocol, and that  *)
(* the loop is a serial executor.                                          *)
(***************************************************************************)
EXTENDS EventLoop, SequenceTheorems, TLAPS

-----------------------------------------------------------------------------
(* Type correctness                                                        *)

\* wakeUp (EventLoop.cc:129) keeps the count of the eventfd within its limit and
\* leaves it positive.
LEMMA WakeUpCount ==
  ASSUME NEW count \in 0..EventFdMax
  PROVE  wakeUp(count) \in 0..EventFdMax /\ wakeUp(count) > 0
BY EventFdMaxAssumption DEF wakeUp

\* Zero, the count after handleRead (EventLoop.cc:114), is within the limit.
LEMMA HandleReadCount == \A count : handleRead(count) \in 0..EventFdMax
BY EventFdMaxAssumption DEF handleRead

\* The variables of a new EventLoop have their types.
LEMMA TypeInit == Init => TypeOK
<1>1. 0 \in 0..EventFdMax
  BY EventFdMaxAssumption
<1> QED
  BY <1>1, EmptySeq DEF Init, TypeOK, OwnerStates, ThreadStates, Channels

\* A step preserves the types.
LEMMA TypeStep == TypeOK /\ [Next]_vars => TypeOK'
<1> SUFFICES ASSUME TypeOK, [Next]_vars PROVE TypeOK'
  OBVIOUS
<1> USE DEF TypeOK, OwnerStates, ThreadStates, Channels, flags, functorVars, pollVars
<1>1. ASSUME NEW t \in Threads, NEW f \in Functors, QueueAppend(t, f) PROVE TypeOK'
  BY <1>1, AppendProperties DEF QueueAppend
<1>2. ASSUME NEW t \in Threads, OtherWake(t) PROVE TypeOK'
  BY <1>2, WakeUpCount DEF OtherWake, QueueWake, QuitWake
<1>3. ASSUME NEW t \in Threads, QuitSet(t) PROVE TypeOK'
  BY <1>3 DEF QuitSet
<1>4. ASSUME NEW f \in Functors, OwnerQueueInLoop(f) PROVE TypeOK'
  BY <1>4, WakeUpCount, AppendProperties DEF OwnerQueueInLoop
<1>5. ASSUME NEW f \in Functors, OwnerRunInLoop(f) PROVE TypeOK'
  BY <1>5 DEF OwnerRunInLoop
<1>6. CASE OwnerQuit \/ UserCodeReturn \/ LoopEnter \/ LoopStart \/ LoopTest
  BY <1>6 DEF OwnerQuit, UserCodeReturn, LoopEnter, LoopStart, LoopTest
<1>7. ASSUME NEW ready \in SUBSET Channels, PollReturn(ready) PROVE TypeOK'
  BY <1>7 DEF PollReturn
<1>8. CASE HandleWakeup \/ HandleIo
  BY <1>8, HandleReadCount DEF HandleWakeup, HandleIo
<1>9. CASE BeginPending \/ SwapPending \/ EndPending
  BY <1>9, EmptySeq DEF BeginPending, SwapPending, EndPending
<1>10. CASE RunTask
  BY <1>10, HeadTailProperties DEF RunTask
<1>11. CASE UNCHANGED vars
  BY <1>11 DEF vars
<1> QED
  BY <1>1, <1>2, <1>3, <1>4, <1>5, <1>6, <1>7, <1>8, <1>9, <1>10, <1>11
  DEF Next, OwnerStep, OwnerCall, OtherCall

\* The types hold in every reachable state.
THEOREM TypeCorrect == Spec => []TypeOK
BY TypeInit, TypeStep, PTL DEF Spec

-----------------------------------------------------------------------------
(* The wake-up protocol                                                    *)

\* The range of a queue after an append, and of an empty one.
LEMMA RangeAppend ==
  ASSUME NEW S, NEW seq \in Seq(S), NEW e \in S
  PROVE  Range(Append(seq, e)) = Range(seq) \cup {e}
BY AppendProperties, LenProperties DEF Range

\* The range of the empty queue.
LEMMA RangeEmpty == Range(<<>>) = {}
BY DEF Range

LEMMA WakeupInit == Init => WakeupInv
BY RangeEmpty DEF Init, WakeupInv, NoSleepAfterQuit

\* A step of any thread preserves the wake-up invariant.
LEMMA WakeupStep == TypeOK /\ WakeupInv /\ [Next]_vars => WakeupInv'
<1> SUFFICES ASSUME TypeOK, WakeupInv, [Next]_vars PROVE WakeupInv'
  OBVIOUS
<1> USE DEF TypeOK, WakeupInv, NoSleepAfterQuit, WakeComing, flags, functorVars, pollVars
<1>1. ASSUME NEW t \in Threads, NEW f \in Functors, QueueAppend(t, f) PROVE WakeupInv'
  BY <1>1 DEF QueueAppend
<1>2. ASSUME NEW t \in Threads, OtherWake(t) PROVE WakeupInv'
  BY <1>2, WakeUpCount DEF OtherWake, QueueWake, QuitWake, MustWake
<1>3. ASSUME NEW t \in Threads, QuitSet(t) PROVE WakeupInv'
  BY <1>3 DEF QuitSet
<1>4. ASSUME NEW f \in Functors, OwnerQueueInLoop(f) PROVE WakeupInv'
  BY <1>4, WakeUpCount, RangeAppend DEF OwnerQueueInLoop, InUserCode, MustWake
<1>5. ASSUME NEW f \in Functors, OwnerRunInLoop(f) PROVE WakeupInv'
  BY <1>5 DEF OwnerRunInLoop
<1>6. CASE OwnerQuit
  BY <1>6 DEF OwnerQuit, InUserCode
<1>7. CASE UserCodeReturn
  BY <1>7 DEF UserCodeReturn
<1>8. CASE LoopEnter \/ LoopStart \/ LoopTest
  BY <1>8 DEF LoopEnter, LoopStart, LoopTest
<1>9. ASSUME NEW ready \in SUBSET Channels, PollReturn(ready) PROVE WakeupInv'
  BY <1>9 DEF PollReturn
<1>10. CASE HandleWakeup \/ HandleIo
  BY <1>10 DEF HandleWakeup, HandleIo
<1>11. CASE BeginPending \/ EndPending
  BY <1>11 DEF BeginPending, EndPending
<1>12. CASE SwapPending
  BY <1>12, RangeEmpty DEF SwapPending
<1>13. CASE RunTask
  BY <1>13 DEF RunTask
<1>14. CASE UNCHANGED vars
  BY <1>14 DEF vars
<1> QED
  BY <1>1, <1>2, <1>3, <1>4, <1>5, <1>6, <1>7, <1>8, <1>9, <1>10, <1>11, <1>12, <1>13, <1>14
  DEF Next, OwnerStep, OwnerCall, OtherCall, Channels

\* The invariant of the wake-up protocol.
LEMMA WakeupInvAlways == Spec => []WakeupInv
BY TypeInit, TypeStep, WakeupInit, WakeupStep, PTL DEF Spec

\* For any threads and functors: the owner never sleeps in epoll_wait over a functor in
\* the queue with no wake-up there or on its way (EventLoop.cc:172-188).
THEOREM WakeupCorrect == Spec => []NoLostWakeup
<1>1. WakeupInv => NoLostWakeup
  BY DEF WakeupInv, NoLostWakeup
<1> QED
  BY <1>1, WakeupInvAlways, PTL

\* The same for quit_ set by any of the threads, also with the eventfd at its maximum
\* (EventLoop.cc:129-138, 226-233).
THEOREM QuitWakeCorrect == Spec => []NoSleepAfterQuit
<1>1. WakeupInv => NoSleepAfterQuit
  BY DEF WakeupInv
<1> QED
  BY <1>1, WakeupInvAlways, PTL

-----------------------------------------------------------------------------
(* The loop is a serial executor                                           *)

\* Taking the head off the first vector takes it off the whole queue.
LEMMA HeadTailConcat ==
  ASSUME NEW S, NEW s \in Seq(S), NEW t \in Seq(S), s # <<>>
  PROVE  /\ s \o t # <<>>
         /\ Head(s \o t) = Head(s)
         /\ Tail(s \o t) = Tail(s) \o t
<1>1. s \o t # <<>>
  BY ConcatEqualIffEmpty
<1>2. Head(s \o t) = Head(s)
  BY <1>1, ConcatProperties, EmptySeq
<1>3. Len(Tail(s \o t)) = Len(Tail(s) \o t)
  BY <1>1, ConcatProperties, HeadTailProperties, LenProperties
<1>4. ASSUME NEW i \in 1..Len(Tail(s \o t))
      PROVE  Tail(s \o t)[i] = (Tail(s) \o t)[i]
  BY <1>1, <1>3, ConcatProperties, HeadTailProperties, LenProperties
<1>5. Tail(s \o t) \in Seq(S) /\ Tail(s) \o t \in Seq(S)
  BY <1>1, ConcatProperties, HeadTailProperties
<1>6. Tail(s \o t) = Tail(s) \o t
  BY <1>3, <1>4, <1>5, SeqEqual
<1> QED
  BY <1>1, <1>2, <1>6

\* An append to the second vector is an append to the whole queue.
LEMMA AppendConcat ==
  ASSUME NEW S, NEW s \in Seq(S), NEW t \in Seq(S), NEW e \in S
  PROVE  s \o Append(t, e) = Append(s \o t, e)
<1>1. <<e>> \in Seq(S)
  OBVIOUS
<1> QED
  BY <1>1, AppendIsConcat, ConcatAssociative, ConcatProperties

\* Every step of the loop is a step of the executor, or changes neither its queue
\* nor what has been started.
LEMMA ExecutorStep ==
  TypeOK /\ WakeupInv /\ [Next]_vars => [Executor!Next]_(Executor!xvars)
<1> SUFFICES ASSUME TypeOK, WakeupInv, [Next]_vars
             PROVE  [Executor!Next]_(Executor!xvars)
  OBVIOUS
<1> DEFINE queue == tasks \o pendingFunctors_
<1>0. /\ tasks \in Seq(Functors)
      /\ pendingFunctors_ \in Seq(Functors)
      /\ Unused = Executor!Unused
  <2>1. tasks \in Seq(Functors) /\ pendingFunctors_ \in Seq(Functors)
    BY DEF TypeOK
  <2>2. Range(queue) = Range(tasks) \cup Range(pendingFunctors_)
    BY <2>1, RangeConcatenation
  <2>3. Executor!Range(queue) = Range(queue)
    BY Zenon DEF Range, Executor!Range
  <2> QED
    BY <2>1, <2>2, <2>3, Zenon DEF Unused, Executor!Unused
<1>1. ASSUME NEW f \in Functors, f \in Unused, UNCHANGED <<tasks, ran>>,
             pendingFunctors_' = Append(pendingFunctors_, f)
      PROVE  Executor!Submit(f)
  BY <1>0, <1>1, AppendConcat DEF Executor!Submit
<1>2. ASSUME NEW t \in Threads, NEW f \in Functors, QueueAppend(t, f)
      PROVE  Executor!Next
  BY <1>1, <1>2 DEF QueueAppend, Executor!Next
<1>3. ASSUME NEW f \in Functors, OwnerQueueInLoop(f) PROVE Executor!Next
  BY <1>1, <1>3 DEF OwnerQueueInLoop, Executor!Next
<1>4. ASSUME NEW f \in Functors, OwnerRunInLoop(f) PROVE Executor!Next
  BY <1>0, <1>4 DEF OwnerRunInLoop, Executor!Next, Executor!RunNow
<1>5. CASE RunTask
  BY <1>0, <1>5, HeadTailConcat DEF RunTask, Executor!Next, Executor!Start
<1>6. CASE SwapPending
  <2>1. tasks = <<>>
    BY <1>6 DEF WakeupInv, SwapPending
  <2>2. queue' = queue
    BY <1>0, <1>6, <2>1, ConcatEmptySeq DEF SwapPending
  <2> QED
    BY <1>6, <2>2 DEF SwapPending, Executor!xvars
<1>7. ASSUME UNCHANGED <<tasks, pendingFunctors_, ran>>
      PROVE  UNCHANGED Executor!xvars
  BY <1>7 DEF Executor!xvars
<1>8. ASSUME NEW t \in Threads, QuitSet(t) \/ OtherWake(t) PROVE UNCHANGED Executor!xvars
  BY <1>7, <1>8 DEF QuitSet, OtherWake, QueueWake, QuitWake, functorVars
<1>9. CASE OwnerQuit \/ UserCodeReturn \/ LoopEnter \/ LoopStart \/ LoopTest
  BY <1>7, <1>9 DEF OwnerQuit, UserCodeReturn, LoopEnter, LoopStart, LoopTest, functorVars
<1>10. ASSUME NEW ready \in SUBSET Channels, PollReturn(ready) PROVE UNCHANGED Executor!xvars
  BY <1>7, <1>10 DEF PollReturn, functorVars
<1>11. CASE HandleWakeup \/ HandleIo \/ BeginPending \/ EndPending
  BY <1>7, <1>11 DEF HandleWakeup, HandleIo, BeginPending, EndPending, functorVars
<1>12. CASE UNCHANGED vars
  BY <1>7, <1>12 DEF vars, functorVars
<1> QED
  BY <1>2, <1>3, <1>4, <1>5, <1>6, <1>8, <1>9, <1>10, <1>11, <1>12
  DEF Next, OwnerStep, OwnerCall, OtherCall, Channels

\* The loop implements SerialExecutor (EventLoop.cc:140-188): whatever threads queue
\* functors and whatever functors queue themselves, they are started in the order
\* of their appends, none is lost and none is started twice.
THEOREM LoopIsExecutor == Spec => ImplementsExecutor
<1>1. Init => Executor!Init
  BY ConcatEmptySeq, EmptySeq DEF Init, Executor!Init
<1> QED
  BY <1>1, TypeInit, TypeStep, WakeupInit, WakeupStep, ExecutorStep, PTL
  DEF Spec, ImplementsExecutor, Executor!Spec
=============================================================================

----------------------------- MODULE EventLoop -----------------------------
(***************************************************************************)
(* One EventLoop: its thread (the owner), which runs loop(), and the other *)
(* threads, which hand it functors with queueInLoop()/runInLoop() and stop *)
(* it with quit().  The module keeps every step another thread can get     *)
(* between: the append under mtx_ and the later write to the eventfd, the  *)
(* assignment of quit_ and the later write, the return of epoll_wait, the  *)
(* read of the eventfd, the swap of the queue and each functor.            *)
(*                                                                         *)
(* What is not the loop's own (which descriptors become ready, what a      *)
(* callback or a functor does) is free: such code may queue functors, run  *)
(* functors on the spot and quit the loop, in any order, any number of     *)
(* times.                                                                  *)
(***************************************************************************)
EXTENDS Naturals, Sequences, Functions

CONSTANTS Threads,     \* the threads other than the owner
          Functors,    \* the closures; each is handed over at most once
          EventFdMax   \* the count at which a write to the eventfd fails

ASSUME EventFdMaxAssumption == EventFdMax \in Nat \ {0}

VARIABLES
  pc,                          \* where the owner is (see OwnerStates)
  quit_,
  calling_pending_functors_,
  pendingFunctors_,            \* the queue that mtx_ protects
  tasks,                       \* what is left of the vector swapped out of the queue
  ran,                         \* functors that have been started
  early,                       \* functors the owner queued before it called loop()
  wakeup_fd_,                  \* the count of the eventfd
  active_channels,             \* ready channels not handled yet
  tpc                          \* where each other thread is

flags == <<quit_, calling_pending_functors_>>
functorVars == <<pendingFunctors_, tasks, ran, early>>
pollVars == <<wakeup_fd_, active_channels>>
vars == <<pc, flags, functorVars, pollVars, tpc>>

\* created: before loop(); entered: in loop(), before quit_=false; test: at
\* while(!quit_); poll: in epoll_wait; events: at the for over active_channels;
\* callback: in the callback of a channel; swap: in doingPendingFunctors, before
\* the lock; run: at the for over tasks; task: in a functor; returned: loop() is over.
OwnerStates == {"created", "entered", "test", "poll", "events", "callback",
                "swap", "run", "task", "returned"}

\* idle: in no call of this loop; appended: in queueInLoop, past the critical
\* section; quitSet: in quit(), past the assignment.
ThreadStates == {"idle", "appended", "quitSet"}

\* The wakeup channel, and all the others (connections, listener, timers) as one.
Channels == {"wakeup", "io"}

TypeOK ==
  /\ pc \in OwnerStates
  /\ quit_ \in BOOLEAN
  /\ calling_pending_functors_ \in BOOLEAN
  /\ pendingFunctors_ \in Seq(Functors)
  /\ tasks \in Seq(Functors)
  /\ ran \in SUBSET Functors
  /\ early \in SUBSET Functors
  /\ wakeup_fd_ \in 0..EventFdMax
  /\ active_channels \in SUBSET Channels
  /\ tpc \in [Threads -> ThreadStates]

Unused == Functors \ (Range(tasks) \cup Range(pendingFunctors_) \cup ran)

Init ==
  /\ pc = "created"
  /\ quit_ = FALSE
  /\ calling_pending_functors_ = FALSE
  /\ pendingFunctors_ = <<>>
  /\ tasks = <<>>
  /\ ran = {}
  /\ early = {}
  /\ wakeup_fd_ = 0
  /\ active_channels = {}
  /\ tpc = [t \in Threads |-> "idle"]

-----------------------------------------------------------------------------
(* The eventfd.  A definition named X_... is a mutated form of X, kept for *)
(* the mutation runs only.                                                 *)

\* write() of 1; at the maximum it fails with EAGAIN, which is only logged.
wakeUp(count) == IF count < EventFdMax THEN count + 1 ELSE count

\* read() returns the count and sets it to zero.
handleRead(count) == 0

MustWake_NotInFunctor(isInLoopThread) == ~isInLoopThread
MustWake_OwnerOnly(isInLoopThread) == isInLoopThread /\ calling_pending_functors_

\* queueInLoop wakes the loop unless the caller is the owner outside a functor.
MustWake(isInLoopThread) == ~isInLoopThread \/ calling_pending_functors_

-----------------------------------------------------------------------------
(* Calls by other threads: two steps each.                                 *)

\* queueInLoop(f), or runInLoop(f), which passes f on: the append ...
QueueAppend(t, f) ==
  /\ tpc[t] = "idle"
  /\ f \in Unused
  /\ pendingFunctors_' = Append(pendingFunctors_, f)
  /\ tpc' = [tpc EXCEPT ![t] = "appended"]
  /\ UNCHANGED <<pc, flags, tasks, ran, early, pollVars>>

\* ... and what follows the critical section.
QueueWake(t) ==
  /\ tpc[t] = "appended"
  /\ tpc' = [tpc EXCEPT ![t] = "idle"]
  /\ wakeup_fd_' = IF MustWake(FALSE) THEN wakeUp(wakeup_fd_) ELSE wakeup_fd_
  /\ UNCHANGED <<pc, flags, functorVars, active_channels>>

QuitSet(t) ==
  /\ tpc[t] = "idle"
  /\ quit_' = TRUE
  /\ tpc' = [tpc EXCEPT ![t] = "quitSet"]
  /\ UNCHANGED <<pc, calling_pending_functors_, functorVars, pollVars>>

QuitWake_OwnerOnly(t) ==
  /\ tpc[t] = "quitSet"
  /\ tpc' = [tpc EXCEPT ![t] = "idle"]
  /\ UNCHANGED <<pc, flags, functorVars, pollVars>>

QuitWake(t) ==
  /\ tpc[t] = "quitSet"
  /\ tpc' = [tpc EXCEPT ![t] = "idle"]
  /\ wakeup_fd_' = wakeUp(wakeup_fd_)
  /\ UNCHANGED <<pc, flags, functorVars, active_channels>>

-----------------------------------------------------------------------------
(* Calls by code that runs on the owner: before loop(), in the callback of *)
(* a channel, in a functor.  The append and the wake-up are one step here: *)
(* only the owner reads the eventfd or swaps the queue.                    *)

InUserCode == pc \in {"created", "callback", "task"}

OwnerQueueInLoop(f) ==
  /\ InUserCode
  /\ f \in Unused
  /\ pendingFunctors_' = Append(pendingFunctors_, f)
  /\ wakeup_fd_' = IF MustWake(TRUE) THEN wakeUp(wakeup_fd_) ELSE wakeup_fd_
  /\ early' = IF pc = "created" THEN early \cup {f} ELSE early
  /\ UNCHANGED <<pc, flags, tasks, ran, active_channels, tpc>>

\* runInLoop(f) calls f on the spot; what f does is more of the same user code.
OwnerRunInLoop(f) ==
  /\ InUserCode
  /\ f \in Unused
  /\ ran' = ran \cup {f}
  /\ UNCHANGED <<pc, flags, pendingFunctors_, tasks, early, pollVars, tpc>>

OwnerQuit ==
  /\ InUserCode
  /\ quit_' = TRUE
  /\ UNCHANGED <<pc, calling_pending_functors_, functorVars, pollVars, tpc>>

\* The callback or the functor returns to the for loop that called it.
UserCodeReturn ==
  /\ \/ pc = "callback" /\ pc' = "events"
     \/ pc = "task" /\ pc' = "run"
  /\ UNCHANGED <<flags, functorVars, pollVars, tpc>>

-----------------------------------------------------------------------------
(* loop()                                                                  *)

LoopEnter_NoTest ==
  /\ pc = "created"
  /\ pc' = "entered"
  /\ UNCHANGED <<flags, functorVars, pollVars, tpc>>

\* if(quit_) return;
LoopEnter ==
  /\ pc = "created"
  /\ pc' = IF quit_ THEN "returned" ELSE "entered"
  /\ UNCHANGED <<flags, functorVars, pollVars, tpc>>

\* quit_=false;
LoopStart ==
  /\ pc = "entered"
  /\ quit_' = FALSE
  /\ pc' = "test"
  /\ UNCHANGED <<calling_pending_functors_, functorVars, pollVars, tpc>>

\* while(!quit_); the round starts with active_channels.clear().
LoopTest ==
  /\ pc = "test"
  /\ pc' = IF quit_ THEN "returned" ELSE "poll"
  /\ active_channels' = IF quit_ THEN active_channels ELSE {}
  /\ UNCHANGED <<flags, functorVars, wakeup_fd_, tpc>>

\* epoll_wait returns with `ready`: nothing (time-out or EINTR), or some ready
\* descriptors, the eventfd's only if its count is positive.  At most 16 are
\* reported, so a readable eventfd may have to wait behind others.
PollReturn(ready) ==
  /\ pc = "poll"
  /\ "wakeup" \in ready => wakeup_fd_ > 0
  /\ active_channels' = ready
  /\ pc' = "events"
  /\ UNCHANGED <<flags, functorVars, wakeup_fd_, tpc>>

\* The callback of the wakeup channel: EventLoop::handleRead.
HandleWakeup ==
  /\ pc = "events"
  /\ "wakeup" \in active_channels
  /\ active_channels' = active_channels \ {"wakeup"}
  /\ wakeup_fd_' = handleRead(wakeup_fd_)
  /\ UNCHANGED <<pc, flags, functorVars, tpc>>

HandleIo ==
  /\ pc = "events"
  /\ "io" \in active_channels
  /\ active_channels' = active_channels \ {"io"}
  /\ pc' = "callback"
  /\ UNCHANGED <<flags, functorVars, wakeup_fd_, tpc>>

\* doingPendingFunctors(): calling_pending_functors_=true;
BeginPending ==
  /\ pc = "events"
  /\ active_channels = {}
  /\ calling_pending_functors_' = TRUE
  /\ pc' = "swap"
  /\ UNCHANGED <<quit_, functorVars, pollVars, tpc>>

SwapPending_Copies ==
  /\ pc = "swap"
  /\ tasks' = pendingFunctors_
  /\ pc' = "run"
  /\ UNCHANGED <<flags, pendingFunctors_, ran, early, pollVars, tpc>>

\* tasks.swap(pendingFunctors_) under mtx_.
SwapPending ==
  /\ pc = "swap"
  /\ tasks' = pendingFunctors_
  /\ pendingFunctors_' = <<>>
  /\ pc' = "run"
  /\ UNCHANGED <<flags, ran, early, pollVars, tpc>>

RunTask ==
  /\ pc = "run"
  /\ tasks # <<>>
  /\ ran' = ran \cup {Head(tasks)}
  /\ tasks' = Tail(tasks)
  /\ pc' = "task"
  /\ UNCHANGED <<flags, pendingFunctors_, early, pollVars, tpc>>

\* calling_pending_functors_=false;
EndPending ==
  /\ pc = "run"
  /\ tasks = <<>>
  /\ calling_pending_functors_' = FALSE
  /\ pc' = "test"
  /\ UNCHANGED <<quit_, functorVars, pollVars, tpc>>

-----------------------------------------------------------------------------
\* The owner's own progress, but for a poll that only the environment ends.
OwnerStep ==
  \/ LoopEnter \/ LoopStart \/ LoopTest
  \/ wakeup_fd_ > 0 /\ \E ready \in SUBSET Channels \ {{}} : PollReturn(ready)
  \/ HandleWakeup \/ HandleIo \/ UserCodeReturn
  \/ BeginPending \/ SwapPending \/ RunTask \/ EndPending

OwnerCall ==
  \/ \E f \in Functors : OwnerQueueInLoop(f) \/ OwnerRunInLoop(f)
  \/ OwnerQuit

OtherCall(t) == QuitSet(t) \/ \E f \in Functors : QueueAppend(t, f)

OtherWake(t) == QueueWake(t) \/ QuitWake(t)

Next ==
  \/ OwnerStep
  \/ OwnerCall
  \/ \E ready \in SUBSET {"io"} : PollReturn(ready)
  \/ \E t \in Threads : OtherCall(t) \/ OtherWake(t)

Spec == Init /\ [][Next]_vars

\* Threads are scheduled, callbacks and functors return, and a readable eventfd
\* ends the poll.  Nobody has to make another descriptor ready, and the 10 s
\* time-out of the poll is not counted on.
Fairness == WF_vars(OwnerStep) /\ \A t \in Threads : WF_vars(OtherWake(t))

FairSpec == Spec /\ Fairness

-----------------------------------------------------------------------------
(* Properties                                                              *)

\* A write to the eventfd is there, or a thread is about to make one.
WakeComing == wakeup_fd_ > 0 \/ \E t \in Threads : tpc[t] # "idle"

\* queueInLoop's condition for wakeUp() (EventLoop.cc:183) loses no functor: when
\* the owner sleeps in epoll_wait while the queue holds a functor that was not
\* queued by the owner itself ahead of loop(), a wake-up is there or on its way.
NoLostWakeup == pc = "poll" /\ Range(pendingFunctors_) \ early # {} => WakeComing

\* quit() from another thread (EventLoop.cc:226-233) never leaves the owner asleep in
\* epoll_wait with nothing to wake it, wherever the owner is between the assignment of
\* quit_ and the write, whoever else's wake-up it has just read, and with the eventfd at
\* its maximum too, where the write fails.
NoSleepAfterQuit == pc = "poll" /\ quit_ => WakeComing

\* The facts that make the two above inductive: where the flag of
\* doingPendingFunctors is up, where tasks is in use, and that a wake-up owed to
\* the queue exists at every point at which the next swap is not yet certain.
WakeupInv ==
  /\ calling_pending_functors_ <=> pc \in {"swap", "run", "task"}
  /\ tasks # <<>> => pc \in {"run", "task"}
  /\ /\ pc \notin {"events", "callback", "swap"}
     /\ Range(pendingFunctors_) \ early # {}
     => WakeComing
  /\ NoSleepAfterQuit

\* The loop implements SerialExecutor: over the two places a functor can be in
\* (pendingFunctors_, and the vector swapped out of it) functors are started in
\* the order in which they were queued, none is lost and none is started twice.
Executor == INSTANCE SerialExecutor WITH queue <- tasks \o pendingFunctors_, ran <- ran
ImplementsExecutor == Executor!Spec

\* A functor that was queued is started, unless the loop is told to quit, without
\* the help of the poll's time-out or of other events (EventLoop.cc:140-188).
QueuedFunctorsRun ==
  \A f \in Functors :
    f \in Range(pendingFunctors_) \ early ~> f \in ran \/ quit_

\* quit() ends loop(), from whatever thread and at whatever point it is called, but
\* for the two statements between the test and the reset of quit_ (EventLoop.cc:192-195).
QuitEndsLoop == quit_ /\ pc # "entered" ~> pc = "returned"

-----------------------------------------------------------------------------
(* What a comment says and the code does not do                            *)

\* EventLoop.cc:219-221 has quit() from another thread make loop() run to its end.
QuitIsNeverLost == quit_ ~> pc = "returned"
=============================================================================

------------------------ MODULE EventLoopThreadPool ------------------------
(***************************************************************************)
(* The threads of a server and the loops in them: EventLoopThreadPool,     *)
(* EventLoopThread and Thread.  One thread, the manager, starts the pool,  *)
(* asks it for loops and destroys it; each worker runs ThreadFunc(), with  *)
(* an EventLoop on its stack.  Loop 0 is base_loop_, which the pool does   *)
(* not own.                                                                *)
(*                                                                         *)
(* Of a loop only its beginning and its end are modelled here; what it     *)
(* does meanwhile, and that quit() wakes it, is in module EventLoop.       *)
(***************************************************************************)
EXTENDS Naturals, Sequences

CONSTANTS MaxThreads,  \* bound: num_threads_
          MayQuit,     \* whether user code may quit a worker's loop
          MaxCalls     \* bound: calls of getNextLoop

ASSUME PoolAssumption == MaxThreads \in Nat /\ MayQuit \in BOOLEAN /\ MaxCalls \in Nat

VARIABLES
  num_threads_,
  mpc,       \* where the manager is (see ManagerStates)
  at,        \* the thread that start() or the destructor has come to
  loops_,    \* what startLoop() has returned, in order
  next_,     \* index into loops_, from 0
  lpc,       \* where the thread of each loop is (see LoopStates)
  quit_,     \* of each EventLoop
  loop_,     \* the workers whose EventLoopThread::loop_ is set
  exiting_,  \* the workers whose exiting_ is set
  given,     \* how often each loop was returned by getNextLoop()
  userQuit,  \* the loops that user code has quit
  lost       \* the loops that have reset a quit_ that was set

managerVars == <<num_threads_, mpc, at, loops_, next_, given>>
workerVars == <<lpc, quit_, loop_, exiting_, userQuit, lost>>
poolVars == <<managerVars, workerVars>>

Loops == 0..MaxThreads
Workers == 1..MaxThreads
nullptr == MaxThreads + 1

\* idle, started: in no call; start: at the head of start()'s for; wait: in the cv_.wait of
\* startLoop; return: past it; dtor: at the next ~EventLoopThread; quit, wake: in its call
\* of quit(), before and after the assignment; join: in Thread::join(); gone: destroyed.
ManagerStates == {"idle", "start", "wait", "return", "started",
                  "dtor", "quit", "wake", "join", "gone"}

\* unborn: no thread; init: EventLoop built, in the initialisation callback; ready: past
\* it; created: before loop(); entered: between the test and the reset of quit_; looping;
\* returned: loop() is over; nulled: loop_ is null again; dead: EventLoop destroyed.
LoopStates == {"unborn", "init", "ready", "created", "entered", "looping",
               "returned", "nulled", "dead"}

PoolTypeOK ==
  /\ num_threads_ \in 0..MaxThreads
  /\ mpc \in ManagerStates
  /\ at \in 1..(num_threads_ + 1)
  /\ loops_ \in Seq(Workers \cup {nullptr})
  /\ next_ \in Nat /\ next_ < IF loops_ = <<>> THEN 1 ELSE num_threads_
  /\ lpc \in [Loops -> LoopStates]
  /\ quit_ \in [Loops -> BOOLEAN]
  /\ loop_ \subseteq Workers
  /\ exiting_ \subseteq Workers
  /\ given \in [Loops -> Nat]
  /\ userQuit \subseteq Workers
  /\ lost \subseteq Loops

\* The base loop exists; setNumThreads() has been called.
PoolInit ==
  /\ num_threads_ \in 0..MaxThreads
  /\ mpc = "idle"
  /\ at = 1
  /\ loops_ = <<>>
  /\ next_ = 0
  /\ lpc = [l \in Loops |-> IF l = 0 THEN "created" ELSE "unborn"]
  /\ quit_ = [l \in Loops |-> FALSE]
  /\ loop_ = {}
  /\ exiting_ = {}
  /\ given = [l \in Loops |-> 0]
  /\ userQuit = {}
  /\ lost = {}

LoopGoes(l, from, to) == lpc[l] = from /\ lpc' = [lpc EXCEPT ![l] = to]
ManagerGoes(from, to) == mpc = from /\ mpc' = to

-----------------------------------------------------------------------------
(* The manager: start()                                                    *)

Start ==
  /\ ManagerGoes("idle", "start")
  /\ UNCHANGED <<num_threads_, at, loops_, next_, given, workerVars>>

\* startLoop() up to the wait; Thread::start() returns when the thread runs.
StartLoop ==
  /\ at <= num_threads_
  /\ ManagerGoes("start", "wait")
  /\ LoopGoes(at, "unborn", "init")
  /\ UNCHANGED <<num_threads_, at, loops_, next_, given, quit_, loop_, exiting_, userQuit, lost>>

StartLoopWait_NoWait ==
  /\ ManagerGoes("wait", "return")
  /\ UNCHANGED <<num_threads_, at, loops_, next_, given, workerVars>>

StartLoopWait ==
  /\ at \in loop_
  /\ ManagerGoes("wait", "return")
  /\ UNCHANGED <<num_threads_, at, loops_, next_, given, workerVars>>

\* return loop_; is past the lock: the thread may have set it to nullptr again.
StartLoopReturn ==
  /\ ManagerGoes("return", "start")
  /\ loops_' = Append(loops_, IF at \in loop_ THEN at ELSE nullptr)
  /\ at' = at + 1
  /\ UNCHANGED <<num_threads_, next_, given, workerVars>>

\* All threads are started (if there are none, the callback has base_loop_).
StartDone ==
  /\ at > num_threads_
  /\ ManagerGoes("start", "started")
  /\ UNCHANGED <<num_threads_, at, loops_, next_, given, workerVars>>

NextLoop == IF loops_ = <<>> THEN 0 ELSE loops_[next_ + 1]

AdvanceNext_OneShort == IF next_ + 2 < num_threads_ THEN next_ + 1 ELSE 0
AdvanceNext_NoModulo == IF loops_ = <<>> THEN next_ ELSE next_ + 1

AdvanceNext == IF loops_ = <<>> THEN next_ ELSE (next_ + 1) % num_threads_

getNextLoop ==
  /\ next_' = AdvanceNext
  /\ given' = IF NextLoop = nullptr THEN given ELSE [given EXCEPT ![NextLoop] = @ + 1]
  /\ UNCHANGED <<num_threads_, mpc, at, loops_>>

UseLoop ==
  /\ mpc = "started"
  /\ \A l \in Loops : given[l] < MaxCalls
  /\ getNextLoop
  /\ UNCHANGED workerVars

-----------------------------------------------------------------------------
(* The manager: ~EventLoopThreadPool, one ~EventLoopThread after the other *)

DestroyPool ==
  /\ ManagerGoes("started", "dtor")
  /\ at' = 1
  /\ UNCHANGED <<num_threads_, loops_, next_, given, workerVars>>

DestroyThread ==
  /\ at <= num_threads_
  /\ exiting_' = exiting_ \cup {at}
  /\ ManagerGoes("dtor", IF at \in loop_ THEN "quit" ELSE "join")   \* read without mtx_
  /\ UNCHANGED <<num_threads_, at, loops_, next_, given, lpc, quit_, loop_, userQuit, lost>>

QuitSet_Forgotten ==
  /\ ManagerGoes("quit", "wake")
  /\ UNCHANGED <<num_threads_, at, loops_, next_, given, workerVars>>

\* quit_=true, of an EventLoop that may be gone.
QuitSet ==
  /\ ManagerGoes("quit", "wake")
  /\ quit_' = [quit_ EXCEPT ![at] = TRUE]
  /\ UNCHANGED <<num_threads_, at, loops_, next_, given, lpc, loop_, exiting_, userQuit, lost>>

\* isInLoopThread() and the write to wakeup_fd_ look at it once more.
QuitWake ==
  /\ ManagerGoes("wake", "join")
  /\ UNCHANGED <<num_threads_, at, loops_, next_, given, workerVars>>

Join_NoWait ==
  /\ ManagerGoes("join", "dtor")
  /\ at' = at + 1
  /\ UNCHANGED <<num_threads_, loops_, next_, given, workerVars>>

Join ==
  /\ ManagerGoes("join", "dtor")
  /\ lpc[at] = "dead"
  /\ at' = at + 1
  /\ UNCHANGED <<num_threads_, loops_, next_, given, workerVars>>

DestroyDone ==
  /\ at > num_threads_
  /\ ManagerGoes("dtor", "gone")
  /\ UNCHANGED <<num_threads_, at, loops_, next_, given, workerVars>>

-----------------------------------------------------------------------------
(* A loop, and the ThreadFunc() around a worker's                          *)

\* The user's callback, which may quit its loop.
InitCallback(l, quits) ==
  /\ LoopGoes(l, "init", "ready")
  /\ quits => MayQuit
  /\ quit_' = [quit_ EXCEPT ![l] = quits]
  /\ userQuit' = IF quits THEN userQuit \cup {l} ELSE userQuit
  /\ UNCHANGED <<managerVars, loop_, exiting_, lost>>

Publish_Unset(l) ==
  /\ LoopGoes(l, "ready", IF l \in exiting_ THEN "dead" ELSE "created")
  /\ UNCHANGED <<managerVars, quit_, loop_, exiting_, userQuit, lost>>

\* loop_=&loop; cv_.notify_one();  (or the thread returns, if its owner is exiting).
Publish(l) ==
  /\ LoopGoes(l, "ready", IF l \in exiting_ THEN "dead" ELSE "created")
  /\ loop_' = IF l \in exiting_ THEN loop_ ELSE loop_ \cup {l}
  /\ UNCHANGED <<managerVars, quit_, exiting_, userQuit, lost>>

\* if(quit_) return;
LoopEnter(l) ==
  /\ LoopGoes(l, "created", IF quit_[l] THEN "returned" ELSE "entered")
  /\ UNCHANGED <<managerVars, quit_, loop_, exiting_, userQuit, lost>>

\* quit_=false;
LoopStart(l) ==
  /\ LoopGoes(l, "entered", "looping")
  /\ quit_' = [quit_ EXCEPT ![l] = FALSE]
  /\ lost' = IF quit_[l] THEN lost \cup {l} ELSE lost
  /\ UNCHANGED <<managerVars, loop_, exiting_, userQuit>>

\* while(!quit_) ends.
LoopReturn(l) ==
  /\ quit_[l]
  /\ LoopGoes(l, "looping", "returned")
  /\ UNCHANGED <<managerVars, quit_, loop_, exiting_, userQuit, lost>>

ResetLoop_Kept(l) ==
  /\ LoopGoes(l, "returned", "nulled")
  /\ UNCHANGED <<managerVars, quit_, loop_, exiting_, userQuit, lost>>

\* loop_=nullptr; under mtx_.
ResetLoop(l) ==
  /\ LoopGoes(l, "returned", "nulled")
  /\ loop_' = loop_ \ {l}
  /\ UNCHANGED <<managerVars, quit_, exiting_, userQuit, lost>>

\* ~EventLoop, at the end of ThreadFunc().
ThreadEnd(l) ==
  /\ LoopGoes(l, "nulled", "dead")
  /\ UNCHANGED <<managerVars, quit_, loop_, exiting_, userQuit, lost>>

\* A callback quits its loop, or another thread one that start() has handed over
\* (test_EventLoopThreadPool.h:175 and 127).
UserQuit(l) ==
  /\ MayQuit
  /\ lpc[l] = "looping" \/ (lpc[l] \in {"created", "entered"} /\ l <= Len(loops_))
  /\ quit_' = [quit_ EXCEPT ![l] = TRUE]
  /\ userQuit' = userQuit \cup {l}
  /\ UNCHANGED <<managerVars, lpc, loop_, exiting_, lost>>

-----------------------------------------------------------------------------
ManagerStep ==
  \/ StartLoop \/ StartLoopWait \/ StartLoopReturn \/ StartDone
  \/ DestroyThread \/ QuitSet \/ QuitWake \/ Join \/ DestroyDone

\* What a worker does outside its rounds.
WorkerStep(l) ==
  \/ \E quits \in BOOLEAN : InitCallback(l, quits)
  \/ Publish(l) \/ LoopEnter(l) \/ LoopStart(l) \/ ResetLoop(l) \/ ThreadEnd(l)

PoolNext ==
  \/ Start \/ UseLoop \/ DestroyPool
  \/ ManagerStep
  \/ \E l \in Workers : WorkerStep(l) \/ LoopReturn(l) \/ UserQuit(l)

PoolSpec == PoolInit /\ [][PoolNext]_poolVars

\* Threads are scheduled, and a loop that is told to quit comes to its test of quit_
\* (QuitEndsLoop of EventLoop).  Nobody has to start or destroy the pool or quit a loop.
PoolFairness ==
  /\ WF_poolVars(ManagerStep)
  /\ \A l \in Workers : WF_poolVars(WorkerStep(l) \/ LoopReturn(l))

FairPoolSpec == PoolSpec /\ PoolFairness

-----------------------------------------------------------------------------
(* Properties                                                              *)

\* start() hands over the worker's own loop, published and not ended, unless user code
\* has quit it (EventLoopThread.cc:56-75): the wait is what makes the unlocked
\* `return loop_` right.
StartHandsOverLoop ==
  /\ mpc = "started" => Len(loops_) = num_threads_
  /\ \A i \in DOMAIN loops_ :
       i \in userQuit \/ i \in exiting_
         \/ (loops_[i] = i /\ i \in loop_ /\ lpc[i] \in {"created", "entered", "looping"})

\* loop_ never points to an EventLoop that has been destroyed, so that a reader that
\* looks, finds nullptr and goes on to join() is right (EventLoopThread.cc:51-52).
PublishedLoopExists == \A l \in loop_ : lpc[l] \in {"created", "entered", "looping", "returned"}

\* getNextLoop() spreads the connections evenly: no loop of the pool is ever two ahead
\* of another (EventLoopThreadPool.cc:53-56).
RoundRobin ==
  loops_ # <<>> => \A i, j \in 1..Len(loops_) :
                     nullptr \notin {loops_[i], loops_[j]} => given[i] <= given[j] + 1

\* start() returns, unless the very loop that startLoop() waits for was quit by its own
\* code, an initialisation callback or a callback of its first rounds, and is over with
\* loop_ null again before the waiter looks (EventLoopThread.cc:69).  A loop that was quit
\* elsewhere in the pool, or that the waiter has seen, is no excuse.
StartReturns ==
  mpc = "start" ~> \/ mpc = "started"
                   \/ mpc = "wait" /\ at \in userQuit /\ lpc[at] \in {"nulled", "dead"}

\* The destructor returns: every worker comes to an end and is joined, whatever the
\* pool's age and whoever quit the loops before, but for a quit() that falls between the
\* test and the reset of quit_ (EventLoopThread.cc:17-28, EventLoop.cc:192-195).
DestructorReturns == mpc = "dtor" ~> mpc = "gone" \/ lost # {}

-----------------------------------------------------------------------------
(* What a comment says and the code does not do                            *)

\* EventLoopThread.h:25: loop_ passes the EventLoop of one thread to another, "so it
\* has to be locked".  The destructor, unlocked, is then in quit() of a destroyed loop.
NoCallOnDeadLoop == mpc \in {"quit", "wake"} => lpc[at] # "dead"
=============================================================================

---------------------- MODULE EventLoopThreadPoolProofs ----------------------
(***************************************************************************)
(* For any number of threads: start() hands over running loops, loop_      *)
(* points to loops that exist, and getNextLoop() is fair.  The lemmas take *)
(* any loop, the base loop included, so that module TcpServerProofs, whose *)
(* specification moves that one too, can use them.                         *)
(***************************************************************************)
EXTENDS EventLoopThreadPool, TLAPS

Published == {"created", "entered", "looping", "returned"}
Starting == {"start", "wait", "return"}
Destroying == {"dtor", "quit", "wake", "join", "gone"}

\* How far start() has come: what it has returned, and the threads it has made.
StartProgress ==
  /\ mpc = "idle" => at = 1 /\ loops_ = <<>>
  /\ mpc \in Starting => Len(loops_) = at - 1
  /\ mpc \in {"wait", "return"} => at <= num_threads_
  /\ mpc \notin Starting \cup {"idle"} => Len(loops_) = num_threads_
  /\ \A l \in Workers : lpc[l] # "unborn" => l <= Len(loops_) \/ (l = at /\ mpc \in {"wait", "return"})
  /\ \A i \in DOMAIN loops_ : i \in Workers /\ lpc[i] \notin {"unborn", "init", "ready"}
  /\ mpc = "return" => lpc[at] \notin {"unborn", "init", "ready"}

\* How far the destructor has come.
DestroyProgress ==
  /\ exiting_ # {} => mpc \in Destroying
  /\ mpc \in {"quit", "wake", "join"} => at \in exiting_ /\ at <= num_threads_
  /\ mpc = "dtor" => \A l \in Workers : l < at => lpc[l] \in {"unborn", "dead"}
  /\ mpc \in {"quit", "wake", "join"} => \A l \in Workers : l < at => lpc[l] \in {"unborn", "dead"}
  /\ mpc = "gone" => \A l \in Workers : lpc[l] \in {"unborn", "dead"}

\* loop_ is set exactly while the worker's loop is published, and only a quit() ends it.
LoopsEndByQuit ==
  \A l \in Workers :
    /\ l \in loop_ <=> lpc[l] \in Published
    /\ quit_[l] => l \in userQuit \cup exiting_
    /\ lpc[l] \in {"returned", "nulled", "dead"} => l \in userQuit \cup exiting_

\* A worker's entry in loops_ is its own loop, or null because user code quit it.
LoopsAreOwn ==
  \A i \in DOMAIN loops_ : loops_[i] = i \/ (loops_[i] = nullptr /\ i \in userQuit)

\* The loops before next_ have been returned once more than those from it on.
Turn(i) == IF i <= next_ THEN 1 ELSE 0
Turns ==
  /\ mpc \in Starting \cup {"idle"} => next_ = 0 /\ \A l \in Workers : given[l] = 0
  /\ \A i, j \in DOMAIN loops_ :
       loops_[i] = i /\ loops_[j] = j => given[i] + Turn(j) = given[j] + Turn(i)

\* The conjunction that is inductive.
PoolInv ==
  /\ PoolTypeOK
  /\ StartProgress
  /\ DestroyProgress
  /\ LoopsEndByQuit
  /\ LoopsAreOwn
  /\ Turns
-----------------------------------------------------------------------------
(* The manager                                                             *)

LEMMA Appended ==
  ASSUME NEW S, NEW s \in Seq(S), NEW e \in S, NEW n, n = Len(s) + 1
  PROVE  /\ Append(s, e) \in Seq(S) /\ Len(Append(s, e)) = n
         /\ DOMAIN Append(s, e) = 1..n
         /\ Append(s, e)[n] = e
         /\ \A i \in DOMAIN s : i \in 1..n /\ i # n /\ Append(s, e)[i] = s[i]
         /\ \A i \in 1..n : i # n => i \in DOMAIN s
OBVIOUS

LEMMA NoIndexes == DOMAIN <<>> = {}
<1>1. <<>> \in Seq({}) /\ Len(<<>>) = 0
  OBVIOUS
<1>2. DOMAIN <<>> = 1..Len(<<>>)
  BY <1>1
<1> QED
  BY <1>1, <1>2

LEMMA PoolInvInit == PoolInit => PoolInv
<1> SUFFICES ASSUME PoolInit PROVE PoolInv
  OBVIOUS
<1> USE PoolAssumption DEF PoolInit, Loops, Workers
<1>1. PoolTypeOK
  BY DEF PoolTypeOK, ManagerStates, LoopStates
<1>2. DOMAIN loops_ = {}
  BY NoIndexes
<1>3. /\ Len(loops_) = 0
      /\ \A l \in Workers : lpc[l] = "unborn" /\ given[l] = 0
      /\ \A l \in Workers : ~quit_[l]
  <2>1. Len(loops_) = 0
    OBVIOUS
  <2>2. \A l \in Workers : l \in Loops /\ l # 0
    OBVIOUS
  <2>3. \A l \in Workers : lpc[l] = "unborn" /\ given[l] = 0
    BY <2>2
  <2>4. \A l \in Workers : ~quit_[l]
    BY <2>2
  <2> QED
    BY <2>1, <2>3, <2>4
<1>4. StartProgress
  BY <1>2, <1>3 DEF StartProgress, Starting
<1>5. DestroyProgress
  BY DEF DestroyProgress, Destroying
<1>6. LoopsEndByQuit /\ LoopsAreOwn /\ Turns
  BY <1>2, <1>3 DEF LoopsEndByQuit, LoopsAreOwn, Turns, Turn, Starting, Published
<1> QED
  BY <1>1, <1>4, <1>5, <1>6 DEF PoolInv

\* start(), called once.
LEMMA StartInv == ASSUME PoolInv, Start PROVE PoolInv'
<1> USE PoolAssumption DEF PoolInv, Start, ManagerGoes, workerVars
<1>1. PoolTypeOK'
  BY DEF PoolTypeOK, ManagerStates
<1>2. (StartProgress /\ DestroyProgress)'
  BY DEF PoolTypeOK, StartProgress, DestroyProgress, Starting, Destroying
<1>3. (LoopsEndByQuit /\ LoopsAreOwn /\ Turns)'
  BY DEF LoopsEndByQuit, LoopsAreOwn, Turns, Turn, Starting
<1> QED
  BY <1>1, <1>2, <1>3

\* A new thread, which is not in loops_ yet.
LEMMA StartLoopInv == ASSUME PoolInv, StartLoop PROVE PoolInv'
<1> USE PoolAssumption DEF PoolInv, StartLoop, ManagerGoes, LoopGoes
<1>1. at \in Workers /\ Workers \subseteq Loops
  BY DEF PoolTypeOK, Workers, Loops
<1>2. PoolTypeOK'
  BY <1>1 DEF PoolTypeOK, ManagerStates, LoopStates
<1>3. StartProgress'
  BY <1>1 DEF PoolTypeOK, StartProgress, Starting
<1>4. DestroyProgress'
  BY DEF DestroyProgress, Destroying
<1>5. (LoopsEndByQuit /\ LoopsAreOwn /\ Turns)'
  BY <1>1 DEF PoolTypeOK, LoopsEndByQuit, LoopsAreOwn, Turns, Turn, Starting, Published
<1> QED
  BY <1>2, <1>3, <1>4, <1>5

LEMMA StartLoopWaitInv == ASSUME PoolInv, StartLoopWait PROVE PoolInv'
<1> USE PoolAssumption DEF PoolInv, StartLoopWait, ManagerGoes, workerVars
<1>1. PoolTypeOK'
  BY DEF PoolTypeOK, ManagerStates
<1>2. lpc[at] \in Published
  BY DEF LoopsEndByQuit, PoolTypeOK
<1>3. StartProgress'
  BY <1>2 DEF PoolTypeOK, StartProgress, Starting, Published
<1>4. (DestroyProgress /\ LoopsEndByQuit /\ LoopsAreOwn /\ Turns)'
  BY DEF DestroyProgress, LoopsEndByQuit, LoopsAreOwn, Turns, Turn, Starting, Destroying
<1> QED
  BY <1>1, <1>3, <1>4

\* The unlocked `return loop_`: if the thread has taken loop_ back, user code has quit it.
LEMMA StartLoopReturnInv == ASSUME PoolInv, StartLoopReturn PROVE PoolInv'
<1> USE PoolAssumption DEF PoolInv, StartLoopReturn, ManagerGoes, workerVars
<1> DEFINE found == IF at \in loop_ THEN at ELSE nullptr
<1>1. /\ at \in Workers /\ at <= num_threads_
      /\ Len(loops_) = at - 1
      /\ exiting_ = {}
      /\ next_ = 0 /\ \A l \in Workers : given[l] = 0
  BY DEF PoolTypeOK, StartProgress, DestroyProgress, Turns, Workers, Starting, Destroying
<1>2. /\ loops_ \in Seq(Workers \cup {nullptr}) /\ loops_' = Append(loops_, found)
      /\ found \in Workers \cup {nullptr}
  BY <1>1 DEF PoolTypeOK
<1>3. /\ loops_' \in Seq(Workers \cup {nullptr}) /\ Len(loops_') = at
      /\ DOMAIN loops_' = 1..at
      /\ loops_'[at] = found
      /\ \A i \in DOMAIN loops_ : i \in 1..at /\ i # at /\ loops_'[i] = loops_[i]
      /\ \A i \in 1..at : i # at => i \in DOMAIN loops_
  <2>1. at = Len(loops_) + 1
    BY <1>1, <1>2 DEF Workers
  <2> HIDE DEF found
  <2> QED
    BY <1>2, <2>1, Appended
<1>4. lpc[at] \notin {"unborn", "init", "ready"} /\ (at \in loop_ \/ at \in userQuit)
  <2>1. lpc[at] \in LoopStates /\ lpc[at] \notin {"unborn", "init", "ready"}
    BY <1>1 DEF StartProgress, PoolTypeOK, Loops, Workers
  <2>2. at \notin exiting_
    BY <1>1
  <2> QED
    BY <1>1, <2>1, <2>2 DEF LoopsEndByQuit, Published, LoopStates
<1>5. PoolTypeOK'
  BY <1>1, <1>3 DEF PoolTypeOK, ManagerStates
<1>6. StartProgress'
  BY <1>1, <1>3, <1>4 DEF PoolTypeOK, StartProgress, Starting, Workers
<1>7. (LoopsAreOwn /\ Turns)'
  BY <1>1, <1>3, <1>4 DEF LoopsAreOwn, Turns, Turn, Starting, Workers
<1>8. (DestroyProgress /\ LoopsEndByQuit)'
  BY <1>1 DEF DestroyProgress, LoopsEndByQuit
<1> QED
  BY <1>5, <1>6, <1>7, <1>8

LEMMA StartDoneInv == ASSUME PoolInv, StartDone PROVE PoolInv'
<1> USE PoolAssumption DEF PoolInv, StartDone, ManagerGoes, workerVars
<1>1. PoolTypeOK'
  BY DEF PoolTypeOK, ManagerStates
<1>2. StartProgress'
  BY DEF PoolTypeOK, StartProgress, Starting
<1>3. (DestroyProgress /\ LoopsEndByQuit /\ LoopsAreOwn /\ Turns)'
  BY DEF DestroyProgress, LoopsEndByQuit, LoopsAreOwn, Turns, Turn, Starting, Destroying
<1> QED
  BY <1>1, <1>2, <1>3

LEMMA ModuloWraps ==
  ASSUME NEW n \in Nat, NEW k \in Nat, k < n
  PROVE  (k + 1) % n = IF k + 1 = n THEN 0 ELSE k + 1
OBVIOUS

\* getNextLoop() moves next_ past the loop whose count it raises, or back to the front
\* when every loop has had its turn.
LEMMA GetNextLoopInv ==
  ASSUME PoolInv, mpc = "started", getNextLoop, UNCHANGED workerVars
  PROVE  PoolInv'
<1> USE PoolAssumption DEF PoolInv, getNextLoop, workerVars
<1>1. Len(loops_) = num_threads_ /\ DOMAIN loops_ = 1..num_threads_
  BY DEF PoolTypeOK, StartProgress, Starting
<1>2. (StartProgress /\ DestroyProgress /\ LoopsEndByQuit /\ LoopsAreOwn)'
  BY DEF StartProgress, DestroyProgress, LoopsEndByQuit, LoopsAreOwn
<1>3. CASE loops_ = <<>>
  <2>1. next_' = next_ /\ NextLoop = 0 /\ DOMAIN loops_ = {}
    BY <1>3, NoIndexes DEF AdvanceNext, NextLoop
  <2>2. given' \in [Loops -> Nat]
    BY <2>1 DEF PoolTypeOK, Loops
  <2> QED
    BY <1>2, <2>1, <2>2 DEF PoolTypeOK, Turns, Starting
<1>4. CASE loops_ # <<>>
  <2>1. num_threads_ # 0 /\ next_ + 1 \in DOMAIN loops_ /\ next_ < num_threads_
    BY <1>1, <1>4 DEF PoolTypeOK
  <2>2. next_' = IF next_ + 1 = num_threads_ THEN 0 ELSE next_ + 1
    <3>1. next_ \in Nat /\ num_threads_ \in Nat /\ next_ < num_threads_
      BY <2>1 DEF PoolTypeOK
    <3>2. next_' = (next_ + 1) % num_threads_
      BY <1>4 DEF AdvanceNext
    <3> QED
      BY <3>1, <3>2, ModuloWraps
  <2>3. next_' \in Nat /\ next_' < num_threads_
    BY <2>1, <2>2 DEF PoolTypeOK
  <2>4. NextLoop = loops_[next_ + 1]
    BY <1>4 DEF NextLoop
  <2>5. \/ loops_[next_ + 1] = nullptr /\ given' = given
        \/ loops_[next_ + 1] = next_ + 1 /\ given' = [given EXCEPT ![next_ + 1] = @ + 1]
    BY <2>1, <2>4, <1>1 DEF LoopsAreOwn, PoolTypeOK, nullptr
  <2>6. DOMAIN loops_ \subseteq Loops
    BY <1>1 DEF PoolTypeOK, Loops
  <2>7. given' \in [Loops -> Nat]
    <3>1. next_ + 1 \in Loops /\ given \in [Loops -> Nat]
      BY <2>1, <2>6 DEF PoolTypeOK
    <3>2. CASE given' = [given EXCEPT ![next_ + 1] = @ + 1]
      BY <3>1, <3>2
    <3> QED
      BY <2>5, <3>1, <3>2
  <2>8. PoolTypeOK'
    BY <1>4, <2>3, <2>7 DEF PoolTypeOK
  <2>9. ASSUME NEW i \in DOMAIN loops_, NEW j \in DOMAIN loops_, loops_[i] = i, loops_[j] = j
        PROVE  (given[i] + Turn(j) = given[j] + Turn(i))'
    <3>1. given[i] + Turn(j) = given[j] + Turn(i)
      BY <2>9 DEF Turns
    <3>2. /\ given[i] \in Nat /\ given[j] \in Nat /\ i \in 1..num_threads_ /\ j \in 1..num_threads_
          /\ num_threads_ \in Nat /\ next_ \in Nat
      BY <1>1, <2>6, <2>9 DEF PoolTypeOK
    <3>3. /\ given'[i] = IF i = next_ + 1 THEN given[i] + 1 ELSE given[i]
          /\ given'[j] = IF j = next_ + 1 THEN given[j] + 1 ELSE given[j]
      BY <2>5, <2>6, <2>9, <3>2 DEF PoolTypeOK, nullptr
    <3> QED
      BY <2>1, <2>2, <3>1, <3>2, <3>3 DEF Turn
  <2>10. Turns'
    BY <2>9 DEF Turns, Starting
  <2> QED
    BY <1>2, <2>8, <2>10
<1> QED
  BY <1>3, <1>4

LEMMA DestroyPoolInv == ASSUME PoolInv, DestroyPool PROVE PoolInv'
<1> USE PoolAssumption DEF PoolInv, DestroyPool, ManagerGoes, workerVars
<1>1. PoolTypeOK'
  BY DEF PoolTypeOK, ManagerStates
<1>2. StartProgress'
  BY DEF PoolTypeOK, StartProgress, Starting
<1>3. DestroyProgress'
  BY DEF DestroyProgress, Destroying, Workers
<1>4. (LoopsEndByQuit /\ LoopsAreOwn /\ Turns)'
  BY DEF LoopsEndByQuit, LoopsAreOwn, Turns, Turn, Starting
<1> QED
  BY <1>1, <1>2, <1>3, <1>4

LEMMA DestroyThreadInv == ASSUME PoolInv, DestroyThread PROVE PoolInv'
<1> USE PoolAssumption DEF PoolInv, DestroyThread, ManagerGoes
<1>1. PoolTypeOK'
  BY DEF PoolTypeOK, ManagerStates, Workers
<1>2. StartProgress'
  BY DEF PoolTypeOK, StartProgress, Starting
<1>3. DestroyProgress'
  BY DEF DestroyProgress, Destroying
<1>4. (LoopsEndByQuit /\ LoopsAreOwn /\ Turns)'
  BY DEF LoopsEndByQuit, LoopsAreOwn, Turns, Turn, Starting
<1> QED
  BY <1>1, <1>2, <1>3, <1>4

LEMMA QuitSetInv == ASSUME PoolInv, QuitSet PROVE PoolInv'
<1> USE PoolAssumption DEF PoolInv, QuitSet, ManagerGoes
<1>1. at \in Workers /\ at \in exiting_ /\ at \in Loops
  BY DEF PoolTypeOK, DestroyProgress, Workers, Loops
<1>2. PoolTypeOK'
  BY <1>1 DEF PoolTypeOK, ManagerStates
<1>3. (StartProgress /\ DestroyProgress)'
  BY DEF StartProgress, DestroyProgress, Starting, Destroying
<1>4. (LoopsEndByQuit /\ LoopsAreOwn /\ Turns)'
  BY <1>1 DEF PoolTypeOK, LoopsEndByQuit, LoopsAreOwn, Turns, Turn, Starting
<1> QED
  BY <1>2, <1>3, <1>4

LEMMA QuitWakeInv == ASSUME PoolInv, QuitWake PROVE PoolInv'
<1> USE PoolAssumption DEF PoolInv, QuitWake, ManagerGoes, workerVars
<1>1. PoolTypeOK'
  BY DEF PoolTypeOK, ManagerStates
<1>2. (StartProgress /\ DestroyProgress)'
  BY DEF StartProgress, DestroyProgress, Starting, Destroying
<1>3. (LoopsEndByQuit /\ LoopsAreOwn /\ Turns)'
  BY DEF LoopsEndByQuit, LoopsAreOwn, Turns, Turn, Starting
<1> QED
  BY <1>1, <1>2, <1>3

\* Join is what makes every worker before `at` a dead one.
LEMMA JoinInv == ASSUME PoolInv, Join PROVE PoolInv'
<1> USE PoolAssumption DEF PoolInv, Join, ManagerGoes, workerVars
<1>1. PoolTypeOK'
  BY DEF PoolTypeOK, ManagerStates, DestroyProgress
<1>2. StartProgress'
  BY DEF StartProgress, Starting
<1>3. DestroyProgress'
  BY DEF PoolTypeOK, DestroyProgress, Destroying, Workers
<1>4. (LoopsEndByQuit /\ LoopsAreOwn /\ Turns)'
  BY DEF LoopsEndByQuit, LoopsAreOwn, Turns, Turn, Starting
<1> QED
  BY <1>1, <1>2, <1>3, <1>4

LEMMA DestroyDoneInv == ASSUME PoolInv, DestroyDone PROVE PoolInv'
<1> USE PoolAssumption DEF PoolInv, DestroyDone, ManagerGoes, workerVars
<1>1. PoolTypeOK'
  BY DEF PoolTypeOK, ManagerStates
<1>2. StartProgress'
  BY DEF StartProgress, Starting
<1>3. \A l \in Workers : lpc[l] \in {"unborn", "dead"}
  <2> SUFFICES ASSUME NEW l \in Workers, lpc[l] # "unborn" PROVE l < at /\ lpc[l] \in {"unborn", "dead"}
    OBVIOUS
  <2>1. l <= num_threads_
    BY DEF StartProgress, Starting
  <2> QED
    BY <2>1 DEF PoolTypeOK, DestroyProgress, Workers
<1>4. DestroyProgress'
  BY <1>3 DEF DestroyProgress, Destroying
<1>5. (LoopsEndByQuit /\ LoopsAreOwn /\ Turns)'
  BY DEF LoopsEndByQuit, LoopsAreOwn, Turns, Turn, Starting
<1> QED
  BY <1>1, <1>2, <1>4, <1>5

-----------------------------------------------------------------------------
(* The workers                                                             *)

\* A worker goes on from a state in which it exists to one that is no less advanced,
\* and its loop ends only after a quit().
LEMMA WorkerMoves ==
  ASSUME PoolInv, NEW l \in Workers, NEW from \in LoopStates, NEW to \in LoopStates,
         LoopGoes(l, from, to), UNCHANGED <<managerVars, exiting_>>,
         from \notin {"unborn", "dead"}, to # "unborn",
         to \in {"init", "ready"} => from = "init",
         userQuit \subseteq userQuit', userQuit' \subseteq Workers, lost' \subseteq Loops,
         quit_' \in [Loops -> BOOLEAN], loop_' \subseteq Workers,
         \A k \in Workers \ {l} : quit_'[k] = quit_[k] /\ (k \in loop_' <=> k \in loop_),
         quit_'[l] => quit_[l] \/ l \in userQuit',
         l \in loop_' <=> to \in Published,
         to \in {"returned", "nulled", "dead"} =>
           from \in {"returned", "nulled"} \/ quit_[l] \/ l \in exiting_
  PROVE  PoolInv'
<1> USE PoolAssumption DEF PoolInv, LoopGoes, managerVars
<1>1. l \in Loops /\ lpc[l] = from /\ lpc' = [lpc EXCEPT ![l] = to] /\ lpc \in [Loops -> LoopStates]
  BY DEF PoolTypeOK, Workers, Loops
<1>2. lpc' \in [Loops -> LoopStates] /\ lpc'[l] = to /\ \A k \in Loops \ {l} : lpc'[k] = lpc[k]
  BY <1>1
<1>3. PoolTypeOK'
  BY <1>2 DEF PoolTypeOK
<1>4. StartProgress'
  BY <1>1, <1>2 DEF StartProgress, PoolTypeOK, Workers, Loops
<1>5. DestroyProgress'
  BY <1>1, <1>2 DEF DestroyProgress, PoolTypeOK, Workers, Loops
<1>6. LoopsEndByQuit'
  BY <1>1, <1>2 DEF LoopsEndByQuit, Workers, Loops
<1>7. (LoopsAreOwn /\ Turns)'
  BY DEF LoopsAreOwn, Turns, Turn
<1> QED
  BY <1>3, <1>4, <1>5, <1>6, <1>7

\* ThreadFunc(), step by step.
LEMMA WorkerInv ==
  ASSUME PoolInv, NEW l \in Workers, WorkerStep(l) \/ LoopReturn(l)
  PROVE  PoolInv'
<1> USE DEF managerVars, LoopGoes, LoopStates, Published
<1>1. /\ l \in Loops /\ quit_ \in [Loops -> BOOLEAN] /\ lost \subseteq Loops
      /\ userQuit \subseteq Workers /\ loop_ \subseteq Workers
      /\ l \in loop_ <=> lpc[l] \in Published
  BY DEF PoolInv, PoolTypeOK, LoopsEndByQuit, Workers, Loops
<1>2. ASSUME NEW quits \in BOOLEAN, InitCallback(l, quits) PROVE PoolInv'
  <2>1. quit_' \in [Loops -> BOOLEAN] /\ \A k \in Workers \ {l} : quit_'[k] = quit_[k]
    BY <1>1, <1>2 DEF InitCallback
  <2>2. quit_'[l] => l \in userQuit'
    BY <1>1, <1>2 DEF InitCallback
  <2> QED
    BY <1>1, <1>2, <2>1, <2>2, WorkerMoves DEF InitCallback
<1>3. CASE Publish(l)
  <2>1. CASE l \in exiting_
    BY <1>1, <1>3, <2>1, WorkerMoves DEF Publish
  <2>2. CASE l \notin exiting_
    BY <1>1, <1>3, <2>2, WorkerMoves DEF Publish
  <2> QED
    BY <2>1, <2>2
<1>4. CASE LoopEnter(l)
  <2>1. CASE quit_[l]
    BY <1>1, <1>4, <2>1, WorkerMoves DEF LoopEnter
  <2>2. CASE ~quit_[l]
    BY <1>1, <1>4, <2>2, WorkerMoves DEF LoopEnter
  <2> QED
    BY <2>1, <2>2
<1>5. CASE LoopStart(l)
  <2>1. quit_' \in [Loops -> BOOLEAN] /\ ~quit_'[l] /\ \A k \in Workers \ {l} : quit_'[k] = quit_[k]
    BY <1>1, <1>5 DEF LoopStart
  <2> QED
    BY <1>1, <1>5, <2>1, WorkerMoves DEF LoopStart
<1>6. CASE LoopReturn(l)
  BY <1>1, <1>6, WorkerMoves DEF LoopReturn
<1>7. CASE ResetLoop(l)
  BY <1>1, <1>7, WorkerMoves DEF ResetLoop
<1>8. CASE ThreadEnd(l)
  BY <1>1, <1>8, WorkerMoves DEF ThreadEnd
<1> QED
  BY <1>2, <1>3, <1>4, <1>5, <1>6, <1>7, <1>8 DEF WorkerStep

\* A quit() from user code is remembered in userQuit.
LEMMA UserQuitInv == ASSUME PoolInv, NEW l \in Workers, UserQuit(l) PROVE PoolInv'
<1> USE PoolAssumption DEF PoolInv, UserQuit, managerVars
<1>1. l \in Loops
  BY DEF Workers, Loops
<1>2. PoolTypeOK'
  BY <1>1 DEF PoolTypeOK
<1>3. LoopsEndByQuit'
  BY <1>1 DEF PoolTypeOK, LoopsEndByQuit
<1>4. (StartProgress /\ DestroyProgress /\ LoopsAreOwn /\ Turns)'
  BY DEF StartProgress, DestroyProgress, LoopsAreOwn, Turns, Turn
<1> QED
  BY <1>2, <1>3, <1>4

\* What the base loop does is nothing to the pool.
LEMMA BaseInv ==
  ASSUME PoolInv, UNCHANGED <<managerVars, loop_, exiting_, userQuit>>,
         lpc' \in [Loops -> LoopStates], quit_' \in [Loops -> BOOLEAN], lost' \subseteq Loops,
         \A l \in Workers : lpc'[l] = lpc[l] /\ quit_'[l] = quit_[l]
  PROVE  PoolInv'
<1> USE PoolAssumption DEF PoolInv, managerVars
<1>1. PoolTypeOK'
  BY DEF PoolTypeOK
<1>2. StartProgress'
  BY DEF StartProgress, PoolTypeOK, Workers
<1>3. (DestroyProgress /\ LoopsEndByQuit /\ LoopsAreOwn /\ Turns)'
  BY DEF DestroyProgress, LoopsEndByQuit, LoopsAreOwn, Turns, Turn
<1> QED
  BY <1>1, <1>2, <1>3

LEMMA PoolUnchanged == ASSUME PoolInv, UNCHANGED poolVars PROVE PoolInv'
<1>1. UNCHANGED <<managerVars, workerVars>>
  BY DEF poolVars
<1> QED
  BY <1>1, BaseInv DEF PoolInv, PoolTypeOK, managerVars, workerVars

LEMMA ManagerInv == ASSUME PoolInv, ManagerStep PROVE PoolInv'
BY StartLoopInv, StartLoopWaitInv, StartLoopReturnInv, StartDoneInv, DestroyThreadInv,
   QuitSetInv, QuitWakeInv, JoinInv, DestroyDoneInv
DEF ManagerStep

LEMMA PoolInvStep == PoolInv /\ [PoolNext]_poolVars => PoolInv'
<1> SUFFICES ASSUME PoolInv, [PoolNext]_poolVars PROVE PoolInv'
  OBVIOUS
<1>1. CASE UseLoop
  BY <1>1, GetNextLoopInv DEF UseLoop
<1> QED
  BY <1>1, PoolUnchanged, StartInv, DestroyPoolInv, ManagerInv, WorkerInv, UserQuitInv DEF PoolNext

-----------------------------------------------------------------------------
(* What the invariant is for                                               *)

LEMMA PoolInvImplies ==
  ASSUME PoolInv
  PROVE  StartHandsOverLoop /\ PublishedLoopExists /\ RoundRobin
<1> USE PoolAssumption DEF PoolInv
<1>1. StartHandsOverLoop
  <2>1. mpc = "started" => Len(loops_) = num_threads_
    BY DEF StartProgress, Starting
  <2>2. ASSUME NEW i \in DOMAIN loops_, i \notin userQuit, i \notin exiting_
        PROVE  loops_[i] = i /\ i \in loop_ /\ lpc[i] \in {"created", "entered", "looping"}
    <3>1. i \in Workers /\ lpc[i] \in LoopStates /\ lpc[i] \notin {"unborn", "init", "ready"}
      BY DEF StartProgress, PoolTypeOK, Workers, Loops
    <3>2. lpc[i] \notin {"returned", "nulled", "dead"}
      BY <2>2, <3>1 DEF LoopsEndByQuit
    <3>3. lpc[i] \in {"created", "entered", "looping"}
      BY <3>1, <3>2 DEF LoopStates
    <3>4. i \in loop_
      BY <3>1, <3>3 DEF LoopsEndByQuit, Published
    <3>5. loops_[i] = i
      BY <2>2 DEF LoopsAreOwn
    <3> QED
      BY <3>3, <3>4, <3>5
  <2> QED
    BY <2>1, <2>2 DEF StartHandsOverLoop
<1>2. PublishedLoopExists
  BY DEF PublishedLoopExists, PoolTypeOK, LoopsEndByQuit, Published
<1>3. RoundRobin
  <2> SUFFICES ASSUME NEW i \in 1..Len(loops_), NEW j \in 1..Len(loops_),
                      nullptr \notin {loops_[i], loops_[j]}
               PROVE  given[i] <= given[j] + 1
    BY DEF RoundRobin
  <2>1. i \in DOMAIN loops_ /\ j \in DOMAIN loops_
    BY DEF PoolTypeOK
  <2>2. given[i] + Turn(j) = given[j] + Turn(i)
    BY <2>1 DEF Turns, LoopsAreOwn
  <2>3. given[i] \in Nat /\ given[j] \in Nat
    BY <2>1 DEF PoolTypeOK, StartProgress, Workers, Loops
  <2> QED
    BY <2>2, <2>3 DEF Turn
<1> QED
  BY <1>1, <1>2, <1>3

LEMMA PoolInvAlways == PoolSpec => []PoolInv
BY PoolInvInit, PoolInvStep, PTL DEF PoolSpec

\* The manager, the workers and their loops stay where the code can be, for any number of
\* threads.
THEOREM PoolTypeCorrect == PoolSpec => []PoolTypeOK
<1>1. PoolInv => PoolTypeOK
  BY DEF PoolInv
<1> QED
  BY <1>1, PoolInvAlways, PTL

\* However many threads a pool has and whenever user code quits their loops, start()
\* returns the worker's own, running loop, or one that user code quit
\* (EventLoopThread.cc:30-75, EventLoopThreadPool.cc:31-46).
THEOREM StartCorrect == PoolSpec => []StartHandsOverLoop
<1>1. PoolInv => StartHandsOverLoop
  BY PoolInvImplies
<1> QED
  BY <1>1, PoolInvAlways, PTL

\* Wherever the destructor and the workers have come, loop_ never points to a destroyed
\* EventLoop (EventLoopThread.cc:17-53).
THEOREM PublishedCorrect == PoolSpec => []PublishedLoopExists
<1>1. PoolInv => PublishedLoopExists
  BY PoolInvImplies DEF PoolInv
<1> QED
  BY <1>1, PoolInvAlways, PTL

\* getNextLoop() never gives one loop two connections more than another, for any number of
\* loops and of calls (EventLoopThreadPool.cc:48-61).
THEOREM RoundRobinCorrect == PoolSpec => []RoundRobin
<1>1. PoolInv => RoundRobin
  BY PoolInvImplies DEF PoolInv
<1> QED
  BY <1>1, PoolInvAlways, PTL
=============================================================================

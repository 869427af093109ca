--------------------------- MODULE TcpServerProofs ---------------------------
(***************************************************************************)
(* A server with any number of worker loops, connections and descriptors,  *)
(* whose users leave the workers' loops alone (~MayQuit): no poller holds  *)
(* a connection that is gone, nothing is queued on a loop that is gone,    *)
(* and the server outlives what is called on it.                           *)
(***************************************************************************)
EXTENDS TcpServer, EventLoopThreadPoolProofs, SequenceTheorems

\* Which stages of the server, the pool and the base loop go together.
Stages ==
  /\ spc = "new" => mpc = "idle"
  /\ spc = "starting" => mpc \in Starting \cup {"started"}
  /\ spc \in {"up", "map"} => mpc = "started"
  /\ spc = "pool" => mpc \in Destroying
  /\ spc = "gone" => mpc = "gone"
  /\ lpc[0] \in {"created", "entered", "looping", "returned", "dead"}
  /\ spc \in {"map", "pool", "gone"} => lpc[0] \in {"returned", "dead"}
  /\ lpc[0] = "dead" => spc = "gone"
  /\ listening_ => spc \in {"up", "map", "pool"}
  /\ userQuit = {}

\* Outside their rounds, and in the poll, loops have no vector of functors.
Rounds ==
  \A l \in Loops :
    /\ lpc[l] # "looping" \/ rnd[l] = "poll" => tasks[l] = <<>> /\ done[l] = 0
    /\ busy[l] # 0 => lpc[l] = "looping" /\ rnd[l] = "poll"

\* The functors that a loop can meet: the server's own are for the base loop.
Meant(l, f) ==
  /\ f.op = "listen" => spc \notin {"new", "starting"}
  /\ f.op # "listen" => f.conn \in 1..(next_conn_id_ - 1)
  /\ f.op \in {"listen", "removeConnectionInLoop"} => l = 0

Accepted ==
  /\ next_conn_id_ + waiting <= MaxConns + 1
  /\ channels_ \cup connection_map_ \subseteq 1..(next_conn_id_ - 1)
  /\ \A l \in Loops :
       /\ busy[l] < next_conn_id_
       /\ \A i \in DOMAIN tasks[l] : Meant(l, tasks[l][i])
       /\ \A i \in DOMAIN pendingFunctors_[l] : Meant(l, pendingFunctors_[l][i])
  /\ \A c \in 1..(next_conn_id_ - 1) : ioloop[c] = 0 \/ ioloop[c] \in DOMAIN loops_

End(c) == Functor("connectionDestroyed", c)

\* The functor is in the queue of l behind position k, or in its vector.
QueuedAfter(l, k, f) == \E i \in DOMAIN pendingFunctors_[l] : i > k /\ pendingFunctors_[l][i] = f
RunsAfter(l, k, f) == \E i \in DOMAIN tasks[l] : i > k /\ tasks[l][i] = f

\* A watched connection is in the map, or its loop has connectionDestroyed still to run.
WatchedWillEnd ==
  \A c \in channels_ :
    \/ c \in connection_map_
    \/ RunsAfter(ioloop[c], done[ioloop[c]], End(c))
    \/ QueuedAfter(ioloop[c], 0, End(c))

\* connectionEstablished comes ahead of connectionDestroyed, on the connection's loop.
EstablishedComesFirst ==
  \A l \in Loops :
    /\ \A i \in DOMAIN tasks[l] :
         i > done[l] /\ tasks[l][i].op = "connectionEstablished" =>
           /\ ioloop[tasks[l][i].conn] = l
           /\ \/ tasks[l][i].conn \in connection_map_
              \/ RunsAfter(l, i, End(tasks[l][i].conn))
              \/ QueuedAfter(l, 0, End(tasks[l][i].conn))
    /\ \A i \in DOMAIN pendingFunctors_[l] :
         pendingFunctors_[l][i].op = "connectionEstablished" =>
           /\ ioloop[pendingFunctors_[l][i].conn] = l
           /\ \/ pendingFunctors_[l][i].conn \in connection_map_
              \/ QueuedAfter(l, i, End(pendingFunctors_[l][i].conn))

\* The conjunction that is inductive.
ServerInv ==
  /\ TypeOK
  /\ PoolInv
  /\ Stages
  /\ Rounds
  /\ Accepted
  /\ WatchedWillEnd
  /\ EstablishedComesFirst
  /\ QueuesHaveLoops

-----------------------------------------------------------------------------
(* Queues                                                                  *)

LEMMA FunctorType ==
  ASSUME NEW op \in Ops, NEW c \in 0..MaxConns
  PROVE  Functor(op, c) \in Functors /\ Functor(op, c).op = op /\ Functor(op, c).conn = c
BY DEF Functor, Functors

LEMMA EndFunctor ==
  ASSUME NEW c \in 0..MaxConns
  PROVE  /\ End(c) \in Functors /\ End(c).op = "connectionDestroyed" /\ End(c).conn = c
BY FunctorType DEF End, Ops

\* queueInLoop appends one functor to one queue.
LEMMA Enqueued ==
  ASSUME TypeOK, NEW l \in Loops, NEW f \in Functors, queueInLoop(l, f)
  PROVE  /\ pendingFunctors_' \in [Loops -> Seq(Functors)]
         /\ \A k \in Loops : k # l => pendingFunctors_'[k] = pendingFunctors_[k]
         /\ \A k \in Loops : \A i \in DOMAIN pendingFunctors_[k] :
              i \in DOMAIN pendingFunctors_'[k] /\ pendingFunctors_'[k][i] = pendingFunctors_[k][i]
         /\ DOMAIN pendingFunctors_'[l] = 1..(Len(pendingFunctors_[l]) + 1)
         /\ pendingFunctors_'[l][Len(pendingFunctors_[l]) + 1] = f
         /\ \A k \in Loops : \A i \in DOMAIN pendingFunctors_'[k] :
              \/ i \in DOMAIN pendingFunctors_[k] /\ pendingFunctors_'[k][i] = pendingFunctors_[k][i]
              \/ k = l /\ i = Len(pendingFunctors_[l]) + 1 /\ pendingFunctors_'[k][i] = f
<1> DEFINE p == pendingFunctors_[l]
<1>1. pendingFunctors_ \in [Loops -> Seq(Functors)] /\ p \in Seq(Functors)
  BY DEF TypeOK
<1>2. pendingFunctors_' = [pendingFunctors_ EXCEPT ![l] = Append(p, f)]
  BY DEF queueInLoop
<1> DEFINE n == Len(p) + 1
<1>3. /\ Append(p, f) \in Seq(Functors) /\ DOMAIN Append(p, f) = 1..n /\ Append(p, f)[n] = f
      /\ \A i \in DOMAIN p : i \in 1..n /\ i # n /\ Append(p, f)[i] = p[i]
      /\ \A i \in 1..n : i # n => i \in DOMAIN p
  <2> HIDE DEF p
  <2> QED
    BY <1>1, Appended
<1>4. pendingFunctors_'[l] = Append(p, f) /\ \A k \in Loops : k # l => pendingFunctors_'[k] = pendingFunctors_[k]
  BY <1>1, <1>2
<1>5. pendingFunctors_' \in [Loops -> Seq(Functors)]
  BY <1>1, <1>2, <1>3
<1> QED
  BY <1>3, <1>4, <1>5

\* What was queued is still there, and the new functor is behind it.
LEMMA QueueGrows ==
  ASSUME TypeOK, NEW l \in Loops, NEW f \in Functors, queueInLoop(l, f)
  PROVE  /\ \A k \in Loops, n \in Nat, g \in Functors : QueuedAfter(k, n, g) => QueuedAfter(k, n, g)'
         /\ \A n \in Nat : n <= Len(pendingFunctors_[l]) => QueuedAfter(l, n, f)'
<1>1. \A k \in Loops, n \in Nat, g \in Functors : QueuedAfter(k, n, g) => QueuedAfter(k, n, g)'
  BY Enqueued DEF QueuedAfter
<1>2. Len(pendingFunctors_[l]) \in Nat
  BY DEF TypeOK
<1>3. ASSUME NEW n \in Nat, n <= Len(pendingFunctors_[l]) PROVE QueuedAfter(l, n, f)'
  BY <1>2, <1>3, Enqueued DEF QueuedAfter
<1> QED
  BY <1>1, <1>3

\* Loop k has run its next functor, which ends or establishes no connection.
Passes(k) ==
  /\ done' = [done EXCEPT ![k] = @ + 1]
  /\ done[k] < Len(tasks[k])
  /\ tasks[k][done[k] + 1].op \notin {"connectionEstablished", "connectionDestroyed"}

\* The functor behind a position that the loop passes over without an end is still to run.
LEMMA StillToRun ==
  ASSUME TypeOK, tasks' = tasks, UNCHANGED done \/ (\E k \in Loops : Passes(k))
  PROVE  /\ \A l \in Loops : done'[l] \in Nat /\ done'[l] >= done[l]
         /\ \A l \in Loops, c \in 0..MaxConns :
              RunsAfter(l, done[l], End(c)) => RunsAfter(l, done[l], End(c))'
<1> USE DEF TypeOK
<1>1. \A l \in Loops : done[l] \in Nat
  OBVIOUS
<1>2. CASE UNCHANGED done
  BY <1>1, <1>2 DEF RunsAfter
<1>3. ASSUME NEW k \in Loops, Passes(k)
      PROVE  /\ \A l \in Loops : done'[l] \in Nat /\ done'[l] >= done[l]
             /\ \A l \in Loops, c \in 0..MaxConns :
                  RunsAfter(l, done[l], End(c)) => RunsAfter(l, done[l], End(c))'
  <2>1. done' = [done EXCEPT ![k] = done[k] + 1] /\ done \in [Loops -> Nat]
    BY <1>3 DEF Passes
  <2>2. \A l \in Loops : done'[l] = IF l = k THEN done[l] + 1 ELSE done[l]
    BY <2>1
  <2>3. \A l \in Loops : done'[l] \in Nat /\ done'[l] >= done[l]
    BY <1>1, <2>2, SMTT(30)
  <2>4. ASSUME NEW l \in Loops, NEW c \in 0..MaxConns, RunsAfter(l, done[l], End(c))
        PROVE  RunsAfter(l, done[l], End(c))'
    <3>1. PICK i \in DOMAIN tasks[l] : i > done[l] /\ tasks[l][i] = End(c)
      BY <2>4 DEF RunsAfter
    <3>2. l = k => i # done[l] + 1
      BY <1>3, <3>1, EndFunctor DEF Passes
    <3>3. i \in Nat
      BY <3>1
    <3>4. i > done'[l]
      <4> HIDE DEF TypeOK
      <4>1. done[l] \in Nat /\ i > done[l] /\ done'[l] = IF l = k THEN done[l] + 1 ELSE done[l]
        BY <1>1, <2>2, <3>1
      <4> QED
        BY <3>2, <3>3, <4>1
    <3> QED
      BY <3>1, <3>4 DEF RunsAfter, End, Functor
  <2> QED
    BY <2>3, <2>4
<1> QED
  BY <1>2, <1>3

\* A functor is queued, perhaps by another one that has just run: a connection leaves
\* the map only as its end is queued on its loop, and a new one is in the map as its
\* beginning is queued.
LEMMA QueueKeepsOrder ==
  ASSUME ServerInv, NEW l \in Loops, NEW f \in Functors, queueInLoop(l, f),
         tasks' = tasks, UNCHANGED done \/ (\E k \in Loops : Passes(k)),
         channels_' = channels_,
         \A c \in 1..(next_conn_id_ - 1) :
           /\ ioloop'[c] = ioloop[c]
           /\ c \in connection_map_ => c \in connection_map_' \/ (f = End(c) /\ l = ioloop[c]),
         f.op = "connectionEstablished" => ioloop'[f.conn] = l /\ f.conn \in connection_map_'
  PROVE  WatchedWillEnd' /\ EstablishedComesFirst'
<1> USE DEF ServerInv
<1> DEFINE Known == 1..(next_conn_id_ - 1)
<1>1. Known \subseteq 0..MaxConns /\ Known \subseteq Conns /\ \A c \in Known : ioloop[c] \in Loops
  BY ServerAssumption DEF TypeOK, Conns
<1>2. ASSUME NEW c \in channels_
      PROVE  \/ c \in connection_map_'
             \/ RunsAfter(ioloop[c], done[ioloop[c]], End(c))'
             \/ QueuedAfter(ioloop[c], 0, End(c))'
  <2>1. c \in Known
    BY <1>2 DEF Accepted
  <2> HIDE DEF Known
  <2>2. ioloop[c] \in Loops /\ ioloop'[c] = ioloop[c] /\ End(c) \in Functors
    BY <1>1, <2>1, EndFunctor DEF Known
  <2>3. \/ c \in connection_map_
        \/ RunsAfter(ioloop[c], done[ioloop[c]], End(c))
        \/ QueuedAfter(ioloop[c], 0, End(c))
    BY <1>2 DEF WatchedWillEnd
  <2>4. CASE c \in connection_map_
    <3>1. CASE f = End(c) /\ l = ioloop[c]
      <4>1. 0 <= Len(pendingFunctors_[l])
        BY DEF TypeOK
      <4>2. QueuedAfter(l, 0, f)'
        BY <4>1, QueueGrows
      <4> QED
        BY <3>1, <2>2, <4>2 DEF QueuedAfter
    <3> QED
      BY <2>1, <2>4, <3>1 DEF Known
  <2>5. CASE RunsAfter(ioloop[c], done[ioloop[c]], End(c))
    <3>1. RunsAfter(ioloop[c], done[ioloop[c]], End(c)) => \E i \in DOMAIN tasks'[ioloop[c]] : i > done'[ioloop[c]] /\ tasks'[ioloop[c]][i] = End(c)
      BY <1>1, <2>1, <2>2, StillToRun DEF RunsAfter
    <3> QED
      BY <2>2, <2>5, <3>1 DEF RunsAfter, End, Functor
  <2>6. CASE QueuedAfter(ioloop[c], 0, End(c))
    <3>1. \E i \in DOMAIN pendingFunctors_'[ioloop[c]] : i > 0 /\ pendingFunctors_'[ioloop[c]][i] = End(c)
      BY <2>2, <2>6, Enqueued DEF QueuedAfter
    <3> QED
      BY <2>2, <3>1 DEF QueuedAfter, End, Functor
  <2> QED
    BY <2>3, <2>4, <2>5, <2>6
<1>3. WatchedWillEnd'
  BY <1>2 DEF WatchedWillEnd
<1>4. ASSUME NEW k \in Loops, NEW i \in DOMAIN tasks[k], i > done'[k],
             tasks[k][i].op = "connectionEstablished"
      PROVE  /\ ioloop'[tasks[k][i].conn] = k
             /\ \/ tasks[k][i].conn \in connection_map_'
                \/ RunsAfter(k, i, End(tasks[k][i].conn))
                \/ \E j \in DOMAIN pendingFunctors_'[k] :
                     j > 0 /\ pendingFunctors_'[k][j] = End(tasks[k][i].conn)
  <2> DEFINE c == tasks[k][i].conn
  <2>1. c \in Known
    BY <1>4 DEF Accepted, Meant
  <2>2. i > done[k]
    BY <1>4, StillToRun, SMTT(30) DEF TypeOK
  <2>3. /\ ioloop[c] = k
        /\ c \in connection_map_ \/ RunsAfter(k, i, End(c)) \/ QueuedAfter(k, 0, End(c))
    BY <1>4, <2>2 DEF EstablishedComesFirst
  <2> HIDE DEF Known
  <2>4. ioloop'[c] = k /\ End(c) \in Functors
    BY <1>1, <2>1, <2>3, EndFunctor DEF Known
  <2> HIDE DEF c
  <2>5. CASE QueuedAfter(k, 0, End(c))
    BY <2>4, <2>5, Enqueued DEF QueuedAfter, c
  <2>6. CASE f = End(c) /\ l = k
    <3>1. Len(pendingFunctors_[l]) + 1 > 0
      BY DEF TypeOK
    <3> QED
      BY <2>4, <2>6, <3>1, Enqueued DEF c
  <2>7. c \in connection_map_ => c \in connection_map_' \/ (f = End(c) /\ l = k)
    BY <2>1, <2>3 DEF Known
  <2> QED
    BY <2>3, <2>4, <2>5, <2>6, <2>7 DEF c
<1>5. ASSUME NEW k \in Loops, NEW i \in DOMAIN pendingFunctors_'[k],
             pendingFunctors_'[k][i].op = "connectionEstablished"
      PROVE  /\ ioloop'[pendingFunctors_'[k][i].conn] = k
             /\ \/ pendingFunctors_'[k][i].conn \in connection_map_'
                \/ \E j \in DOMAIN pendingFunctors_'[k] :
                     j > i /\ pendingFunctors_'[k][j] = End(pendingFunctors_'[k][i].conn)
  <2> DEFINE c == pendingFunctors_'[k][i].conn
  <2>1. CASE k = l /\ i = Len(pendingFunctors_[l]) + 1 /\ pendingFunctors_'[k][i] = f
    BY <1>5, <2>1
  <2>2. CASE i \in DOMAIN pendingFunctors_[k] /\ pendingFunctors_'[k][i] = pendingFunctors_[k][i]
    <3>1. c \in Known
      BY <1>5, <2>2 DEF Accepted, Meant
    <3>2. ioloop[c] = k /\ (c \in connection_map_ \/ QueuedAfter(k, i, End(c)))
      BY <1>5, <2>2 DEF EstablishedComesFirst
    <3> HIDE DEF Known
    <3>3. ioloop'[c] = k /\ End(c) \in Functors
      BY <1>1, <3>1, <3>2, EndFunctor DEF Known
    <3> HIDE DEF c
    <3>4. CASE QueuedAfter(k, i, End(c))
      BY <3>3, <3>4, Enqueued DEF QueuedAfter, c
    <3>5. CASE f = End(c) /\ l = k
      <4>1. /\ Len(pendingFunctors_[l]) + 1 > i
            /\ Len(pendingFunctors_[l]) + 1 \in DOMAIN pendingFunctors_'[l]
            /\ pendingFunctors_'[l][Len(pendingFunctors_[l]) + 1] = f
        <5>1. pendingFunctors_[l] \in Seq(Functors) /\ i \in DOMAIN pendingFunctors_[l]
          BY <2>2, <3>5 DEF TypeOK
        <5> QED
          BY <5>1, Enqueued
      <4> QED
        BY <3>3, <3>5, <4>1 DEF c
    <3>6. c \in connection_map_ => c \in connection_map_' \/ (f = End(c) /\ l = k)
      BY <3>1, <3>2 DEF Known
    <3> QED
      BY <3>2, <3>3, <3>4, <3>5, <3>6 DEF c
  <2> QED
    BY <2>1, <2>2, Enqueued
<1>6. EstablishedComesFirst'
  BY <1>4, <1>5 DEF EstablishedComesFirst, RunsAfter, QueuedAfter, End, Functor
<1> QED
  BY <1>3, <1>6

LEMMA OrderUnchanged ==
  ASSUME WatchedWillEnd, EstablishedComesFirst, channels_' \subseteq channels_,
         UNCHANGED <<pendingFunctors_, tasks, done, ioloop, connection_map_>>
  PROVE  WatchedWillEnd' /\ EstablishedComesFirst'
<1>1. WatchedWillEnd'
  BY DEF WatchedWillEnd, RunsAfter, QueuedAfter, End, Functor
<1>2. EstablishedComesFirst'
  BY DEF EstablishedComesFirst, RunsAfter, QueuedAfter, End, Functor
<1> QED
  BY <1>1, <1>2

-----------------------------------------------------------------------------
(* Starting, and what the pool and the base loop do by themselves          *)

LEMMA ServerInvInit == Init => ServerInv
<1> SUFFICES ASSUME Init PROVE ServerInv
  OBVIOUS
<1> USE PoolAssumption, ServerAssumption DEF Init
<1>1. PoolInv
  BY PoolInvInit
<1>2. MaxConns \in Nat /\ MaxConns >= 1
  OBVIOUS
<1>3. TypeOK
  <2>1. 0 \in Loops /\ \A l \in Loops : Len(tasks[l]) = 0 /\ done[l] = 0
    BY DEF Loops
  <2>2. /\ pendingFunctors_ \in [Loops -> Seq(Functors)] /\ tasks \in [Loops -> Seq(Functors)]
        /\ rnd \in [Loops -> {"poll", "run"}] /\ done \in [Loops -> Nat]
    OBVIOUS
  <2>3. /\ busy \in [Loops -> 0..MaxConns] /\ ioloop \in [Conns -> Loops]
        /\ state_ \in [Conns -> {"none", "kConnecting", "kConnected", "kDisConnected"}]
    BY <1>2, <2>1
  <2> QED
    BY <1>1, <1>2, <2>1, <2>2, <2>3 DEF TypeOK, PoolInv
<1>4. Stages
  BY DEF Stages, PoolInit, Loops
<1>5. /\ \A l \in Loops : DOMAIN tasks[l] = {} /\ DOMAIN pendingFunctors_[l] = {}
      /\ \A l \in Loops : tasks[l] = <<>> /\ pendingFunctors_[l] = <<>> /\ done[l] = 0 /\ busy[l] = 0
  BY NoIndexes
<1>6. Rounds /\ QueuesHaveLoops
  BY <1>5 DEF Rounds, QueuesHaveLoops
<1>7. Accepted
  BY <1>2, <1>5 DEF Accepted
<1>8. WatchedWillEnd /\ EstablishedComesFirst
  BY <1>5 DEF WatchedWillEnd, EstablishedComesFirst
<1> QED
  BY <1>1, <1>3, <1>4, <1>6, <1>7, <1>8 DEF ServerInv

\* A step of the pool or of the base loop that leaves the rounds and queues alone.
LEMMA OnlyThreads ==
  ASSUME ServerInv, PoolInv', Stages',
         UNCHANGED <<starter, roundVars, pendingFunctors_, busy, connVars, mapVars, waiting>>,
         spc' \in {"new", "starting", "up", "map", "pool", "gone"}, listening_' \in BOOLEAN,
         spc \notin {"new", "starting"} => spc' \notin {"new", "starting"},
         DOMAIN loops_ \subseteq DOMAIN loops_',
         \A l \in Loops : \/ lpc'[l] = lpc[l]
                          \/ lpc[l] # "looping" /\ lpc'[l] \notin {"unborn", "dead"}
  PROVE  ServerInv'
<1> USE DEF ServerInv, roundVars, connVars, mapVars
<1>1. TypeOK'
  BY DEF TypeOK, PoolInv
<1>2. Rounds'
  BY DEF Rounds
<1>3. Accepted'
  BY DEF Accepted, Meant
<1>4. (WatchedWillEnd /\ EstablishedComesFirst)'
  BY OrderUnchanged
<1>5. QueuesHaveLoops'
  BY DEF QueuesHaveLoops
<1> QED
  BY <1>1, <1>2, <1>3, <1>4, <1>5

LEMMA ServerStartInv == ASSUME ServerInv, ServerStart PROVE ServerInv'
<1> USE DEF ServerInv, ServerStart, Start, ManagerGoes, workerVars, acceptVars
<1>1. PoolInv'
  BY StartInv
<1>2. Stages'
  BY DEF Stages, Starting
<1>3. listening_' \in BOOLEAN
  BY DEF TypeOK
<1> QED
  BY <1>1, <1>2, <1>3, OnlyThreads

\* A thread is born; nothing else in ManagerStep moves one.
LEMMA ManagerMoves ==
  ASSUME PoolInv, ManagerStep
  PROVE  /\ lpc'[0] = lpc[0] /\ userQuit' = userQuit
         /\ DOMAIN loops_ \subseteq DOMAIN loops_'
         /\ \A l \in Loops : lpc'[l] = lpc[l] \/ (lpc[l] = "unborn" /\ lpc'[l] = "init")
         /\ mpc \notin {"idle", "started", "gone"}
         /\ mpc \in Starting => mpc' \in Starting \cup {"started"}
         /\ mpc \in Destroying => mpc' \in Destroying
<1> USE DEF ManagerGoes, workerVars, Starting, Destroying
<1>1. CASE StartLoop
  <2>1. at \in Loops /\ at # 0 /\ lpc \in [Loops -> LoopStates]
    BY <1>1, PoolAssumption DEF StartLoop, PoolInv, PoolTypeOK, Loops
  <2> QED
    BY <1>1, <2>1 DEF StartLoop, LoopGoes
<1>2. CASE StartLoopReturn
  <2>1. loops_ \in Seq(Workers \cup {nullptr}) /\ loops_' \in Seq(Workers \cup {nullptr})
    BY <1>2, StartLoopReturnInv DEF PoolInv, PoolTypeOK
  <2>2. Len(loops_') = Len(loops_) + 1
    BY <1>2, <2>1 DEF StartLoopReturn
  <2>3. DOMAIN loops_ \subseteq DOMAIN loops_'
    BY <2>1, <2>2
  <2> QED
    BY <1>2, <2>3 DEF StartLoopReturn
<1>3. CASE StartLoopWait \/ StartDone
  BY <1>3 DEF StartLoopWait, StartDone
<1>4. CASE DestroyThread \/ QuitSet \/ QuitWake \/ Join \/ DestroyDone
  BY <1>4 DEF DestroyThread, QuitSet, QuitWake, Join, DestroyDone
<1> QED
  BY <1>1, <1>2, <1>3, <1>4 DEF ManagerStep

LEMMA PoolStepInv == ASSUME ServerInv, PoolStep PROVE ServerInv'
<1> USE DEF ServerInv, PoolStep, serverVars, lifeVars, acceptVars
<1>1. PoolInv'
  BY ManagerInv
<1>2. Stages'
  BY ManagerMoves DEF Stages
<1>3. spc' = spc /\ listening_' = listening_ /\ listening_ \in BOOLEAN
      /\ spc \in {"new", "starting", "up", "map", "pool", "gone"}
  BY DEF TypeOK
<1> QED
  BY <1>1, <1>2, <1>3, ManagerMoves, OnlyThreads

-----------------------------------------------------------------------------
(* What is queued, and on which loops                                      *)

\* Functor f is queued on loop l, perhaps by another functor that has just run.
QueueStep(l, f) ==
  /\ queueInLoop(l, f)
  /\ UNCHANGED <<starter, rnd, tasks, channels_, lpc, loops_>>
  /\ UNCHANGED done \/ (\E k \in Loops : Passes(k))
  /\ lpc[l] \notin {"unborn", "dead"}
  /\ spc \notin {"new", "starting"} => spc' \notin {"new", "starting"}
  /\ next_conn_id_ <= next_conn_id_' /\ next_conn_id_' + waiting' <= MaxConns + 1
  /\ Meant(l, f)'

\* The types of what such a step may change.
ConnTypeOK ==
  /\ spc \in {"new", "starting", "up", "map", "pool", "gone"}
  /\ listening_ \in BOOLEAN
  /\ busy \in [Loops -> 0..MaxConns]
  /\ ioloop \in [Conns -> Loops]
  /\ state_ \in [Conns -> {"none", "kConnecting", "kConnected", "kDisConnected"}]
  /\ next_conn_id_ \in 1..(MaxConns + 1)
  /\ waiting \in 0..MaxConns
  /\ connection_map_ \subseteq 1..(next_conn_id_ - 1)
  /\ \A k \in Loops : busy[k] # 0 => busy[k] < next_conn_id_ /\ lpc[k] = "looping" /\ rnd[k] = "poll"
  /\ \A c \in 1..(next_conn_id_ - 1) : ioloop[c] = 0 \/ ioloop[c] \in DOMAIN loops_

\* Connections leave the map with their end queued, and come to it with their beginning.
MapFollows(l, f) ==
  /\ \A c \in 1..(next_conn_id_ - 1) :
       /\ ioloop'[c] = ioloop[c]
       /\ c \in connection_map_ => c \in connection_map_' \/ (f = End(c) /\ l = ioloop[c])
  /\ f.op = "connectionEstablished" => ioloop'[f.conn] = l /\ f.conn \in connection_map_'

LEMMA Below ==
  ASSUME NEW m \in Nat, NEW n \in Nat, m <= n
  PROVE  1..(m - 1) \subseteq 1..(n - 1)
OBVIOUS

LEMMA UpTo ==
  ASSUME NEW m, NEW n \in Nat, m \in 1..(n + 1)
  PROVE  1..(m - 1) \subseteq 1..n
OBVIOUS

LEMMA DonePasses ==
  ASSUME TypeOK, UNCHANGED done \/ (\E k \in Loops : Passes(k))
  PROVE  /\ done' \in [Loops -> Nat] /\ \A k \in Loops : done'[k] <= Len(tasks[k])
         /\ \A k \in Loops : done'[k] = done[k] \/ tasks[k] # <<>>
<1>1. CASE UNCHANGED done
  BY <1>1 DEF TypeOK
<1>2. ASSUME NEW k \in Loops, Passes(k)
      PROVE  /\ done' \in [Loops -> Nat] /\ \A j \in Loops : done'[j] <= Len(tasks[j])
             /\ \A j \in Loops : done'[j] = done[j] \/ tasks[j] # <<>>
  <2>1. done \in [Loops -> Nat] /\ done[k] \in Nat /\ tasks[k] \in Seq(Functors)
    BY DEF TypeOK
  <2>2. done' = [done EXCEPT ![k] = done[k] + 1] /\ done[k] < Len(tasks[k])
    BY <1>2 DEF Passes
  <2>3. tasks[k] # <<>> /\ done[k] + 1 <= Len(tasks[k])
    BY <2>1, <2>2
  <2>4. \A j \in Loops : done[j] <= Len(tasks[j])
    BY DEF TypeOK
  <2>5. /\ done' \in [Loops -> Nat] /\ done'[k] = done[k] + 1
        /\ \A j \in Loops : j # k => done'[j] = done[j]
    BY <2>1, <2>2
  <2> QED
    BY <2>3, <2>4, <2>5
<1> QED
  BY <1>1, <1>2

LEMMA QueueStepInv ==
  ASSUME ServerInv, PoolInv', Stages', ConnTypeOK',
         NEW l \in Loops, NEW f \in Functors, QueueStep(l, f), MapFollows(l, f)
  PROVE  ServerInv'
<1> USE ServerAssumption DEF ServerInv
<1>0. MaxConns \in Nat /\ next_conn_id_ \in Nat /\ next_conn_id_' \in Nat
  BY DEF TypeOK, ConnTypeOK
<1>1. /\ done' \in [Loops -> Nat] /\ \A k \in Loops : done'[k] <= Len(tasks[k])
      /\ \A k \in Loops : done'[k] = done[k] \/ tasks[k] # <<>>
  BY DonePasses DEF QueueStep
<1>2. UNCHANGED <<starter, rnd, tasks, channels_, lpc, loops_>>
  BY DEF QueueStep
<1>3. TypeOK'
  <2>1. channels_' \subseteq Conns
    BY <1>2 DEF TypeOK
  <2>2. next_conn_id_' \in 1..(MaxConns + 1) /\ connection_map_' \subseteq 1..(next_conn_id_' - 1)
    BY DEF ConnTypeOK
  <2>3. 1..(next_conn_id_' - 1) \subseteq 1..MaxConns
    BY <1>0, <2>2, UpTo
  <2>4. connection_map_' \subseteq Conns
    BY <2>2, <2>3 DEF Conns
  <2>5. PoolTypeOK'
    BY DEF PoolInv
  <2>6. pendingFunctors_' \in [Loops -> Seq(Functors)]
    BY Enqueued DEF QueueStep
  <2>7. starter' \in {"main", "other"} /\ rnd' \in [Loops -> {"poll", "run"}]
        /\ tasks' \in [Loops -> Seq(Functors)]
    BY <1>2 DEF TypeOK
  <2> QED
    BY <1>1, <1>2, <2>1, <2>4, <2>5, <2>6, <2>7 DEF TypeOK, ConnTypeOK
<1>4. Rounds'
  <2>1. \A k \in Loops : lpc[k] # "looping" \/ rnd[k] = "poll" => tasks[k] = <<>> /\ done[k] = 0
    BY DEF Rounds
  <2> QED
    BY <1>1, <1>2, <2>1 DEF Rounds, ConnTypeOK
<1>5. Accepted'
  <2>1. 1..(next_conn_id_ - 1) \subseteq 1..(next_conn_id_' - 1)
    BY <1>0, Below DEF QueueStep
  <2>2. (channels_ \cup connection_map_)' \subseteq 1..(next_conn_id_' - 1)
    BY <1>2, <2>1 DEF Accepted, ConnTypeOK
  <2>3. \A k \in Loops, g \in Functors : Meant(k, g) => Meant(k, g)'
    BY <2>1 DEF Meant, QueueStep
  <2>4. \A k \in Loops : busy'[k] < next_conn_id_'
    BY <1>0 DEF ConnTypeOK
  <2>5. ASSUME NEW k \in Loops, NEW i \in DOMAIN tasks[k] PROVE Meant(k, tasks[k][i])'
    <3>1. Meant(k, tasks[k][i])
      BY DEF Accepted
    <3> QED
      BY <1>2, <2>1, <3>1 DEF Meant, QueueStep
  <2>6. ASSUME NEW k \in Loops, NEW i \in DOMAIN pendingFunctors_'[k]
        PROVE  Meant(k, pendingFunctors_[k][i])'
    <3>1. CASE i \in DOMAIN pendingFunctors_[k] /\ pendingFunctors_'[k][i] = pendingFunctors_[k][i]
      <4>1. Meant(k, pendingFunctors_[k][i])
        BY <3>1 DEF Accepted
      <4> QED
        BY <3>1, <4>1, <2>1 DEF Meant, QueueStep
    <3>2. CASE k = l /\ pendingFunctors_'[k][i] = f
      BY <3>2 DEF Meant, QueueStep
    <3> QED
      BY <3>1, <3>2, Enqueued DEF QueueStep
  <2>7. \A k \in Loops : \A i \in DOMAIN tasks'[k] : Meant(k, tasks[k][i])'
    BY <1>2, <2>5
  <2>8. next_conn_id_' + waiting' <= MaxConns + 1
    BY DEF QueueStep
  <2> QED
    BY <1>2, <2>2, <2>4, <2>6, <2>7, <2>8 DEF Accepted, ConnTypeOK
<1>6. (WatchedWillEnd /\ EstablishedComesFirst)'
  BY QueueKeepsOrder DEF QueueStep, MapFollows
<1>7. QueuesHaveLoops'
  <2> SUFFICES ASSUME NEW k \in Loops, pendingFunctors_'[k] # <<>> PROVE lpc[k] \notin {"unborn", "dead"}
    BY <1>2 DEF QueuesHaveLoops
  <2>1. CASE k # l
    <3>1. pendingFunctors_'[k] = pendingFunctors_[k]
      BY <2>1, Enqueued DEF QueueStep
    <3> QED
      BY <3>1 DEF QueuesHaveLoops
  <2> QED
    BY <2>1 DEF QueueStep
<1> QED
  BY <1>3, <1>4, <1>5, <1>6, <1>7

\* The loops exist while the base loop runs and while the destructor goes through the
\* map: the workers are quit only afterwards.
LEMMA LoopsExist ==
  ASSUME ServerInv, lpc[0] = "looping" \/ spc = "map"
  PROVE  /\ mpc \notin Destroying /\ lpc[0] \notin {"unborn", "dead"}
         /\ \A l \in DOMAIN loops_ : loops_[l] = l /\ l \in Loops /\ lpc[l] \notin {"unborn", "dead"}
<1> USE DEF ServerInv
<1>1. mpc \notin Destroying /\ lpc[0] \notin {"unborn", "dead"}
  BY DEF Stages, Starting, Destroying, TypeOK
<1>2. exiting_ = {} /\ userQuit = {}
  BY <1>1 DEF Stages, PoolInv, DestroyProgress
<1>3. \A l \in DOMAIN loops_ : loops_[l] = l /\ lpc[l] \in {"created", "entered", "looping"}
  BY <1>2, PoolInvImplies DEF StartHandsOverLoop
<1>4. \A l \in DOMAIN loops_ : l \in Loops
  BY PoolAssumption DEF PoolInv, StartProgress, Workers, Loops
<1> QED
  BY <1>1, <1>3, <1>4

LEMMA ConnectionHasLoop ==
  ASSUME ServerInv, lpc[0] = "looping" \/ spc = "map", NEW c \in 1..(next_conn_id_ - 1)
  PROVE  c \in Conns /\ ioloop[c] \in Loops /\ lpc[ioloop[c]] \notin {"unborn", "dead"}
<1>1. c \in Conns /\ ioloop[c] \in Loops
  BY ServerAssumption DEF ServerInv, TypeOK, Conns
<1>2. ioloop[c] = 0 \/ ioloop[c] \in DOMAIN loops_
  BY DEF ServerInv, Accepted
<1> QED
  BY <1>1, <1>2, LoopsExist

\* The base loop exists while a worker runs.
LEMMA BaseLoopExists ==
  ASSUME ServerInv, NEW l \in Loops, lpc[l] = "looping"
  PROVE  lpc[0] \notin {"unborn", "dead"}
<1> SUFFICES ASSUME lpc[0] = "dead" PROVE FALSE
  BY DEF ServerInv, Stages
<1>1. mpc = "gone"
  BY DEF ServerInv, Stages
<1>2. \A k \in Workers : lpc[k] \in {"unborn", "dead"}
  BY <1>1 DEF ServerInv, PoolInv, DestroyProgress
<1> QED
  BY <1>2 DEF Loops, Workers

LEMMA BaseIsALoop == 0 \in Loops
BY PoolAssumption DEF Loops

LEMMA ConnTypes == ASSUME ServerInv PROVE ConnTypeOK
<1> USE DEF ServerInv
<1>1. connection_map_ \subseteq 1..(next_conn_id_ - 1)
  BY DEF Accepted
<1>2. \A k \in Loops : busy[k] # 0 => busy[k] < next_conn_id_ /\ lpc[k] = "looping" /\ rnd[k] = "poll"
  BY DEF Accepted, Rounds
<1>3. \A c \in 1..(next_conn_id_ - 1) : ioloop[c] = 0 \/ ioloop[c] \in DOMAIN loops_
  BY DEF Accepted
<1> QED
  BY <1>1, <1>2, <1>3 DEF TypeOK, ConnTypeOK

\* What a step that leaves threads, pool and server alone keeps.
LEMMA StagesUnchanged ==
  ASSUME ServerInv, UNCHANGED <<poolVars, spc>>, listening_' => listening_ \/ spc = "up"
  PROVE  PoolInv' /\ Stages'
<1>1. PoolInv'
  BY PoolUnchanged DEF ServerInv
<1>2. Stages'
  BY DEF ServerInv, Stages, poolVars, managerVars, workerVars
<1> QED
  BY <1>1, <1>2

-----------------------------------------------------------------------------
(* The actions that queue something                                        *)

\* runInLoop(listen), in the base loop's thread or from another.
LEMMA ServerListenInv == ASSUME ServerInv, ServerListen PROVE ServerInv'
<1> USE DEF ServerInv, ServerListen
<1>1. PoolInv'
  BY PoolUnchanged
<1>2. spc' = "up" /\ UNCHANGED <<lpc, loops_, mpc, userQuit, starter, rnd, tasks, done, channels_,
                                 next_conn_id_, waiting, connection_map_, busy, ioloop, state_>>
  BY DEF poolVars, managerVars, workerVars, roundVars, connVars, mapVars
<1>3. Stages'
  BY <1>2 DEF Stages
<1>4. CASE starter = "main" /\ listen /\ UNCHANGED pendingFunctors_
  BY <1>1, <1>2, <1>3, <1>4, OnlyThreads DEF listen, roundVars, connVars, mapVars
<1>5. CASE starter = "other" /\ queueInLoop(0, Functor("listen", 0)) /\ UNCHANGED listening_
  <2> DEFINE f == Functor("listen", 0)
  <2>1. f \in Functors /\ f.op = "listen" /\ 0 \in Loops
    BY FunctorType, BaseIsALoop, ServerAssumption DEF Ops
  <2>2. queueInLoop(0, f)
    BY <1>5
  <2> HIDE DEF f
  <2>3. ConnTypeOK'
    <3>1. spc' \in {"new", "starting", "up", "map", "pool", "gone"}
      BY <1>2
    <3> QED
      BY <1>2, <1>5, <3>1, ConnTypes DEF ConnTypeOK
  <2>4. lpc[0] \notin {"unborn", "dead"}
    BY DEF Stages
  <2>5. next_conn_id_ <= next_conn_id_' /\ next_conn_id_' + waiting' <= MaxConns + 1
    BY <1>2 DEF TypeOK, Accepted
  <2>6. Meant(0, f)'
    BY <1>2, <2>1 DEF Meant
  <2>7. QueueStep(0, f)
    BY <1>2, <2>2, <2>4, <2>5, <2>6 DEF QueueStep
  <2>8. MapFollows(0, f)
    BY <1>2, <2>1 DEF MapFollows
  <2> QED
    BY <1>1, <1>3, <2>1, <2>3, <2>7, <2>8, QueueStepInv
<1> QED
  BY <1>4, <1>5

\* A connection is taken out of the map, and its end is queued on its loop.
LEMMA RemovalFollows ==
  ASSUME ServerInv, NEW c \in 1..(next_conn_id_ - 1),
         lpc[0] = "looping" \/ spc = "map",
         connection_map_' = connection_map_ \ {c},
         queueInLoop(ioloop[c], End(c)),
         UNCHANGED <<poolVars, starter, spc, rnd, tasks, channels_, ioloop, next_conn_id_, waiting>>,
         UNCHANGED done \/ (\E k \in Loops : Passes(k)),
         ConnTypeOK', listening_' = listening_
  PROVE  ServerInv'
<1>1. /\ c \in Conns /\ ioloop[c] \in Loops /\ lpc[ioloop[c]] \notin {"unborn", "dead"}
      /\ c \in 0..MaxConns
  BY ConnectionHasLoop, ServerAssumption DEF Conns
<1>2. End(c) \in Functors /\ End(c).op = "connectionDestroyed" /\ End(c).conn = c
  BY <1>1, EndFunctor
<1>3. PoolInv' /\ Stages'
  BY StagesUnchanged
<1>4. UNCHANGED <<lpc, loops_>>
  BY DEF poolVars, managerVars, workerVars
<1>5. next_conn_id_ <= next_conn_id_' /\ next_conn_id_' + waiting' <= MaxConns + 1
  BY DEF ServerInv, TypeOK, Accepted
<1>6. Meant(ioloop[c], End(c))'
  BY <1>2 DEF Meant, End, Functor
<1>7. QueueStep(ioloop[c], End(c))
  BY <1>1, <1>4, <1>5, <1>6 DEF QueueStep, Meant, End, Functor
<1>8. MapFollows(ioloop[c], End(c))
  <2>1. \A d \in 1..(next_conn_id_ - 1) :
          d \in connection_map_ => d \in connection_map_' \/ (End(c) = End(d) /\ ioloop[c] = ioloop[d])
    OBVIOUS
  <2> QED
    BY <1>2, <2>1 DEF MapFollows
<1> QED
  BY <1>1, <1>2, <1>3, <1>7, <1>8, QueueStepInv

\* ~TcpServer, for one connection.
LEMMA DestroyConnectionInv ==
  ASSUME ServerInv, NEW c \in Conns, DestroyConnection(c) PROVE ServerInv'
<1> USE DEF DestroyConnection, lifeVars, roundVars, connVars, acceptVars
<1>1. c \in 1..(next_conn_id_ - 1)
  BY DEF ServerInv, Accepted
<1>2. ConnTypeOK'
  <2>1. UNCHANGED <<lpc, loops_>>
    BY DEF poolVars, managerVars, workerVars
  <2> QED
    BY <2>1, ConnTypes DEF ConnTypeOK
<1> QED
  BY <1>1, <1>2, RemovalFollows DEF End

\* A connection closes, for the first or the second time.
LEMMA HandleCloseInv ==
  ASSUME ServerInv, NEW l \in Loops, NEW c \in 1..(next_conn_id_ - 1),
         lpc[l] = "looping", rnd[l] = "poll", handleClose(l, c),
         busy' = [busy EXCEPT ![l] = 0] \/ busy' = [busy EXCEPT ![l] = c]
  PROVE  ServerInv'
<1> USE DEF handleClose, lifeVars, roundVars, acceptVars
<1>1. UNCHANGED <<lpc, loops_>>
  BY DEF poolVars, managerVars, workerVars
<1>2. c \in Conns /\ c \in 0..MaxConns /\ c < next_conn_id_
  BY ServerAssumption DEF ServerInv, TypeOK, Conns
<1>3. /\ busy' \in [Loops -> 0..MaxConns]
      /\ \A k \in Loops : busy'[k] # 0 => busy'[k] < next_conn_id_ /\ lpc[k] = "looping" /\ rnd[k] = "poll"
  <2>1. busy \in [Loops -> 0..MaxConns] /\ 0 \in 0..MaxConns
    BY ServerAssumption DEF ServerInv, TypeOK
  <2>2. \A k \in Loops : busy'[k] = IF k = l THEN busy'[l] ELSE busy[k]
    BY <2>1
  <2>3. busy'[l] \in {0, c} /\ busy' \in [Loops -> 0..MaxConns]
    BY <1>2, <2>1
  <2> QED
    BY <1>2, <2>2, <2>3, ConnTypes DEF ConnTypeOK
<1>4. state_' \in [Conns -> {"none", "kConnecting", "kConnected", "kDisConnected"}]
  BY <1>2 DEF ServerInv, TypeOK
<1>5. connection_map_' \subseteq connection_map_
  BY DEF removeConnectionInLoop
<1>6. ConnTypeOK'
  <2>1. ConnTypeOK
    BY ConnTypes
  <2>2. connection_map_' \subseteq 1..(next_conn_id_' - 1)
    BY <1>5, <2>1 DEF ConnTypeOK
  <2> QED
    BY <1>1, <1>3, <1>4, <2>1, <2>2 DEF ConnTypeOK
<1>7. CASE l = 0
  BY <1>6, <1>7, RemovalFollows DEF removeConnectionInLoop, End
<1>8. CASE l # 0
  <2> DEFINE f == Functor("removeConnectionInLoop", c)
  <2>1. f \in Functors /\ f.op = "removeConnectionInLoop" /\ f.conn = c /\ 0 \in Loops
    BY <1>2, FunctorType, BaseIsALoop DEF Ops
  <2>2. queueInLoop(0, f) /\ UNCHANGED connection_map_
    BY <1>8
  <2> HIDE DEF f
  <2>3. PoolInv' /\ Stages'
    BY StagesUnchanged
  <2>4. next_conn_id_ <= next_conn_id_' /\ next_conn_id_' + waiting' <= MaxConns + 1
    BY DEF ServerInv, TypeOK, Accepted
  <2>5. Meant(0, f)'
    BY <2>1 DEF Meant
  <2>6. QueueStep(0, f)
    BY <1>1, <2>2, <2>4, <2>5, BaseLoopExists DEF QueueStep
  <2>7. MapFollows(0, f)
    BY <2>1, <2>2 DEF MapFollows
  <2> QED
    BY <1>6, <2>1, <2>3, <2>6, <2>7, QueueStepInv
<1> QED
  BY <1>7, <1>8

LEMMA CloseEventInv ==
  ASSUME ServerInv, NEW l \in Loops, NEW c \in Conns, CloseEvent(l, c) PROVE ServerInv'
<1>1. c \in 1..(next_conn_id_ - 1)
  BY DEF ServerInv, Accepted, CloseEvent
<1> QED
  BY <1>1, HandleCloseInv DEF CloseEvent, InPoll

LEMMA ErrorEventInv == ASSUME ServerInv, NEW l \in Loops, ErrorEvent(l) PROVE ServerInv'
<1>1. busy[l] \in 1..(next_conn_id_ - 1)
  BY ServerAssumption DEF ServerInv, TypeOK, Accepted, ErrorEvent
<1>2. lpc[l] = "looping" /\ rnd[l] = "poll"
  BY DEF ServerInv, Rounds, ErrorEvent
<1> QED
  BY <1>1, <1>2, HandleCloseInv DEF ErrorEvent

\* A new connection goes to the base loop or to a loop of the pool.
LEMMA AcceptInv == ASSUME ServerInv, Accept PROVE ServerInv'
<1> USE DEF Accept
<1>1. PICK c : c = next_conn_id_
  OBVIOUS
<1>2. PICK l : l = NextLoop
  OBVIOUS
<1> DEFINE f == Functor("connectionEstablished", c)
<1>3. /\ lpc[0] = "looping" /\ listening_ /\ waiting > 0 /\ mpc = "started"
      /\ \A k \in DOMAIN loops_ : loops_[k] = k /\ k \in Loops /\ lpc[k] \notin {"unborn", "dead"}
      /\ lpc[0] \notin {"unborn", "dead"}
  <2>1. lpc[0] = "looping" /\ listening_ /\ waiting > 0
    BY DEF InPoll
  <2>2. mpc = "started"
    BY <2>1 DEF ServerInv, Stages
  <2> QED
    BY <2>1, <2>2, LoopsExist
<1>4. l \in Loops /\ lpc[l] \notin {"unborn", "dead"} /\ (l = 0 \/ l \in DOMAIN loops_)
  <2>1. CASE loops_ = <<>>
    BY <1>2, <1>3, <2>1, BaseIsALoop DEF NextLoop
  <2>2. CASE loops_ # <<>>
    <3>1. next_ + 1 \in DOMAIN loops_
      BY <1>3, <2>2 DEF ServerInv, PoolInv, PoolTypeOK, StartProgress, Starting
    <3>2. NextLoop = next_ + 1
      BY <1>3, <2>2, <3>1 DEF NextLoop
    <3> QED
      BY <1>2, <1>3, <3>1, <3>2
  <2> QED
    BY <2>1, <2>2
<1>5. /\ MaxConns \in Nat /\ c \in 1..MaxConns /\ waiting \in 1..MaxConns
      /\ c + waiting <= MaxConns + 1
  <2>1. MaxConns \in Nat /\ c \in 1..(MaxConns + 1) /\ waiting \in 0..MaxConns
    BY <1>1, ServerAssumption DEF ServerInv, TypeOK
  <2>2. c + waiting <= MaxConns + 1 /\ waiting > 0
    BY <1>3, <1>1 DEF ServerInv, Accepted
  <2> QED
    BY <2>1, <2>2
<1>6. f \in Functors /\ f.op = "connectionEstablished" /\ f.conn = c /\ c \in Conns
  BY <1>5, FunctorType DEF Ops, Conns
<1>7. /\ next_conn_id_' = c + 1 /\ waiting' = waiting - 1
      /\ connection_map_' = connection_map_ \cup {c}
      /\ state_' = [state_ EXCEPT ![c] = "kConnecting"]
      /\ ioloop' = [ioloop EXCEPT ![c] = l]
      /\ queueInLoop(l, f)
  BY <1>2, <1>1 DEF newConnection
<1>8. UNCHANGED <<starter, spc, rnd, tasks, done, channels_, busy, lpc, quit_, loop_, exiting_, userQuit,
                  loops_, mpc, listening_>>
  BY DEF getNextLoop, workerVars, lifeVars, roundVars
<1>9. PoolInv'
  BY <1>3, GetNextLoopInv DEF ServerInv
<1>10. Stages'
  BY <1>8 DEF ServerInv, Stages
<1> HIDE DEF f
<1>11. \A d \in 1..(c - 1) : d # c /\ d \in Conns
  BY <1>5 DEF Conns
<1>12. \A d \in 1..c : d = c \/ d \in 1..(c - 1)
  BY <1>5
<1>13. /\ ioloop' \in [Conns -> Loops] /\ ioloop'[c] = l
       /\ \A d \in 1..(c - 1) : ioloop'[d] = ioloop[d]
  BY <1>4, <1>6, <1>7, <1>11 DEF ServerInv, TypeOK
<1>14. ConnTypeOK'
  <2>1. ConnTypeOK
    BY ConnTypes
  <2>2. next_conn_id_' \in 1..(MaxConns + 1) /\ waiting' \in 0..MaxConns /\ next_conn_id_' - 1 = c
    BY <1>5, <1>7
  <2>3. connection_map_' \subseteq 1..(next_conn_id_' - 1)
    <3>1. connection_map_ \subseteq 1..(c - 1)
      BY <1>1, <2>1 DEF ConnTypeOK
    <3>2. 1..(c - 1) \subseteq 1..c /\ c \in 1..c
      BY <1>5
    <3> QED
      BY <1>7, <2>2, <3>1, <3>2
  <2>4. \A d \in 1..(next_conn_id_' - 1) : ioloop'[d] = 0 \/ ioloop'[d] \in DOMAIN loops_
    BY <1>4, <1>1, <1>12, <1>13, <2>1, <2>2 DEF ConnTypeOK
  <2>5. \A k \in Loops : busy[k] # 0 => busy[k] < next_conn_id_' /\ lpc[k] = "looping" /\ rnd[k] = "poll"
    <3>1. \A k \in Loops : busy[k] \in Nat
      BY <2>1, <1>5 DEF ConnTypeOK
    <3>2. \A k \in Loops : busy[k] # 0 => busy[k] < c /\ lpc[k] = "looping" /\ rnd[k] = "poll"
      BY <1>1, <2>1 DEF ConnTypeOK
    <3> QED
      BY <1>5, <1>7, <3>1, <3>2
  <2>6. state_' \in [Conns -> {"none", "kConnecting", "kConnected", "kDisConnected"}]
    BY <1>6, <1>7, <2>1 DEF ConnTypeOK
  <2> QED
    BY <1>8, <1>13, <2>1, <2>2, <2>3, <2>4, <2>5, <2>6 DEF ConnTypeOK
<1>15. QueueStep(l, f)
  <2>1. next_conn_id_ <= next_conn_id_' /\ next_conn_id_' + waiting' <= MaxConns + 1
    BY <1>5, <1>7, <1>1
  <2>2. Meant(l, f)'
    <3>1. c \in 1..(next_conn_id_' - 1)
      BY <1>5, <1>7
    <3> QED
      BY <1>6, <3>1 DEF Meant
  <2> QED
    BY <1>4, <1>7, <1>8, <2>1, <2>2 DEF QueueStep
<1>16. MapFollows(l, f)
  BY <1>6, <1>7, <1>1, <1>13 DEF MapFollows
<1> QED
  BY <1>4, <1>6, <1>9, <1>10, <1>14, <1>15, <1>16, QueueStepInv

-----------------------------------------------------------------------------
(* The actions that queue nothing                                          *)

LEMMA QuietInv ==
  ASSUME ServerInv, PoolInv', Stages',
         UNCHANGED <<starter, roundVars, pendingFunctors_, connVars, mapVars, lpc, loops_>>,
         spc' \in {"new", "starting", "up", "map", "pool", "gone"}, listening_' \in BOOLEAN,
         spc \notin {"new", "starting"} => spc' \notin {"new", "starting"},
         waiting' \in 0..MaxConns, next_conn_id_ + waiting' <= MaxConns + 1,
         busy' \in [Loops -> 0..MaxConns], \A l \in Loops : busy'[l] \in {0, busy[l]}
  PROVE  ServerInv'
<1> USE DEF ServerInv, roundVars, connVars, mapVars
<1>1. TypeOK'
  BY DEF TypeOK, PoolInv
<1>2. Rounds'
  BY DEF Rounds
<1>3. Accepted'
  <2>1. 0 < next_conn_id_ /\ \A l \in Loops : busy[l] < next_conn_id_
    <3>1. next_conn_id_ \in 1..(MaxConns + 1)
      BY DEF TypeOK
    <3> QED
      BY <3>1, ServerAssumption DEF Accepted
  <2>2. \A l \in Loops : busy'[l] < next_conn_id_
    BY <2>1
  <2> QED
    BY <2>2 DEF Accepted, Meant
<1>4. (WatchedWillEnd /\ EstablishedComesFirst)'
  BY OrderUnchanged
<1>5. QueuesHaveLoops'
  BY DEF QueuesHaveLoops
<1> QED
  BY <1>1, <1>2, <1>3, <1>4, <1>5

LEMMA ClientConnectsInv == ASSUME ServerInv, ClientConnects PROVE ServerInv'
<1> USE DEF ClientConnects, lifeVars
<1>1. PoolInv' /\ Stages'
  BY StagesUnchanged
<1>2. UNCHANGED <<lpc, loops_>>
  BY DEF poolVars, managerVars, workerVars
<1>3. waiting' \in 0..MaxConns /\ next_conn_id_ + waiting' <= MaxConns + 1
  BY ServerAssumption DEF ServerInv, TypeOK
<1>4. /\ spc \in {"new", "starting", "up", "map", "pool", "gone"} /\ listening_ \in BOOLEAN
      /\ busy \in [Loops -> 0..MaxConns]
  BY DEF ServerInv, TypeOK
<1> QED
  BY <1>1, <1>2, <1>3, <1>4, QuietInv

LEMMA EventReturnsInv == ASSUME ServerInv, NEW l \in Loops, EventReturns(l) PROVE ServerInv'
<1> USE DEF EventReturns, lifeVars, acceptVars
<1>1. PoolInv' /\ Stages'
  BY StagesUnchanged
<1>2. UNCHANGED <<lpc, loops_>>
  BY DEF poolVars, managerVars, workerVars
<1>3. waiting' \in 0..MaxConns /\ next_conn_id_ + waiting' <= MaxConns + 1
  BY DEF ServerInv, TypeOK, Accepted
<1>4. spc \in {"new", "starting", "up", "map", "pool", "gone"} /\ listening_ \in BOOLEAN
  BY DEF ServerInv, TypeOK
<1>5. busy' \in [Loops -> 0..MaxConns] /\ \A k \in Loops : busy'[k] \in {0, busy[k]}
  BY ServerAssumption DEF ServerInv, TypeOK
<1> QED
  BY <1>1, <1>2, <1>3, <1>4, <1>5, QuietInv

LEMMA DestroyInv == ASSUME ServerInv, Destroy PROVE ServerInv'
<1> USE DEF ServerInv, Destroy, acceptVars
<1>1. PoolInv'
  BY PoolUnchanged
<1>2. UNCHANGED <<lpc, loops_, mpc, userQuit>>
  BY DEF poolVars, managerVars, workerVars
<1>3. Stages'
  BY <1>2 DEF Stages
<1>4. listening_' \in BOOLEAN
  BY DEF TypeOK
<1> QED
  BY <1>1, <1>2, <1>3, <1>4, OnlyThreads

LEMMA DestroyMembersInv == ASSUME ServerInv, DestroyMembers PROVE ServerInv'
<1> USE DEF ServerInv, DestroyMembers, acceptVars
<1>1. PoolInv'
  BY DestroyPoolInv
<1>2. UNCHANGED <<lpc, loops_, userQuit>> /\ mpc' = "dtor"
  BY DEF DestroyPool, ManagerGoes, workerVars
<1>3. Stages'
  BY <1>2 DEF Stages, Destroying
<1>4. listening_' \in BOOLEAN
  BY DEF TypeOK
<1> QED
  BY <1>1, <1>2, <1>3, <1>4, OnlyThreads

LEMMA DestroyAcceptorInv == ASSUME ServerInv, DestroyAcceptor PROVE ServerInv'
<1> USE DEF ServerInv, DestroyAcceptor
<1>1. PoolInv'
  BY PoolUnchanged
<1>2. UNCHANGED <<lpc, loops_, mpc, userQuit>>
  BY DEF poolVars, managerVars, workerVars
<1>3. Stages'
  BY <1>2 DEF Stages
<1>4. waiting' \in 0..MaxConns /\ next_conn_id_ + waiting' <= MaxConns + 1
  BY ServerAssumption DEF TypeOK
<1>5. busy \in [Loops -> 0..MaxConns]
  BY DEF TypeOK
<1> QED
  BY <1>1, <1>2, <1>3, <1>4, <1>5, QuietInv

\* The base loop comes to loop(), and may be told to quit.
LEMMA BaseEntersInv == ASSUME ServerInv, BaseEnters PROVE ServerInv'
<1> USE BaseIsALoop DEF ServerInv, BaseEnters, serverVars, lifeVars, acceptVars
<1>1. /\ lpc \in [Loops -> LoopStates] /\ quit_ \in [Loops -> BOOLEAN] /\ lost \subseteq Loops
      /\ \A l \in Workers : l \in Loops /\ l # 0
  BY DEF PoolInv, PoolTypeOK, Workers, Loops
<1>2. /\ lpc[0] \in {"created", "entered"} /\ lpc'[0] \in {"returned", "entered", "looping"}
      /\ lpc' = [lpc EXCEPT ![0] = lpc'[0]]
      /\ UNCHANGED <<managerVars, loop_, exiting_, userQuit>>
  BY <1>1 DEF LoopEnter, LoopStart, LoopGoes
<1>3. lpc' \in [Loops -> LoopStates] /\ \A l \in Loops : l # 0 => lpc'[l] = lpc[l]
  BY <1>1, <1>2 DEF LoopStates
<1>4. quit_' \in [Loops -> BOOLEAN] /\ \A l \in Workers : quit_'[l] = quit_[l]
  BY <1>1 DEF LoopEnter, LoopStart
<1>5. lost' \subseteq Loops
  BY <1>1 DEF LoopEnter, LoopStart
<1>6. PoolInv'
  BY <1>1, <1>2, <1>3, <1>4, <1>5, BaseInv
<1>7. Stages'
  BY <1>2 DEF Stages, managerVars
<1>8. spc' = spc /\ spc \in {"new", "starting", "up", "map", "pool", "gone"} /\ listening_' \in BOOLEAN
  BY DEF TypeOK
<1> QED
  BY <1>2, <1>3, <1>6, <1>7, <1>8, OnlyThreads DEF managerVars

LEMMA BaseQuitInv == ASSUME ServerInv, BaseQuit PROVE ServerInv'
<1> USE BaseIsALoop DEF ServerInv, BaseQuit, serverVars, lifeVars, acceptVars
<1>1. /\ lpc \in [Loops -> LoopStates] /\ quit_ \in [Loops -> BOOLEAN] /\ lost \subseteq Loops
      /\ \A l \in Workers : l \in Loops /\ l # 0
  BY DEF PoolInv, PoolTypeOK, Workers, Loops
<1>2. quit_' \in [Loops -> BOOLEAN] /\ \A l \in Workers : quit_'[l] = quit_[l]
  BY <1>1
<1>3. PoolInv'
  BY <1>1, <1>2, BaseInv
<1>4. Stages'
  BY DEF Stages, managerVars
<1>5. spc' = spc /\ spc \in {"new", "starting", "up", "map", "pool", "gone"} /\ listening_' \in BOOLEAN
  BY DEF TypeOK
<1> QED
  BY <1>3, <1>4, <1>5, OnlyThreads DEF managerVars

\* ~EventLoop takes the queue and the poller of its loop along, and no other's.
LEMMA LoopDies ==
  ASSUME ServerInv, PoolInv', Stages', NEW l \in Loops, lpc[l] # "looping",
         lpc' = [lpc EXCEPT ![l] = "dead"],
         pendingFunctors_' = [pendingFunctors_ EXCEPT ![l] = <<>>],
         channels_' = {c \in channels_ : ioloop[c] # l},
         UNCHANGED <<loops_, lifeVars, roundVars, busy, state_, ioloop, mapVars, acceptVars>>
  PROVE  ServerInv'
<1> USE DEF ServerInv, lifeVars, roundVars, mapVars, acceptVars
<1>1. /\ pendingFunctors_' \in [Loops -> Seq(Functors)] /\ pendingFunctors_'[l] = <<>>
      /\ \A k \in Loops : k # l => pendingFunctors_'[k] = pendingFunctors_[k]
  BY DEF TypeOK
<1>2. lpc'[l] = "dead" /\ \A k \in Loops : k # l => lpc'[k] = lpc[k]
  BY DEF PoolInv, PoolTypeOK
<1>3. tasks[l] = <<>> /\ DOMAIN tasks[l] = {} /\ DOMAIN pendingFunctors_'[l] = {}
  BY <1>1, NoIndexes DEF Rounds
<1>4. TypeOK'
  BY <1>1 DEF TypeOK, PoolInv
<1>5. Rounds'
  BY <1>2 DEF Rounds
<1>6. Accepted'
  <2>1. \A k \in Loops : \A i \in DOMAIN pendingFunctors_'[k] : Meant(k, pendingFunctors_'[k][i])
    BY <1>1, <1>3 DEF Accepted
  <2>2. next_conn_id_ + waiting <= MaxConns + 1 /\ channels_' \cup connection_map_ \subseteq 1..(next_conn_id_ - 1)
    BY DEF Accepted
  <2> QED
    BY <2>1, <2>2 DEF Accepted, Meant
<1>7. WatchedWillEnd'
  <2> SUFFICES ASSUME NEW c \in channels_, ioloop[c] # l
               PROVE  \/ c \in connection_map_
                      \/ RunsAfter(ioloop[c], done[ioloop[c]], End(c))
                      \/ \E i \in DOMAIN pendingFunctors_'[ioloop[c]] :
                           i > 0 /\ pendingFunctors_'[ioloop[c]][i] = End(c)
    BY DEF WatchedWillEnd, RunsAfter, QueuedAfter, End, Functor
  <2>1. ioloop[c] \in Loops
    BY DEF TypeOK
  <2> QED
    BY <1>1, <2>1 DEF WatchedWillEnd, QueuedAfter
<1>8. EstablishedComesFirst'
  <2> SUFFICES ASSUME NEW k \in Loops
               PROVE  /\ \A i \in DOMAIN tasks[k] :
                           i > done[k] /\ tasks[k][i].op = "connectionEstablished" =>
                             /\ ioloop[tasks[k][i].conn] = k
                             /\ \/ tasks[k][i].conn \in connection_map_
                                \/ RunsAfter(k, i, End(tasks[k][i].conn))
                                \/ QueuedAfter(k, 0, End(tasks[k][i].conn))'
                      /\ \A i \in DOMAIN pendingFunctors_'[k] :
                           pendingFunctors_'[k][i].op = "connectionEstablished" =>
                             /\ ioloop[pendingFunctors_'[k][i].conn] = k
                             /\ \/ pendingFunctors_'[k][i].conn \in connection_map_
                                \/ QueuedAfter(k, i, End(pendingFunctors_[k][i].conn))'
    BY DEF EstablishedComesFirst, RunsAfter, QueuedAfter, End, Functor
  <2>1. CASE k = l
    BY <1>3, <2>1
  <2>2. CASE k # l
    BY <1>1, <2>2 DEF EstablishedComesFirst, RunsAfter, QueuedAfter, End, Functor
  <2> QED
    BY <2>1, <2>2
<1>9. QueuesHaveLoops'
  BY <1>1, <1>2 DEF QueuesHaveLoops
<1> QED
  BY <1>4, <1>5, <1>6, <1>7, <1>8, <1>9

LEMMA BaseLoopDestroyedInv == ASSUME ServerInv, BaseLoopDestroyed PROVE ServerInv'
<1> USE BaseIsALoop DEF BaseLoopDestroyed
<1>1. /\ lpc \in [Loops -> LoopStates] /\ quit_ \in [Loops -> BOOLEAN] /\ lost \subseteq Loops
      /\ \A l \in Workers : l \in Loops /\ l # 0
  BY DEF ServerInv, PoolInv, PoolTypeOK, Workers, Loops
<1>2. lpc[0] = "returned" /\ lpc' = [lpc EXCEPT ![0] = "dead"]
  BY DEF LoopGoes
<1>3. lpc' \in [Loops -> LoopStates] /\ \A l \in Workers : lpc'[l] = lpc[l]
  BY <1>1, <1>2 DEF LoopStates
<1>4. PoolInv'
  BY <1>1, <1>3, BaseInv DEF ServerInv
<1>5. lpc'[0] = "dead"
  BY <1>1, <1>2
<1>6. Stages'
  BY <1>5 DEF ServerInv, Stages, managerVars, lifeVars, acceptVars
<1> QED
  BY <1>2, <1>4, <1>6, LoopDies DEF managerVars

\* A worker outside its rounds.
LEMMA WorkerLivesInv ==
  ASSUME ~MayQuit, ServerInv, NEW l \in Workers, WorkerLives(l) PROVE ServerInv'
<1> USE DEF WorkerLives
<1>1. l \in Loops /\ l # 0 /\ lpc \in [Loops -> LoopStates]
  BY DEF ServerInv, PoolInv, PoolTypeOK, Workers, Loops
<1>2. PoolInv'
  BY WorkerInv DEF ServerInv
<1>3. /\ lpc[l] \notin {"looping", "dead", "unborn"} /\ lpc'[l] # "unborn"
      /\ lpc' = [lpc EXCEPT ![l] = lpc'[l]]
      /\ UNCHANGED managerVars /\ userQuit' = userQuit
  BY <1>1 DEF WorkerStep, InitCallback, Publish, LoopEnter, LoopStart, ResetLoop, ThreadEnd, LoopGoes
<1>4. \A k \in Loops : k # l => lpc'[k] = lpc[k]
  BY <1>1, <1>3
<1>5. Stages'
  BY <1>1, <1>3, <1>4, BaseIsALoop DEF ServerInv, Stages, managerVars, lifeVars, acceptVars
<1>6. CASE lpc'[l] = "dead"
  BY <1>1, <1>2, <1>3, <1>5, <1>6, LoopDies DEF managerVars
<1>7. CASE lpc'[l] # "dead"
  <2>1. /\ spc' = spc /\ spc \in {"new", "starting", "up", "map", "pool", "gone"}
        /\ listening_' \in BOOLEAN /\ waiting' = waiting /\ starter' = starter
    BY DEF ServerInv, TypeOK, lifeVars, acceptVars
  <2>2. UNCHANGED <<pendingFunctors_, channels_, state_, ioloop>>
    BY <1>7
  <2> QED
    BY <1>2, <1>3, <1>4, <1>5, <1>7, <2>1, <2>2, OnlyThreads DEF managerVars, connVars
<1> QED
  BY <1>6, <1>7

-----------------------------------------------------------------------------
(* The rounds                                                              *)

\* The queue becomes the vector of the round, in its order.
LEMMA SwapInv == ASSUME ServerInv, NEW l \in Loops, Swap(l) PROVE ServerInv'
<1> USE DEF Swap, lifeVars, connVars, mapVars, acceptVars
<1>1. PoolInv' /\ Stages'
  BY StagesUnchanged
<1>2. UNCHANGED <<lpc, loops_>>
  BY DEF poolVars, managerVars, workerVars
<1>3. lpc[l] = "looping" /\ rnd[l] = "poll" /\ busy[l] = 0
  BY DEF InPoll
<1>4. /\ pendingFunctors_ \in [Loops -> Seq(Functors)] /\ tasks \in [Loops -> Seq(Functors)]
      /\ rnd \in [Loops -> {"poll", "run"}] /\ done[l] = 0 /\ tasks[l] = <<>>
  BY <1>3 DEF ServerInv, TypeOK, Rounds
<1>5. /\ pendingFunctors_'[l] = <<>> /\ tasks'[l] = pendingFunctors_[l]
      /\ rnd'[l] = "run" /\ rnd' \in [Loops -> {"poll", "run"}]
      /\ \A k \in Loops : k # l => /\ pendingFunctors_'[k] = pendingFunctors_[k]
                                   /\ tasks'[k] = tasks[k] /\ rnd'[k] = rnd[k]
  BY <1>4
<1>6. pendingFunctors_' \in [Loops -> Seq(Functors)] /\ tasks' \in [Loops -> Seq(Functors)]
  BY <1>4
<1>7. DOMAIN tasks[l] = {} /\ DOMAIN pendingFunctors_'[l] = {}
  BY <1>4, <1>5, NoIndexes
<1>8. TypeOK'
  <2>1. done[l] <= Len(pendingFunctors_[l])
    BY <1>4
  <2>2. \A k \in Loops : done'[k] <= Len(tasks'[k])
    BY <1>5, <2>1 DEF ServerInv, TypeOK
  <2> QED
    BY <1>1, <1>5, <1>6, <2>2 DEF ServerInv, TypeOK, PoolInv
<1>9. Rounds'
  BY <1>2, <1>3, <1>5 DEF ServerInv, Rounds
<1>10. Accepted'
  <2>1. \A k \in Loops : \A i \in DOMAIN pendingFunctors_'[k] : Meant(k, pendingFunctors_'[k][i])
    BY <1>5, <1>7 DEF ServerInv, Accepted
  <2>2. \A k \in Loops : \A i \in DOMAIN tasks'[k] : Meant(k, tasks'[k][i])
    BY <1>5 DEF ServerInv, Accepted
  <2> QED
    BY <1>2, <2>1, <2>2 DEF ServerInv, Accepted, Meant
<1>11. WatchedWillEnd'
  <2> SUFFICES ASSUME NEW c \in channels_
               PROVE  \/ c \in connection_map_
                      \/ \E i \in DOMAIN tasks'[ioloop[c]] :
                           i > done[ioloop[c]] /\ tasks'[ioloop[c]][i] = End(c)
                      \/ \E i \in DOMAIN pendingFunctors_'[ioloop[c]] :
                           i > 0 /\ pendingFunctors_'[ioloop[c]][i] = End(c)
    BY DEF WatchedWillEnd, RunsAfter, QueuedAfter, End, Functor
  <2>1. ioloop[c] \in Loops
    BY DEF ServerInv, TypeOK
  <2>2. \/ c \in connection_map_
        \/ RunsAfter(ioloop[c], done[ioloop[c]], End(c))
        \/ QueuedAfter(ioloop[c], 0, End(c))
    BY DEF ServerInv, WatchedWillEnd
  <2>3. CASE ioloop[c] = l
    BY <1>4, <1>5, <1>7, <2>2, <2>3 DEF RunsAfter, QueuedAfter
  <2>4. CASE ioloop[c] # l
    BY <1>5, <2>1, <2>2, <2>4 DEF RunsAfter, QueuedAfter
  <2> QED
    BY <2>3, <2>4
<1>12. EstablishedComesFirst'
  <2> SUFFICES ASSUME NEW k \in Loops
               PROVE  /\ \A i \in DOMAIN tasks'[k] :
                           i > done[k] /\ tasks'[k][i].op = "connectionEstablished" =>
                             /\ ioloop[tasks'[k][i].conn] = k
                             /\ \/ tasks'[k][i].conn \in connection_map_
                                \/ RunsAfter(k, i, End(tasks[k][i].conn))'
                                \/ QueuedAfter(k, 0, End(tasks[k][i].conn))'
                      /\ \A i \in DOMAIN pendingFunctors_'[k] :
                           pendingFunctors_'[k][i].op = "connectionEstablished" =>
                             /\ ioloop[pendingFunctors_'[k][i].conn] = k
                             /\ \/ pendingFunctors_'[k][i].conn \in connection_map_
                                \/ QueuedAfter(k, i, End(pendingFunctors_[k][i].conn))'
    BY DEF EstablishedComesFirst
  <2>1. CASE k = l
    BY <1>4, <1>5, <1>7, <2>1 DEF ServerInv, EstablishedComesFirst, RunsAfter, QueuedAfter, End, Functor
  <2>2. CASE k # l
    BY <1>5, <2>2 DEF ServerInv, EstablishedComesFirst, RunsAfter, QueuedAfter, End, Functor
  <2> QED
    BY <2>1, <2>2
<1>13. QueuesHaveLoops'
  BY <1>2, <1>3, <1>5 DEF ServerInv, QueuesHaveLoops
<1> QED
  BY <1>1, <1>8, <1>9, <1>10, <1>11, <1>12, <1>13 DEF ServerInv

\* A loop drops a vector of which everything has run, and may return from loop().
LEMMA EndRoundInv == ASSUME ServerInv, NEW l \in Loops, EndRound(l) PROVE ServerInv'
<1> USE DEF EndRound, lifeVars, connVars, mapVars, acceptVars
<1>1. /\ lpc \in [Loops -> LoopStates] /\ quit_ \in [Loops -> BOOLEAN] /\ lost \subseteq Loops
  BY DEF ServerInv, PoolInv, PoolTypeOK
<1>2. /\ \/ lpc'[l] = "returned" /\ rnd' = rnd
         \/ lpc'[l] = "looping" /\ rnd' = [rnd EXCEPT ![l] = "poll"]
      /\ lpc' = [lpc EXCEPT ![l] = lpc'[l]]
      /\ UNCHANGED <<managerVars, quit_, loop_, exiting_, userQuit, lost>>
  <2>1. CASE quit_[l]
    BY <1>1, <2>1 DEF LoopReturn, LoopGoes
  <2>2. CASE ~quit_[l]
    BY <1>1, <2>2 DEF poolVars, workerVars
  <2> QED
    BY <2>1, <2>2
<1>3. \A k \in Loops : k # l => lpc'[k] = lpc[k]
  BY <1>1, <1>2
<1>4. PoolInv'
  <2>1. CASE UNCHANGED poolVars
    BY <2>1, PoolUnchanged DEF ServerInv
  <2>2. CASE LoopReturn(l) /\ l \in Workers
    BY <2>2, WorkerInv DEF ServerInv
  <2>3. CASE LoopReturn(l) /\ l = 0
    <3>1. lpc' \in [Loops -> LoopStates]
      BY <1>1, <1>2 DEF LoopStates
    <3>2. \A k \in Workers : k \in Loops /\ k # l
      BY <2>3 DEF Workers, Loops
    <3> QED
      BY <1>1, <1>2, <1>3, <3>1, <3>2, BaseInv DEF ServerInv
  <2> QED
    BY <2>1, <2>2, <2>3, PoolAssumption DEF Workers, Loops
<1>5. Stages'
  BY <1>2, <1>3, BaseIsALoop DEF ServerInv, Stages, managerVars
<1>6. /\ tasks \in [Loops -> Seq(Functors)] /\ done \in [Loops -> Nat]
      /\ rnd \in [Loops -> {"poll", "run"}]
  BY DEF ServerInv, TypeOK
<1>7. /\ tasks'[l] = <<>> /\ tasks' \in [Loops -> Seq(Functors)]
      /\ done'[l] = 0 /\ done' \in [Loops -> Nat] /\ rnd' \in [Loops -> {"poll", "run"}]
      /\ \A k \in Loops : k # l => tasks'[k] = tasks[k] /\ done'[k] = done[k] /\ rnd'[k] = rnd[k]
  <2>1. /\ tasks'[l] = <<>> /\ tasks' \in [Loops -> Seq(Functors)]
        /\ \A k \in Loops : k # l => tasks'[k] = tasks[k]
    BY <1>6
  <2>2. done'[l] = 0 /\ done' \in [Loops -> Nat] /\ \A k \in Loops : k # l => done'[k] = done[k]
    BY <1>6
  <2>3. rnd' \in [Loops -> {"poll", "run"}] /\ \A k \in Loops : k # l => rnd'[k] = rnd[k]
    BY <1>2, <1>6
  <2> QED
    BY <2>1, <2>2, <2>3
<1>8. DOMAIN tasks'[l] = {} /\ \A i \in DOMAIN tasks[l] : ~(i > done[l])
  BY <1>6, <1>7, NoIndexes
<1>9. TypeOK'
  <2>1. \A k \in Loops : done'[k] <= Len(tasks'[k])
    BY <1>7 DEF ServerInv, TypeOK
  <2> QED
    BY <1>4, <1>7, <2>1 DEF ServerInv, TypeOK, PoolInv
<1>10. Rounds'
  <2>1. busy[l] = 0
    BY DEF ServerInv, Rounds
  <2> QED
    BY <1>3, <1>7, <2>1 DEF ServerInv, Rounds
<1>11. Accepted'
  <2>1. \A k \in Loops : \A i \in DOMAIN tasks'[k] : Meant(k, tasks'[k][i])
    BY <1>7, <1>8 DEF ServerInv, Accepted
  <2> QED
    BY <1>2, <2>1 DEF ServerInv, Accepted, Meant, managerVars
<1>12. WatchedWillEnd'
  <2> SUFFICES ASSUME NEW c \in channels_
               PROVE  \/ c \in connection_map_
                      \/ \E i \in DOMAIN tasks'[ioloop[c]] :
                           i > done'[ioloop[c]] /\ tasks'[ioloop[c]][i] = End(c)
                      \/ QueuedAfter(ioloop[c], 0, End(c))
    BY DEF WatchedWillEnd, RunsAfter, QueuedAfter, End, Functor
  <2>1. ioloop[c] \in Loops
    BY DEF ServerInv, TypeOK
  <2>2. \/ c \in connection_map_
        \/ RunsAfter(ioloop[c], done[ioloop[c]], End(c))
        \/ QueuedAfter(ioloop[c], 0, End(c))
    BY DEF ServerInv, WatchedWillEnd
  <2> QED
    BY <1>7, <1>8, <2>1, <2>2 DEF RunsAfter
<1>13. EstablishedComesFirst'
  <2>1. \A k \in Loops : \A i \in DOMAIN tasks'[k] :
          i > done'[k] /\ tasks'[k][i].op = "connectionEstablished" =>
            /\ ioloop[tasks'[k][i].conn] = k
            /\ \/ tasks'[k][i].conn \in connection_map_
               \/ RunsAfter(k, i, End(tasks[k][i].conn))'
               \/ QueuedAfter(k, 0, End(tasks[k][i].conn))'
    BY <1>7, <1>8 DEF ServerInv, EstablishedComesFirst, RunsAfter, QueuedAfter, End, Functor
  <2>2. \A k \in Loops : \A i \in DOMAIN pendingFunctors_[k] :
          pendingFunctors_[k][i].op = "connectionEstablished" =>
            /\ ioloop[pendingFunctors_[k][i].conn] = k
            /\ \/ pendingFunctors_[k][i].conn \in connection_map_
               \/ QueuedAfter(k, i, End(pendingFunctors_[k][i].conn))'
    BY DEF ServerInv, EstablishedComesFirst, QueuedAfter, End, Functor
  <2> QED
    BY <2>1, <2>2 DEF EstablishedComesFirst
<1>14. QueuesHaveLoops'
  BY <1>2, <1>3 DEF ServerInv, QueuesHaveLoops
<1> QED
  BY <1>4, <1>5, <1>9, <1>10, <1>11, <1>12, <1>13, <1>14 DEF ServerInv

\* A functor that queues nothing has run.
LEMMA TaskInv ==
  ASSUME ServerInv, NEW l \in Loops, NEW d, d = done[l] + 1, done[l] < Len(tasks[l]),
         done' = [done EXCEPT ![l] = @ + 1],
         UNCHANGED <<poolVars, lifeVars, rnd, tasks, busy, ioloop, next_conn_id_, waiting,
                     pendingFunctors_, connection_map_>>,
         listening_' \in BOOLEAN, listening_' => listening_ \/ spc = "up",
         state_' \in [Conns -> {"none", "kConnecting", "kConnected", "kDisConnected"}],
         channels_' \subseteq 1..(next_conn_id_ - 1),
         \A c \in channels_' :
           \/ c \in channels_ /\ tasks[l][d] # End(c)
           \/ /\ ioloop[c] = l
              /\ c \in connection_map_ \/ RunsAfter(l, d, End(c)) \/ QueuedAfter(l, 0, End(c))
  PROVE  ServerInv'
<1> USE DEF lifeVars
<1>1. PoolInv' /\ Stages'
  BY StagesUnchanged
<1>2. UNCHANGED <<lpc, loops_>>
  BY DEF poolVars, managerVars, workerVars
<1>3. /\ done \in [Loops -> Nat] /\ done[l] \in Nat /\ tasks[l] \in Seq(Functors)
      /\ \A k \in Loops : done[k] <= Len(tasks[k])
  BY DEF ServerInv, TypeOK
<1>4. /\ done' \in [Loops -> Nat] /\ done'[l] = d /\ d <= Len(tasks[l]) /\ d > done[l] /\ d \in Nat
      /\ \A k \in Loops : k # l => done'[k] = done[k]
  BY <1>3
<1>5. TypeOK'
  <2>1. \A k \in Loops : done'[k] <= Len(tasks[k])
    BY <1>3, <1>4
  <2>2. channels_' \subseteq Conns
    BY UpTo, ServerAssumption DEF ServerInv, TypeOK, Conns
  <2> QED
    BY <1>1, <1>4, <2>1, <2>2 DEF ServerInv, TypeOK, PoolInv
<1>6. Rounds'
  <2>1. tasks[l] # <<>>
    BY <1>3
  <2> QED
    BY <1>2, <1>4, <2>1 DEF ServerInv, Rounds
<1>7. Accepted'
  BY <1>2 DEF ServerInv, Accepted, Meant
<1>8. WatchedWillEnd'
  <2> SUFFICES ASSUME NEW c \in channels_'
               PROVE  \/ c \in connection_map_
                      \/ \E i \in DOMAIN tasks[ioloop[c]] :
                           i > done'[ioloop[c]] /\ tasks[ioloop[c]][i] = End(c)
                      \/ QueuedAfter(ioloop[c], 0, End(c))
    BY DEF WatchedWillEnd, RunsAfter, QueuedAfter, End, Functor
  <2>1. CASE /\ ioloop[c] = l
             /\ c \in connection_map_ \/ RunsAfter(l, d, End(c)) \/ QueuedAfter(l, 0, End(c))
    BY <1>4, <2>1 DEF RunsAfter
  <2>2. CASE c \in channels_ /\ tasks[l][d] # End(c)
    <3>1. ioloop[c] \in Loops
      BY <2>2 DEF ServerInv, TypeOK
    <3>2. CASE RunsAfter(ioloop[c], done[ioloop[c]], End(c))
      <4>1. PICK i \in DOMAIN tasks[ioloop[c]] : i > done[ioloop[c]] /\ tasks[ioloop[c]][i] = End(c)
        BY <3>2 DEF RunsAfter
      <4>2. CASE ioloop[c] = l
        <5>1. i # d /\ i \in Nat /\ i > done[l]
          BY <1>3, <2>2, <4>1, <4>2
        <5>2. i > d
          BY <1>3, <1>4, <5>1
        <5> QED
          BY <1>4, <4>1, <4>2, <5>2
      <4>3. CASE ioloop[c] # l
        BY <1>4, <3>1, <4>1, <4>3
      <4> QED
        BY <4>2, <4>3
    <3> QED
      BY <2>2, <3>2 DEF ServerInv, WatchedWillEnd
  <2> QED
    BY <2>1, <2>2
<1>9. EstablishedComesFirst'
  <2>1. \A k \in Loops : \A i \in DOMAIN tasks[k] : i > done'[k] => i > done[k]
    <3> SUFFICES ASSUME NEW k \in Loops, NEW i \in DOMAIN tasks[k], i > done'[k] PROVE i > done[k]
      OBVIOUS
    <3>1. CASE k # l
      BY <1>4, <3>1
    <3>2. CASE k = l
      <4>1. i \in Nat
        BY <1>3, <3>2
      <4> QED
        BY <1>3, <1>4, <3>2, <4>1
    <3> QED
      BY <3>1, <3>2
  <2>2. \A k \in Loops : \A i \in DOMAIN tasks[k] :
          i > done'[k] /\ tasks[k][i].op = "connectionEstablished" =>
            /\ ioloop[tasks[k][i].conn] = k
            /\ \/ tasks[k][i].conn \in connection_map_
               \/ RunsAfter(k, i, End(tasks[k][i].conn))
               \/ QueuedAfter(k, 0, End(tasks[k][i].conn))
    BY <2>1 DEF ServerInv, EstablishedComesFirst
  <2> QED
    BY <2>2 DEF ServerInv, EstablishedComesFirst, RunsAfter, QueuedAfter, End, Functor
<1>10. QueuesHaveLoops'
  BY <1>2 DEF ServerInv, QueuesHaveLoops
<1> QED
  BY <1>1, <1>5, <1>6, <1>7, <1>8, <1>9, <1>10 DEF ServerInv

\* The functor that a loop comes to is one that was meant for it.
LEMMA RunTaskInv == ASSUME ServerInv, NEW l \in Loops, RunTask(l) PROVE ServerInv'
<1> USE DEF RunTask
<1>1. PICK d : d = done[l] + 1
  OBVIOUS
<1>2. PICK f : f = tasks[l][d]
  OBVIOUS
<1>3. /\ lpc[l] = "looping" /\ done[l] \in Nat /\ done[l] < Len(tasks[l]) /\ tasks[l] \in Seq(Functors)
  BY DEF ServerInv, TypeOK
<1>4. d \in DOMAIN tasks[l] /\ d > done[l]
  BY <1>1, <1>3
<1>5. f \in Functors /\ Meant(l, f)
  BY <1>2, <1>3, <1>4 DEF ServerInv, Accepted
<1>6. f.op # "listen" => f.conn \in Conns /\ f.conn \in 1..(next_conn_id_ - 1)
  <2>1. next_conn_id_ \in 1..(MaxConns + 1)
    BY DEF ServerInv, TypeOK
  <2> QED
    BY <1>5, <2>1, UpTo, ServerAssumption DEF Meant, Conns
<1>7. CASE f.op = "connectionEstablished" /\ connectionEstablished(f.conn)
  <2>1. /\ ioloop[f.conn] = l
        /\ f.conn \in connection_map_ \/ RunsAfter(l, d, End(f.conn)) \/ QueuedAfter(l, 0, End(f.conn))
    BY <1>2, <1>4, <1>7 DEF ServerInv, EstablishedComesFirst
  <2>2. state_' \in [Conns -> {"none", "kConnecting", "kConnected", "kDisConnected"}]
    BY <1>6, <1>7 DEF connectionEstablished, ServerInv, TypeOK
  <2>3. channels_ \subseteq 1..(next_conn_id_ - 1) /\ channels_' = channels_ \cup {f.conn}
    BY <1>7 DEF connectionEstablished, ServerInv, Accepted
  <2>4. \A c \in channels_ : tasks[l][d] # End(c)
    BY <1>2, <1>7 DEF End, Functor
  <2>5. UNCHANGED <<pendingFunctors_, connection_map_, listening_>> /\ listening_ \in BOOLEAN
    BY <1>7 DEF connectionEstablished, ServerInv, TypeOK
  <2>6. channels_' \subseteq 1..(next_conn_id_ - 1)
    BY <1>6, <1>7, <2>3
  <2>7. \A c \in channels_' :
           \/ c \in channels_ /\ tasks[l][d] # End(c)
           \/ /\ ioloop[c] = l
              /\ c \in connection_map_ \/ RunsAfter(l, d, End(c)) \/ QueuedAfter(l, 0, End(c))
    BY <2>1, <2>3, <2>4
  <2> QED
    BY <1>1, <1>3, <2>2, <2>5, <2>6, <2>7, TaskInv
<1>8. CASE f.op = "connectionDestroyed" /\ connectionDestroyed(f.conn)
  <2>1. state_' \in [Conns -> {"none", "kConnecting", "kConnected", "kDisConnected"}]
    BY <1>6, <1>8 DEF connectionDestroyed, ServerInv, TypeOK
  <2>2. channels_' \subseteq 1..(next_conn_id_ - 1) /\ channels_' = channels_ \ {f.conn}
    BY <1>8 DEF connectionDestroyed, ServerInv, Accepted
  <2>3. \A c \in channels_' : tasks[l][d] # End(c)
    BY <1>2, <2>2 DEF End, Functor
  <2>4. UNCHANGED <<pendingFunctors_, connection_map_, listening_>> /\ listening_ \in BOOLEAN
    BY <1>8 DEF connectionDestroyed, ServerInv, TypeOK
  <2>5. \A c \in channels_' : c \in channels_ /\ tasks[l][d] # End(c)
    BY <2>2, <2>3
  <2> QED
    BY <1>1, <1>3, <2>1, <2>2, <2>4, <2>5, TaskInv, ZenonT(30)
<1>9. CASE /\ f.op = "removeConnectionInLoop"
           /\ removeConnectionInLoop(f.conn)
           /\ UNCHANGED <<state_, channels_, listening_>>
  <2>1. l = 0 /\ Passes(l)
    BY <1>1, <1>2, <1>3, <1>5, <1>9 DEF Meant, Passes
  <2>2. ConnTypeOK'
    <3>1. UNCHANGED <<lpc, loops_>>
      BY DEF poolVars, managerVars, workerVars
    <3>2. connection_map_' \subseteq connection_map_
      BY <1>9 DEF removeConnectionInLoop
    <3>3. ConnTypeOK
      BY ConnTypes
    <3>4. connection_map_' \subseteq 1..(next_conn_id_' - 1)
      BY <3>2, <3>3 DEF ConnTypeOK
    <3>5. spc' = spc
      BY DEF lifeVars
    <3> QED
      BY <1>9, <3>1, <3>3, <3>4, <3>5 DEF ConnTypeOK
  <2> QED
    BY <1>3, <1>6, <1>9, <2>1, <2>2, RemovalFollows DEF removeConnectionInLoop, End, lifeVars
<1>10. CASE /\ f.op = "listen"
            /\ listen
            /\ UNCHANGED <<state_, channels_, pendingFunctors_, connection_map_>>
  <2>1. l = 0 /\ spc \notin {"new", "starting"} /\ spc \in {"new", "starting", "up", "map", "pool", "gone"}
    BY <1>5, <1>10 DEF Meant, ServerInv, TypeOK
  <2>2. spc = "up"
    BY <1>3, <2>1 DEF ServerInv, Stages
  <2>3. \A c \in channels_' : c \in channels_ /\ tasks[l][d] # End(c)
    BY <1>2, <1>10 DEF End, Functor
  <2>4. /\ channels_' \subseteq 1..(next_conn_id_ - 1)
        /\ state_' \in [Conns -> {"none", "kConnecting", "kConnected", "kDisConnected"}]
    BY <1>10 DEF ServerInv, Accepted, TypeOK
  <2> QED
    BY <1>1, <1>3, <1>10, <2>2, <2>3, <2>4, TaskInv, ZenonT(30) DEF listen
<1> QED
  BY <1>1, <1>2, <1>7, <1>8, <1>9, <1>10

-----------------------------------------------------------------------------
(* What the invariant is for                                               *)

LEMMA ServerUnchanged == ASSUME ServerInv, UNCHANGED vars PROVE ServerInv'
<1> USE DEF vars, serverVars, lifeVars, acceptVars
<1>1. PoolInv' /\ Stages'
  BY StagesUnchanged
<1>2. UNCHANGED <<lpc, loops_>>
  BY DEF poolVars, managerVars, workerVars
<1>3. spc' = spc /\ spc \in {"new", "starting", "up", "map", "pool", "gone"} /\ listening_' \in BOOLEAN
  BY DEF ServerInv, TypeOK
<1> QED
  BY <1>1, <1>2, <1>3, OnlyThreads

LEMMA ServerInvStep == ASSUME ~MayQuit, ServerInv, [Next]_vars PROVE ServerInv'
<1>1. ASSUME NEW l \in Loops, LoopStep(l) \/ ErrorEvent(l) \/ \E c \in Conns : CloseEvent(l, c)
      PROVE  ServerInv'
  BY <1>1, EventReturnsInv, SwapInv, RunTaskInv, EndRoundInv, ErrorEventInv, CloseEventInv DEF LoopStep
<1>2. CASE DestroyStep
  BY <1>2, DestroyConnectionInv, DestroyMembersInv, DestroyAcceptorInv DEF DestroyStep
<1> QED
  BY <1>1, <1>2, ServerUnchanged, ServerStartInv, PoolStepInv, ServerListenInv, ClientConnectsInv,
     AcceptInv, WorkerLivesInv, BaseEntersInv, BaseQuitInv, DestroyInv, BaseLoopDestroyedInv DEF Next

LEMMA ServerInvImplies ==
  ASSUME ServerInv
  PROVE  PolledConnectionsAlive /\ ServerOutlivesCalls
<1>1. PolledConnectionsAlive
  <2> SUFFICES ASSUME NEW c \in channels_, c \notin connection_map_ PROVE Alive(c)
    BY DEF PolledConnectionsAlive, Alive
  <2>1. c \in Conns /\ ioloop[c] \in Loops
    BY DEF ServerInv, TypeOK
  <2>2. End(c).conn = c
    BY <2>1, EndFunctor, ServerAssumption DEF Conns
  <2>3. CASE RunsAfter(ioloop[c], done[ioloop[c]], End(c))
    <3>1. c \in ConnsOf(tasks[ioloop[c]])
      BY <2>2, <2>3 DEF RunsAfter, ConnsOf
    <3> QED
      BY <2>1, <3>1 DEF Alive
  <2>4. CASE QueuedAfter(ioloop[c], 0, End(c))
    <3>1. c \in ConnsOf(pendingFunctors_[ioloop[c]])
      BY <2>2, <2>4 DEF QueuedAfter, ConnsOf
    <3> QED
      BY <2>1, <3>1 DEF Alive
  <2> QED
    BY <2>3, <2>4 DEF ServerInv, WatchedWillEnd
<1>2. ServerOutlivesCalls
  <2> SUFFICES ASSUME spc = "gone", NEW l \in Loops PROVE lpc[l] \notin {"entered", "looping"}
    BY DEF ServerOutlivesCalls
  <2>1. mpc = "gone" /\ lpc[0] \in {"returned", "dead"}
    BY DEF ServerInv, Stages
  <2>2. \A k \in Workers : lpc[k] \in {"unborn", "dead"}
    BY <2>1 DEF ServerInv, PoolInv, DestroyProgress
  <2>3. l = 0 \/ l \in Workers
    BY PoolAssumption DEF Loops, Workers
  <2> QED
    BY <2>1, <2>2, <2>3
<1> QED
  BY <1>1, <1>2

\* User code that quits a worker's loop is excluded: the pool then gives out loops that
\* have ended.
LEMMA ServerInvAlways == ~MayQuit => (Spec => []ServerInv)
<1> SUFFICES ASSUME ~MayQuit PROVE Spec => []ServerInv
  OBVIOUS
<1>1. ServerInv /\ [Next]_vars => ServerInv'
  BY ServerInvStep
<1> QED
  BY <1>1, ServerInvInit, PTL DEF Spec

\* The server's map, the queues and rounds of all loops and the descriptors keep their
\* types, for any number of workers, connections and descriptors.
THEOREM ServerTypeCorrect == ~MayQuit => (Spec => []TypeOK)
<1>1. ServerInv => TypeOK
  BY DEF ServerInv
<1> QED
  BY <1>1, ServerInvAlways, PTL

\* However many workers, connections and descriptors there are, and whenever the base loop
\* is quit and the server destroyed: a channel in a poller belongs to a connection that
\* exists (TcpServer.cc:21-123).
THEOREM PolledCorrect == ~MayQuit => (Spec => []PolledConnectionsAlive)
<1>1. ServerInv => PolledConnectionsAlive
  BY ServerInvImplies DEF ServerInv
<1> QED
  BY <1>1, ServerInvAlways, PTL

\* Nobody queues on a loop that is gone: neither removeConnection from a worker nor the
\* destructor of the server (TcpServer.cc:25-36, 103-123).
THEOREM QueuesCorrect == ~MayQuit => (Spec => []QueuesHaveLoops)
<1>1. ServerInv => QueuesHaveLoops
  BY ServerInvImplies DEF ServerInv
<1> QED
  BY <1>1, ServerInvAlways, PTL

\* No functor and no close callback with the server's raw pointer runs after the server
\* (TcpServer.cc:89, 103-123).
THEOREM ServerLifetimeCorrect == ~MayQuit => (Spec => []ServerOutlivesCalls)
<1>1. ServerInv => ServerOutlivesCalls
  BY ServerInvImplies DEF ServerInv
<1> QED
  BY <1>1, ServerInvAlways, PTL
=============================================================================

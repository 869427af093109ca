----------------------------- MODULE TcpServer -----------------------------
(***************************************************************************)
(* A TcpServer with its Acceptor and its connections, over the base loop   *)
(* and the loops of an EventLoopThreadPool: accepting, handing connections *)
(* to loops, removing them through the base loop, and the destructor.      *)
(*                                                                         *)
(* The loops take their functors in rounds (module EventLoop shows that    *)
(* none is slept over).  Of a connection only its end matters here, not    *)
(* its data (module TcpConnection).  The server is destroyed by the main   *)
(* thread once the base loop has returned, as in test/Intergration_test.h. *)
(***************************************************************************)
EXTENDS EventLoopThreadPool, FiniteSets

CONSTANTS MaxConns,  \* bound: connections accepted
          MaxFds     \* descriptors that the process may have for connections

ASSUME ServerAssumption == {MaxConns, MaxFds} \subseteq Nat \ {0}

VARIABLES
  spc,               \* new, starting (in start()), up, map, pool (in the destructor), gone
  starter,           \* the thread that calls start(): the base loop's, or another
  rnd,               \* per loop: in poll and its callbacks, or in run (doingPendingFunctors)
  pendingFunctors_,  \* per loop
  tasks,             \* per loop: the vector that was swapped out of the queue
  done,              \* per loop: how many of tasks have run
  busy,              \* per loop: the connection whose handleEvent runs, or 0
  state_,            \* per connection ("none": not accepted yet)
  ioloop,            \* per connection
  channels_,         \* the connections whose channel is in the poller of their loop
  connection_map_,
  next_conn_id_,
  listening_,
  waiting            \* clients in the backlog of the listening socket

roundVars == <<rnd, tasks, done>>
connVars == <<state_, ioloop, channels_>>
mapVars == <<connection_map_, next_conn_id_>>
acceptVars == <<listening_, waiting>>
lifeVars == <<spc, starter>>
serverVars == <<lifeVars, roundVars, pendingFunctors_, busy, connVars, mapVars, acceptVars>>
vars == <<poolVars, serverVars>>

Conns == 1..MaxConns

Functor(name, c) == [op |-> name, conn |-> c]
Ops == {"listen", "connectionEstablished", "connectionDestroyed", "removeConnectionInLoop"}
Functors == [op : Ops, conn : 0..MaxConns]

TypeOK ==
  /\ PoolTypeOK
  /\ spc \in {"new", "starting", "up", "map", "pool", "gone"}
  /\ starter \in {"main", "other"}
  /\ rnd \in [Loops -> {"poll", "run"}]
  /\ pendingFunctors_ \in [Loops -> Seq(Functors)]
  /\ tasks \in [Loops -> Seq(Functors)]
  /\ done \in [Loops -> Nat] /\ \A l \in Loops : done[l] <= Len(tasks[l])
  /\ busy \in [Loops -> 0..MaxConns]
  /\ state_ \in [Conns -> {"none", "kConnecting", "kConnected", "kDisConnected"}]
  /\ ioloop \in [Conns -> Loops]
  /\ channels_ \subseteq Conns
  /\ connection_map_ \subseteq Conns
  /\ next_conn_id_ \in 1..(MaxConns + 1)
  /\ listening_ \in BOOLEAN
  /\ waiting \in 0..MaxConns

Init ==
  /\ PoolInit
  /\ spc = "new"
  /\ starter \in {"main", "other"}
  /\ rnd = [l \in Loops |-> "run"]
  /\ pendingFunctors_ = [l \in Loops |-> <<>>]
  /\ tasks = [l \in Loops |-> <<>>]
  /\ done = [l \in Loops |-> 0]
  /\ busy = [l \in Loops |-> 0]
  /\ state_ = [c \in Conns |-> "none"]
  /\ ioloop = [c \in Conns |-> 0]
  /\ channels_ = {}
  /\ connection_map_ = {}
  /\ next_conn_id_ = 1
  /\ listening_ = FALSE
  /\ waiting = 0

-----------------------------------------------------------------------------
ConnsOf(functors) == {functors[i].conn : i \in DOMAIN functors}

\* A shared_ptr is left: in the map, in a functor (run or not, as long as its vector
\* lives), or as the guard of handleEvent.  The last one closes the descriptor.
Alive(c) ==
  \/ c \in connection_map_
  \/ \E l \in Loops : c = busy[l] \/ c \in ConnsOf(pendingFunctors_[l]) \cup ConnsOf(tasks[l])

AtFdLimit == Cardinality({c \in Conns : Alive(c)}) >= MaxFds

queueInLoop(l, functor) ==
  pendingFunctors_' = [pendingFunctors_ EXCEPT ![l] = Append(@, functor)]

InPoll(l) == lpc[l] = "looping" /\ rnd[l] = "poll" /\ busy[l] = 0

-----------------------------------------------------------------------------
(* Starting                                                                *)

ServerStart ==
  /\ spc = "new"
  /\ spc' = "starting"
  /\ Start
  /\ UNCHANGED <<starter, roundVars, pendingFunctors_, busy, connVars, mapVars, acceptVars>>

\* What the pool does by itself, in start() and in its destructor.
PoolStep ==
  /\ ManagerStep
  /\ UNCHANGED serverVars

listen == listening_' = TRUE

\* runInLoop(listen), after pool_->start().
ServerListen ==
  /\ spc = "starting" /\ mpc = "started"
  /\ spc' = "up"
  /\ \/ starter = "main" /\ listen /\ UNCHANGED pendingFunctors_
     \/ starter = "other" /\ queueInLoop(0, Functor("listen", 0)) /\ UNCHANGED listening_
  /\ UNCHANGED <<poolVars, starter, roundVars, busy, connVars, mapVars, waiting>>

-----------------------------------------------------------------------------
(* Connections                                                             *)

ClientConnects ==
  /\ listening_
  /\ next_conn_id_ + waiting <= MaxConns
  /\ waiting' = waiting + 1
  /\ UNCHANGED <<poolVars, lifeVars, roundVars, pendingFunctors_, busy, connVars, mapVars, listening_>>

\* newConnection(): named by next_conn_id_, given to the next loop, kept in the map.
newConnection ==
  /\ next_conn_id_' = next_conn_id_ + 1
  /\ connection_map_' = connection_map_ \cup {next_conn_id_}
  /\ state_' = [state_ EXCEPT ![next_conn_id_] = "kConnecting"]
  /\ ioloop' = [ioloop EXCEPT ![next_conn_id_] = NextLoop]
  /\ queueInLoop(NextLoop, Functor("connectionEstablished", next_conn_id_))

Accept_StopsAtLimit ==
  /\ InPoll(0)
  /\ listening_ /\ waiting > 0
  /\ IF AtFdLimit
     THEN listening_' = FALSE /\ UNCHANGED <<waiting, mapVars, state_, ioloop, pendingFunctors_, managerVars>>
     ELSE waiting' = waiting - 1 /\ newConnection /\ getNextLoop /\ UNCHANGED listening_
  /\ UNCHANGED <<workerVars, lifeVars, roundVars, busy, channels_>>

\* Acceptor::handleRead.  At the limit of descriptors accept() fails, which is logged;
\* the backlog keeps the client, and the loop goes round again.
Accept ==
  /\ InPoll(0)
  /\ listening_ /\ waiting > 0
  /\ ~AtFdLimit
  /\ waiting' = waiting - 1
  /\ newConnection
  /\ getNextLoop
  /\ UNCHANGED <<workerVars, lifeVars, roundVars, busy, channels_, listening_>>

removeConnectionInLoop_NoErase(c) ==
  /\ queueInLoop(ioloop[c], Functor("connectionDestroyed", c))
  /\ UNCHANGED connection_map_

removeConnectionInLoop_NoDestroy(c) ==
  /\ connection_map_' = connection_map_ \ {c}
  /\ UNCHANGED pendingFunctors_

removeConnectionInLoop(c) ==
  /\ connection_map_' = connection_map_ \ {c}
  /\ queueInLoop(ioloop[c], Functor("connectionDestroyed", c))

\* TcpConnection::handleClose on loop l, whose close_callback_ is removeConnection.
handleClose(l, c) ==
  /\ state_' = [state_ EXCEPT ![c] = "kDisConnected"]
  /\ IF l = 0
     THEN removeConnectionInLoop(c)
     ELSE queueInLoop(0, Functor("removeConnectionInLoop", c)) /\ UNCHANGED connection_map_
  /\ UNCHANGED <<poolVars, lifeVars, roundVars, ioloop, channels_, next_conn_id_, acceptVars>>

\* A handleEvent that closes ...
CloseEvent(l, c) ==
  /\ InPoll(l)
  /\ c \in channels_ /\ ioloop[c] = l /\ state_[c] = "kConnected"
  /\ busy' = [busy EXCEPT ![l] = c]
  /\ handleClose(l, c)

\* ... and, for an error reported with it, closes again before it returns.
ErrorEvent(l) ==
  /\ busy[l] # 0
  /\ busy' = [busy EXCEPT ![l] = 0]
  /\ handleClose(l, busy[l])

EventReturns(l) ==
  /\ busy[l] # 0
  /\ busy' = [busy EXCEPT ![l] = 0]
  /\ UNCHANGED <<poolVars, lifeVars, roundVars, pendingFunctors_, connVars, mapVars, acceptVars>>

-----------------------------------------------------------------------------
(* The rounds of a loop                                                    *)

\* The swap.  A round with nothing queued and no quit_ changes nothing.
Swap(l) ==
  /\ InPoll(l)
  /\ pendingFunctors_[l] # <<>> \/ quit_[l]
  /\ rnd' = [rnd EXCEPT ![l] = "run"]
  /\ tasks' = [tasks EXCEPT ![l] = pendingFunctors_[l]]
  /\ pendingFunctors_' = [pendingFunctors_ EXCEPT ![l] = <<>>]
  /\ UNCHANGED <<poolVars, lifeVars, done, busy, connVars, mapVars, acceptVars>>

connectionEstablished(c) ==
  /\ state_' = [state_ EXCEPT ![c] = "kConnected"]
  /\ channels_' = channels_ \cup {c}
  /\ UNCHANGED <<pendingFunctors_, connection_map_, listening_>>

connectionDestroyed(c) ==
  /\ state_' = [state_ EXCEPT ![c] = IF @ = "kConnected" THEN "kDisConnected" ELSE @]
  /\ channels_' = channels_ \ {c}
  /\ UNCHANGED <<pendingFunctors_, connection_map_, listening_>>

RunTask(l) ==
  /\ lpc[l] = "looping" /\ rnd[l] = "run" /\ done[l] < Len(tasks[l])
  /\ done' = [done EXCEPT ![l] = @ + 1]
  /\ LET f == tasks[l][done[l] + 1]
     IN \/ f.op = "connectionEstablished" /\ connectionEstablished(f.conn)
        \/ f.op = "connectionDestroyed" /\ connectionDestroyed(f.conn)
        \/ /\ f.op = "removeConnectionInLoop"
           /\ removeConnectionInLoop(f.conn)
           /\ UNCHANGED <<state_, channels_, listening_>>
        \/ /\ f.op = "listen"
           /\ listen
           /\ UNCHANGED <<state_, channels_, pendingFunctors_, connection_map_>>
  /\ UNCHANGED <<poolVars, lifeVars, rnd, tasks, busy, ioloop, next_conn_id_, waiting>>

\* tasks is destroyed, and with it the references of its functors; while(!quit_).
EndRound(l) ==
  /\ lpc[l] = "looping" /\ rnd[l] = "run" /\ done[l] = Len(tasks[l])
  /\ tasks' = [tasks EXCEPT ![l] = <<>>]
  /\ done' = [done EXCEPT ![l] = 0]
  /\ IF quit_[l]
     THEN LoopReturn(l) /\ UNCHANGED rnd
     ELSE rnd' = [rnd EXCEPT ![l] = "poll"] /\ UNCHANGED poolVars
  /\ UNCHANGED <<lifeVars, pendingFunctors_, busy, connVars, mapVars, acceptVars>>

\* A worker outside its rounds.  ~EventLoop takes the queue and the poller along.
WorkerLives(l) ==
  /\ WorkerStep(l)
  /\ IF lpc'[l] = "dead"
     THEN /\ pendingFunctors_' = [pendingFunctors_ EXCEPT ![l] = <<>>]
          /\ channels_' = {c \in channels_ : ioloop[c] # l}
     ELSE UNCHANGED <<pendingFunctors_, channels_>>
  /\ UNCHANGED <<lifeVars, roundVars, busy, state_, ioloop, mapVars, acceptVars>>

\* The main thread calls loop(), after start() if that is its own call.
BaseEnters ==
  /\ starter = "main" => spc = "up"
  /\ LoopEnter(0) \/ LoopStart(0)
  /\ UNCHANGED serverVars

\* Some thread, or a signal handler, quits the base loop.
BaseQuit ==
  /\ lpc[0] \in {"created", "entered", "looping"}
  /\ quit_' = [quit_ EXCEPT ![0] = TRUE]
  /\ UNCHANGED <<managerVars, lpc, loop_, exiting_, userQuit, lost, serverVars>>

-----------------------------------------------------------------------------
(* ~TcpServer, and then ~EventLoop of the base loop                        *)

Destroy_WhileLooping ==
  /\ spc = "up" /\ lpc[0] \in {"looping", "returned"}
  /\ spc' = "map"
  /\ UNCHANGED <<poolVars, starter, roundVars, pendingFunctors_, busy, connVars, mapVars, acceptVars>>

Destroy ==
  /\ spc = "up" /\ lpc[0] = "returned"
  /\ spc' = "map"
  /\ UNCHANGED <<poolVars, starter, roundVars, pendingFunctors_, busy, connVars, mapVars, acceptVars>>

\* The for over connection_map_, in any order.
DestroyConnection(c) ==
  /\ spc = "map" /\ c \in connection_map_
  /\ connection_map_' = connection_map_ \ {c}
  /\ queueInLoop(ioloop[c], Functor("connectionDestroyed", c))
  /\ UNCHANGED <<poolVars, lifeVars, roundVars, busy, connVars, next_conn_id_, acceptVars>>

\* The members go: pool_ (with its threads) ...
DestroyMembers ==
  /\ spc = "map" /\ connection_map_ = {}
  /\ spc' = "pool"
  /\ DestroyPool
  /\ UNCHANGED <<starter, roundVars, pendingFunctors_, busy, connVars, mapVars, acceptVars>>

\* ... and acceptor_, whose channel leaves the poller, and whose socket is closed.
DestroyAcceptor ==
  /\ spc = "pool" /\ mpc = "gone"
  /\ spc' = "gone"
  /\ listening_' = FALSE
  /\ waiting' = 0
  /\ UNCHANGED <<poolVars, starter, roundVars, pendingFunctors_, busy, connVars, mapVars>>

BaseLoopDestroyed ==
  /\ spc = "gone"
  /\ LoopGoes(0, "returned", "dead")
  /\ pendingFunctors_' = [pendingFunctors_ EXCEPT ![0] = <<>>]
  /\ channels_' = {c \in channels_ : ioloop[c] # 0}
  /\ UNCHANGED <<managerVars, quit_, loop_, exiting_, userQuit, lost, lifeVars, roundVars,
                 busy, state_, ioloop, mapVars, acceptVars>>

-----------------------------------------------------------------------------
LoopStep(l) == EventReturns(l) \/ Swap(l) \/ RunTask(l) \/ EndRound(l)

DestroyStep == (\E c \in Conns : DestroyConnection(c)) \/ DestroyMembers \/ DestroyAcceptor

Next ==
  \/ ServerStart \/ PoolStep \/ ServerListen
  \/ ClientConnects \/ Accept
  \/ \E l \in Loops : LoopStep(l) \/ ErrorEvent(l) \/ \E c \in Conns : CloseEvent(l, c)
  \/ \E l \in Workers : WorkerLives(l)
  \/ BaseEnters \/ BaseQuit
  \/ Destroy \/ DestroyStep \/ BaseLoopDestroyed

Spec == Init /\ [][Next]_vars

\* Threads are scheduled, callbacks return, and a listening socket with clients waiting
\* is reported again and again (level triggering).  Nobody has to connect, close, start,
\* quit or destroy.
Fairness ==
  /\ WF_vars(PoolStep) /\ WF_vars(DestroyStep) /\ WF_vars(ServerListen)
  /\ \A l \in Loops : WF_vars(LoopStep(l))
  /\ \A l \in Workers : WF_vars(WorkerLives(l))
  /\ WF_vars(BaseEnters)
  /\ SF_vars(Accept)

FairSpec == Spec /\ Fairness

-----------------------------------------------------------------------------
(* Properties                                                              *)

\* A channel that a poller still holds belongs to a connection that still exists,
\* although the last reference may go on either loop, functors may be dropped with a
\* loop that has quit, and a connection may be removed twice (TcpServer.cc:34, 106-121).
PolledConnectionsAlive == \A c \in channels_ : Alive(c)

\* Nobody queues on a loop that has been destroyed: workers that are still running while
\* the server goes find the base loop, and the server finds its workers (TcpServer.cc:34,
\* 106, 121).
QueuesHaveLoops == \A l \in Loops : pendingFunctors_[l] # <<>> => lpc[l] \notin {"unborn", "dead"}

\* The functors with a raw `this` of the server run only while it exists, and so does
\* the close callback of its connections (TcpServer.cc:46, 89, 106).
ServerOutlivesCalls ==
  spc = "gone" => \A l \in Loops : lpc[l] \notin {"entered", "looping"}

\* A connection that ended is taken off the map and off its loop, and its descriptor is
\* closed, while the server runs (TcpServer.cc:103-123).
ClosedIsFreed ==
  \A c \in Conns : state_[c] = "kDisConnected" ~> ~Alive(c) \/ quit_[0]

\* Clients do not wait for ever for a server that runs and has descriptors to spare,
\* also after it had been at the limit (Acceptor.cc:51-75).
ClientsAreAccepted == []<>(waiting = 0 \/ AtFdLimit \/ quit_[0])
=============================================================================

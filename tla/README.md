# mylib-muduo in TLA+

A verification development for mylib-muduo, a C++17 network library after muduo: one event loop per
thread, other threads reach a loop only through its queue of functors, and connections, timers and
the listening socket are channels of a loop. The specifications model the code; TLC checks them on
small instances, and TLAPS proves the safety properties, the action properties and the refinements
for every instance. All paths below are relative
to the repository (`src/EventLoop.cc`, `include/EventLoop.h`, ...).

## 1. Inventory

| Component | State | Operations | Talks to | What makes it correct |
|---|---|---|---|---|
| EventLoop | `quit_`, `calling_pending_functors_`, `pendingFunctors_` under `mtx_`, the eventfd | `loop`, `quit`, `queueInLoop`, `runInLoop`, `wakeUp`, `handleRead`, `doingPendingFunctors` | every thread; Poller; TimerQueue | no functor or quit is slept over; functors run once each and in order; quit ends the loop |
| Poller / EPollPoller | `channels_`, the kernel's interest list | `updateChannel`, `removeChannel`, `poll` | Channel, kernel | channel, map and kernel agree; `epoll_ctl` never fails; no stale entry for a reused descriptor |
| Channel | `events_`, `index_`, `tie_` | `enable*/disable*`, `remove`, `handleEvent` | EventLoop, its owner | a round meets only living channels; callbacks in the order close, read, write, error |
| TimerQueue, Timer, TimerId | `timer_list_`, `active_timer_set_`, `canceling_timer_set_`, the timerfd, timers on the heap | `addTimer`, `cancelTimer`, `handleRead`, `reset` | EventLoop's queue, user callbacks | two indexes agree; the timerfd is armed for the earliest timer; due timers run; cancelled ones do not |
| TcpConnection | `state_`, buffers, `file_to_send`, its channel | `send`, `sendFile`, `shutdown`, four handlers, `connectionEstablished/Destroyed` | its loop, other threads, TcpServer | bytes in order; FIN after data; shutdown completes; one end; nobody uses a deleted connection |
| TcpServer | `connection_map_`, `started_`, `next_conn_id_` | `start`, `newConnection`, `removeConnection`, destructor | Acceptor, pool, connections of all loops | every connection is removed on its own loop and freed; no poller keeps a dead one; the server outlives its functors |
| Acceptor | the listening channel and its backlog | `listen`, `handleRead` | TcpServer | one connection per accepted descriptor; waiting clients are accepted, also after the limit of descriptors |
| EventLoopThread, Pool, Thread | `loop_`, `exiting_`, `mtx_`/`cv_`; `loops_`, `next_` | `startLoop`, `ThreadFunc`, destructor; `start`, `getNextLoop` | EventLoop across threads | start-up hands over a running loop; shut-down ends and joins it |
| Buffer | `buffer_`, `read_index_`, `write_index_` | `append`, `retrieve*`, `readFd`, `writeFd`, `makeSpace` | TcpConnection | it is a byte queue, whatever moves and grows |
| Socket | a descriptor | `accept`, `listen`, `shutDownWrite`, close, options | Acceptor, TcpConnection | it is closed with its last owner |
| InetAddress, Timestamp, Logger, CurrentThread, DefaultPoller, Callbacks, noncopyable | a value, or none | wrappers, formatting | - | no logic of their own worth a model |

The hard behaviours are the interleavings of a loop with foreign threads (wake-up, quit, addTimer,
shutdown), work that is put off to a later phase of the same loop (functors, cancellations in
callbacks), lifetimes (raw pointers in functors, in epoll's `data.ptr` and in TimerIds, reused
addresses and descriptors), partial writes against shutdown and close, and re-arming of the timerfd.
`PROJECT.json` lists each of them as a hazard with its line and the properties aimed at it.

## 2. Modules and how they correspond to the code

Variables keep the names of the members they stand for. A definition named `X_Something` is a mutated
form of `X`, a plausible mistake in the same code: replacing X by it must break a property.

### EventLoop.tla, SerialExecutor.tla
The owner's program counter `pc` walks through `loop()` at the grain at which another thread can get
in between: the test and the reset of `quit_`, the poll, each ready channel, the raising of
`calling_pending_functors_`, the swap under `mtx_`, each functor. Other threads call `queueInLoop`
(append, then wake) and `quit` (assign, then wake) in two steps. User code (callbacks, functors, code
ahead of `loop()`) may queue, run and quit at will. Which descriptors become ready is free, except
that the eventfd is reported only while its count is positive. The count is capped by `EventFdMax`,
where `write()` fails, as it does at 2^64-2 in the kernel. `early` remembers the functors that the
owner queued ahead of `loop()`: queueInLoop wakes nobody for these, and they wait for the first event
or for the time-out of the poll (10 s), so `NoLostWakeup` and `QueuedFunctorsRun` leave them out.

`SerialExecutor` is what a user may rely on: one queue, started in order, each functor at most once.
`EventLoop!ImplementsExecutor` maps `queue` to `tasks \o pendingFunctors_`.

### Poller.tla
Channels at reusable addresses with reusable descriptors; `channels_`; the kernel's interest list;
and the phases of a round. `SetEvents` is an assignment to `events_` followed by `updateChannel`, as
each `enable*/disable*` is. `remove` is called between two rounds only, which is what the queueing of
`connectionDestroyed` in TcpServer ensures; `remove_InCallback`, the mutant, shows what that queueing
is for. `Destruct` may happen on any thread.

### TimerQueue.tla
Timers on a heap of addresses, so that addresses are reused; the two indexes as the code has them;
`handleRead` in steps: the batch is collected (`HandleReadBegin`), each callback (`RunCallback`), then
`reset`: each entry of the batch is restarted or erased (`ResetEntry`), each cancellation that is left
is carried out (`EraseCancelled`), the timerfd is set (`HandleReadEnd`). The batch is the set of the
entries still to be handled; `First` takes them in the order of `timer_list_`. User code runs in the
callbacks and between rounds, and none runs within `reset`; other threads' `addTimer` goes in two steps (queue the insertion; read the
sequence number through the raw pointer). The timerfd has a deadline and a readiness, and
`timerfd_settime` clears the readiness. Time is in ticks and may advance at any step.

### TcpConnection.tla
One connection: the handlers that its channel runs in the order close, read, write, error; its
functors in the loop's queue; the calls of other threads, with the test of `state_`, the assignment
to `state_` or to the fields of `sendFile`, and the append apart; the references that keep it alive
(the server's map, functors of both loops, threads, a running `handleEvent`); the socket, which takes
any number of bytes of what it is given, and a peer that closes or resets. A connection sends
messages, or one file, as the tests require (`test/test_TcpConnection.h:27`). User callbacks of
completion and high-water mark are queued functors. What arrives is not modelled, only that a read
succeeds or ends the connection. After the object is gone its raw functors are blocked rather than
given arbitrary effects; `RawFunctorsHaveOwner` shows that this happens. The vector that
doingPendingFunctors swaps out keeps the references in its functors until the last one has run
(`batch`, `held`).

`shutdown()` of another thread can set `state_` of a closed connection back to kDisConnecting (the
test and the assignment at `TcpConnection.cc:68-70` are apart). The model has that behaviour;
`EndIsPermanent` says that this is as far back as it goes, and `ClosedStaysSilent` that nothing is watched
or sent because of it, while the connection callback may be called a further time by
connectionDestroyed.

Three things the model has and no property objects to, because no comment or test of the repository
says otherwise, or only in passing: `send()` and then `shutdown()` on another thread drop the message
(sendInLoop finds kDisConnecting); HUP or IN together with ERR runs `handleClose` twice in one
handleEvent, and with it both callbacks; and in TimerQueue a timer that a callback of its own batch
cancels is still called once, as is one whose cancellation on the loop's thread overtakes its queued
insertion.

### Buffer.tla, ByteQueue.tla
A buffer is a record of its vector and two indexes, so that calls nest as in the code: readFd calls
append, append calls ensureWriteableBytes and this makeSpace. `CopyTo`, `Grow` and `Slice` are
`std::copy`, `resize` and a range of bytes. A buffer belongs to one thread at a time, hence one step
per call. `ReadFd` takes any string that readv() may return for the blocks it is given; a failed read
changes nothing. `RetrieveAsString` looks at no index, as the code: with a length beyond the readable
bytes it returns what lies behind them. The repository calls it through retrieveAllAsString only, which
stays in range; the constant `MayOverrun` says whether a caller may ask for more. Past the end of the
vector the behaviour is undefined, and the model does not call it so.

`ByteQueue` is the promise: a sequence without indexes or capacity, of which `Copy` (writeFd) shows a
prefix, `Discard` (retrieve) drops one, and `Take` (retrieveAsString) hands out one that leaves.
`Buffer!IsByteQueue` maps `queue` to the bytes between the indexes; `in` and `out` are the strings of the
last call. It holds without `MayOverrun`, in the run and in the proof. With `MayOverrun = TRUE` in
`Buffer.cfg` TLC refutes it in two states: retrieveAsString(1) of an empty buffer returns a byte of
padding. `Buffer.h:53` says that retrieveAsString returns the data it has skipped (将偏移过的数据作为字符串返回),
which is so only for lengths up to `readableBytes()`.

### EventLoopThreadPool.tla
The manager (the thread that starts, uses and destroys the pool) and one thread per worker loop. The
manager's `mpc` and the workers' `lpc` stop wherever another thread can get in between: the wait in
startLoop and the unlocked `return loop_` after it; in the destructor the unlocked test of `loop_`, the
assignment of `quit_`, the wake-up, the join; in ThreadFunc the initialisation callback, the
publication, the test and the reset of `quit_` in loop(), its end, `loop_=nullptr`, ~EventLoop. Of a
loop's rounds only their end is here; module EventLoop shows that a quit() wakes them. `MayQuit` lets
user code quit worker loops, as `test/test_EventLoopThreadPool.h` does; `lost` remembers a quit that
fell into the window of `eventloop_quit`.

### TcpServer.tla
Extends EventLoopThreadPool by the server: `pendingFunctors_` and `tasks` of every loop, the map, the
state and loop of every connection, the channels that are in a poller, the listening socket's backlog.
A round is a poll with callbacks, the swap, the functors one by one, and the destruction of the vector
with its references. `Alive` is the set of places a `TcpConnectionPtr` can be in; the descriptor is
freed with the last one, which is what `AtFdLimit` counts. `start()` is called by the base loop's
thread ahead of loop(), or by another thread; ~TcpServer runs after the base loop has returned, as in
`test/Intergration_test.h`, member by member in the reverse order of their declaration (the pool and
its threads, then the Acceptor), while the workers go on. A channel may close and, for an error in the
same revents, close again.

### MCPoller.tla
Adds symmetry of addresses and of descriptors for TLC. The other modules are run as they are: their
runs check liveness too, which symmetry reduction does not allow, or are small enough.

## 3. Runs

| Run | Result | Bounds | Shows |
|---|---|---|---|
| eventloop | pass | 2 threads, 3 functors, EventFdMax 2 | no lost wake-up, neither for a functor nor for a quit, refinement of SerialExecutor; queued functors start, quit ends the loop |
| eventloop_quit | violation | 1 thread, 1 functor | quit() in the window `EventLoop.cc:192-195` is lost |
| poller | pass | 3 addresses, 3 descriptors, 2 events per poll | mirror, no stale entry, no epoll_ctl failure, no dead channel in a round |
| timerqueue | pass | 2 addresses, 2 timers, intervals {0,1}, time from 1 to 2 | indexes, arming, cancellation, address reuse; due timers run |
| timerqueue_timerid | violation | 2 one-shot timers | addTimer reads a deleted Timer |
| tcpconnection | pass | 1 thread, 2 messages of 2 bytes or a file of 2, mark 2 | order of bytes, interest follows buffer, FIN after data, an end that is permanent and silent, shutdown completes |
| tcpconnection_file | violation | 1 thread, a file of 2 bytes | shutdown during sendFile never closes the write end |
| tcpconnection_owner | violation | 1 thread, 1 message | a raw functor outlives its connection |
| buffer | pass | 2 byte values, 1 prependable byte, initial size 2, second block 2, 3 bytes a call, 4 readable, no string longer than what is readable | indexes in order, refinement of ByteQueue, growth only for contents |
| pool | pass | up to 3 threads, 2 calls of getNextLoop per loop, user code may quit loops | start hands over running loops, round-robin, start and destructor return |
| pool_quit | violation | 1 thread | the destructor is in quit() of a destroyed loop |
| tcpserver | pass | base loop and 0 or 1 workers, 3 connections, 2 descriptors | no dead connection polled, no queue without a loop, server outlives its callbacks, closed connections freed, clients accepted |

Why these bounds: two foreign threads are enough for a wake-up of one to be consumed on behalf of the
other, a third functor lets one be appended while one is being run and one waits; EventFdMax 2 makes
the counter reach its limit. Three channels on three descriptors give every pattern of reuse with a
bystander, and a list of two makes a poll leave a ready descriptor out. Two timers suffice for every
pairwise interaction (same expiration, same batch, cancelled by each other, address reuse); times 1
and 2 let a repeating timer expire, be restarted and expire again. Two messages of two bytes make
every write partial in every way that matters, with one message sent and one queued; the loop's
thread and one other are all the actors a connection tells apart. The bounds `MaxTimers` and
`MaxTime` are in the guards of TimerQueue; `ThreadCancelTimer` queues a cancellation once at a time.
A buffer of up to four bytes over a vector that starts with three goes through every branch of
makeSpace, retrieve and readFd, with moves that overlap; the proofs lift the bounds. Three threads let
round-robin wrap with a bystander. Three connections at a limit of two descriptors make the third
client wait until another connection is freed; one worker and the base loop give both ways of
removeConnection (on the spot, and queued). `MaxCall`, `MaxReadable`, `MaxCalls` and `MaxConns` are in
the guards.

Deadlock is checked in the EventLoop, Poller, TimerQueue and Buffer runs. It is not in those of
TcpConnection, EventLoopThreadPool and TcpServer: a connection that is closed, dropped and freed, and
a pool or a server that is destroyed, have nothing left to do.

**Fairness.** EventLoop: weak fairness of the owner, of the second half of each foreign call, and of a
poll with a readable eventfd; not of other descriptors and not of the 10 s time-out. TimerQueue: the
clock, the kernel's expiry, the poll and `handleRead` are weakly fair; adding and cancelling are not.
TcpConnection: the loop's callbacks and the threads inside a call are weakly fair; functors are run
in every round, and level-triggered epoll reports a descriptor that stays writable, or whose peer is
gone, again and again, hence strong fairness of `RunFunctor`, `PollWritable`, `PollPeerGone` and
`WriteBytes` (the peer reads now and then). Nothing makes anyone send, shut down or close.
EventLoopThreadPool: the threads are weakly fair inside start(), the destructor and ThreadFunc, and a
looping worker comes to its test of `quit_` (which is `QuitEndsLoop`). TcpServer: the same, and the
rounds of every loop; strong fairness of `Accept`, since a listening socket with clients waiting is
reported in round after round. Nobody has to connect, close, start, quit or destroy.

**Findings.** The violations are disagreements between the code and its own comments, tests and
README; `PROJECT.json` quotes both sides for each. The passing runs state the same matters as the code
really keeps them (`QuitEndsLoop` and `DestructorReturns` outside the window, `DataShutdownCompletes` for messages,
`IsByteQueue` for strings no longer than what is readable, `StartReturns` unless the very loop that is
waited for has quit itself and is over: `startLoop()` then waits for ever for a `loop_` that is null
again, of which no comment speaks).

## 4. Proofs

`EventLoopProofs.tla`, for every set of threads and functors and every positive EventFdMax:
- `TypeCorrect`: `Spec => []TypeOK`.
- `WakeupCorrect`, `QuitWakeCorrect`: `NoLostWakeup` and `NoSleepAfterQuit` always hold. The first speaks of
  the poll only and is not inductive: the wake-up must already be owed before. `WakeupInv` says that
  wherever the next swap is not yet certain (every place but `events`, `callback`, `swap`) a functor
  in the queue has a wake-up that is there or coming, and ties `calling_pending_functors_` to the
  phases in which it is up, which is what justifies the owner's own condition for `wakeUp()`.
- `LoopIsExecutor`: `Spec => ImplementsExecutor`. The swap is a stuttering step because `tasks` is
  empty then (from `WakeupInv`); the rest is associativity of concatenation, in two lemmas.

`PollerProofs.tla`, for all sets of addresses and descriptors:
- `PollerTypeCorrect`, `PollerCorrect`, `EntriesCorrect`, `EpollCtlCorrect`, `RoundMeetsLivingChannels`:
  `TypeOK`, `PollerMirror`, `NoStaleEntry`, `EpollCtlNeverFails` and `ActiveChannelsLive` always hold.
  The inductive invariant `PollerInv` adds that two living channels never share a descriptor (the
  kernel hands out free numbers), that no pointers are held between rounds, and that a removed channel
  is `kNew`. One lemma per operation.

`TimerQueueProofs.tla`, for any numbers of timers and addresses, any intervals and any time:
- `TimerTypeCorrect`, `TimerIndexesCorrect`, `BatchCorrect`, `TimerFdCorrect`, `RoundCorrect`: `TypeOK`,
  `IndexesAgree`, `BatchStaysInList`, `TimerFdArmed` and `RoundSettles` always hold.
- `LeaveForAReason`: `Spec => TimersLeaveForAReason`.

  The inductive invariant `TimerInv` adds five things. `Numbered`: timers on the heap have sequence
  numbers of their own, which makes an entry the only one of its timer although addresses are reused.
  `Pending`: a timer whose insertion is queued is in no index, has not run and is in one functor only,
  so that `insert` adds to both indexes. `KnownNumbers`: no TimerId names a timer that is still to be
  made, so that a cancellation cannot meet a later timer. `Round`: where handleRead is, that what it has
  called is in `fired`, and that a cancellation put off for a timer in the queue is in `cancelled`.
  `Settling`: a cancelled timer, or a one-shot one that has run, is in the queue only while the round
  still has it in `canceling_timer_set_` or in its batch. `RoundSettles` is `Settling` and `Round` outside
  handleRead, where both sets are empty. `EraseIndexes` and `InsertIndexes` say once what erase and insert
  do to the indexes.

`TcpConnectionProofs.tla`, for any threads, messages and lengths (of messages, of the file, of the mark):
- `EndCorrect`, `ConnectionTypeCorrect`, `StreamCorrect`, `InterestCorrect`, `FinCorrect`, `FileCorrect`:
  `EndIsPermanent`, `TypeOK`, `StreamInOrder`, `InterestFollowsBuffer`, `FinAfterData` and `FileInOrder` always
  hold.
- `FinIsLast` and `ClosedIsFinal`: `Spec => NothingAfterFin`, `Spec => ClosedStaysSilent`.

  The inductive invariant `ConnInv` adds `Connecting` (nothing happens before connectionEstablished,
  which is the first functor), `Closing` (once a shutdown() is past its assignment, or the connection is
  over, `state_` makes sendInLoop give up: a late shutdown() moves it between kDisConnected and
  kDisConnecting, never back to kConnected), `OneKind` (messages or a file) and `FileProgress` (there is
  one sendFile(), in its call before or after it has set its fields, in the queue or past both, and
  `count_` is what is left). The two action
  properties follow from `SilentStep`: a connection that gives up writing leaves its stream and its
  interest alone.

`EventLoopThreadPoolProofs.tla`, for any number of threads, with user code that quits loops or without:
- `PoolTypeCorrect`, `StartCorrect`, `PublishedCorrect`, `RoundRobinCorrect`: `PoolTypeOK`,
  `StartHandsOverLoop`, `PublishedLoopExists` and `RoundRobin` always hold. The inductive invariant `PoolInv`
  says how far start() and the destructor have come, that `loop_` is set exactly while the worker's loop
  is published, that only a quit() ends a loop, that `loops_[i]` is the i-th worker's loop (or null, where
  user code quit it), and that the loops before `next_` have had one turn more than the others.

`TcpServerProofs.tla`, for any number of workers, connections and descriptors:
- `ServerTypeCorrect`, `PolledCorrect`, `QueuesCorrect`, `ServerLifetimeCorrect`: if `~MayQuit`, then
  `TypeOK`, `PolledConnectionsAlive`, `QueuesHaveLoops` and `ServerOutlivesCalls` always hold. `~MayQuit` is
  the assumption of section 5: the pool gives out loops that have ended when user code quits one, and
  then the server does queue on them. The inductive invariant `ServerInv` contains `PoolInv`, whose lemmas
  the steps of the pool reuse, and adds: which stages of server, pool and base loop go together; that
  functors of the server are in the base loop's queue only; that a watched connection is in the map or
  has `connectionDestroyed` ahead of it on its own loop (`WatchedWillEnd`); and that
  `connectionEstablished` comes ahead of `connectionDestroyed` there, since both go through the same queue
  (`EstablishedComesFirst`). Without the last one, a connection that is accepted and dropped from the map
  before its loop has run could be watched after its end.

`BufferProofs.tla`, for every size of the vector, of the prependable space and of the second block,
every set of bytes with a zero, and strings of any length:
- `IndexesInOrder`: `Spec => []TypeOK`, that is kCheapPrepend <= read_index_ <= write_index_ <= size().
- `BufferIsByteQueue`: `~MayOverrun => (Spec => IsByteQueue)`; the other two theorems hold for longer strings
  too. The type invariant is inductive; the work is in the
  lemmas on records: what `CopyTo`, `Grow` and `Slice` return, that makeSpace leaves the contents alone
  and makes the space asked for (and moves only towards the front, which std::copy requires of
  overlapping ranges), that filling behind the write index appends to the contents, hence append and
  readFd in both of its cases, and what retrieve leaves. One lemma per call then maps it to a step of
  ByteQueue.
- `GrowthCorrect`: `Spec => GrowsOnlyForContents`, from when makeSpace grows the vector and how long the
  contents are then.

The assumptions are those that the modules name (`EventFdMaxAssumption`, `NullAssumption`,
`SizesAssumption`, `ZeroAssumption`, `OverrunAssumption`, `IntervalsAssumption`, `BoundsAssumption`, `NoTimerAssumption`,
`LengthsAssumption`, `FileAssumption`, `PoolAssumption`, `ServerAssumption`): sizes and bounds are numbers,
messages and files are not empty, and the value for "none" is none of the others. The bounds in guards
(`MaxTimers`, `MaxTime`, `MaxCall`, `MaxReadable`, `MaxCalls`, `MaxConns`) are any numbers in the proofs. Each
inductive invariant was checked with TLC before it was proved; `WakeupInv`, the other inductive
invariants and the `TypeOK` of EventLoop and TcpConnection are not listed in a run.

Only model-checked: the liveness properties (`QueuedFunctorsRun`, `QuitEndsLoop`, `DueTimersRun`,
`DataShutdownCompletes`, `StartReturns`, `DestructorReturns`, `ClosedIsFreed`, `ClientsAreAccepted`), for
which TLAPS 1.4.5 has no rules of fairness and ENABLED in reach. The violations are TLC's.

## 5. Not modelled

InetAddress, Timestamp, Logger, CurrentThread, DefaultPoller, Callbacks, noncopyable: thin wrappers,
formatting and types; of Socket the options and bind, which are single system calls at the start. Memory exhaustion, failing `eventfd`/`timerfd_create`/`epoll_create1`
(the process ends), and errors of `epoll_wait` other than EINTR are left out. TimerQueue's destructor
does not remove its channel or close the timerfd; no round follows it, so nothing is stated of it.

TcpServer is run with `MayQuit` FALSE: a user who quits a worker's loop under a server leaves connections
on a loop that never runs them, of which the repository says nothing. A server that is destroyed in a
callback of its own running loop is not modelled either (its Acceptor's and connections' functors
hold a raw `this`; the tests destroy it after loop()). A connection with descriptor 0, a timer with a
non-positive expiration and a file shorter than the caller says are not told apart; `PROJECT.json`
lists them among the hazards.

## 6. Plan

Every safety and action property and both refinements of the passing runs are proved. What is left:
1. Proofs of the facts that liveness rests on and that are safety: that a thread which waits is waited
   for by nobody it waits for (startLoop against ThreadFunc, join against loop), and that a loop with
   a functor in its queue is never outside the reach of a wake-up in TcpServer's composition.
2. An abstract specification of the timer queue (a set of timers with due times, without the two
   indexes), and TimerQueue as a refinement of it.

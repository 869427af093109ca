--------------------------- MODULE TcpConnection ---------------------------
(***************************************************************************)
(* One TcpConnection from its construction by the server to its last       *)
(* reference: the handlers that its channel calls on the loop's thread,    *)
(* the functors that the loop runs for it, the calls of other threads with *)
(* their steps apart (the test of state_, the assignment of state_, the    *)
(* append to the loop's queue), and the socket below.                      *)
(*                                                                         *)
(* Its channel is an interest set, which the kernel mirrors (module        *)
(* Poller), and the queue runs functors in order (module EventLoop).  A    *)
(* connection sends messages, or one file, never both.                     *)
(***************************************************************************)
EXTENDS Naturals, Sequences, FiniteSets, SequencesExt

CONSTANTS Threads,         \* threads other than the loop's that hold the connection
          Messages,        \* what is sent; each at most once
          MessageLen,      \* bytes of a message
          FileLen,         \* bytes of the file
          high_water_mark_

ASSUME LengthsAssumption ==
  {MessageLen, FileLen, high_water_mark_} \subseteq Nat \ {0}

ASSUME FileAssumption == "file" \notin Messages

VARIABLES
  state_,
  events,         \* the interest of channel_
  output_buffer_, \* bytes
  sending_file,
  count_,         \* file_to_send.count_
  wire,           \* bytes the kernel has taken, in order
  shutWr,         \* whether shutDownWrite() has been called
  sock,           \* the peer's doing: "ok", "eof" (it closed, all it sent is read), "reset"
  revents,        \* of the running handleEvent: events not handled yet
  tasks,          \* functors of this connection: those being run, then those queued
  batch,          \* how many of tasks were swapped out by doingPendingFunctors
  held,           \* that vector still holds a reference from a functor it has run
  tpc,            \* per thread: no reference, idle, or inside a call
  inMap,          \* the server's connection_map_ holds a reference
  removing,       \* removeConnection functors that the server's loop has still to run
  stream,         \* bytes that sendInLoop has accepted, in order
  used,           \* messages (and the file) already given to send
  downs           \* calls of connection_callback_ for a connection that ended

dataVars == <<output_buffer_, wire, stream>>
fileVars == <<sending_file, count_>>
refVars == <<inMap, removing>>
batchVars == <<batch, held>>
vars == <<state_, events, dataVars, fileVars, shutWr, sock, revents, tasks, batchVars, tpc,
          refVars, used, downs>>

File == "file"
Bytes(m, len) == [i \in 1..len |-> <<m, i>>]
FileBytes == Bytes(File, FileLen)
Byte == (Messages \X (1..MessageLen)) \cup ({File} \X (1..FileLen))

States == {"kConnecting", "kConnected", "kDisConnecting", "kDisConnected"}

\* Functors that hold a TcpConnectionPtr, and those that hold a raw `this`.
OwningOps == {"connectionEstablished", "connectionDestroyed"}
RawOps == {"sendInLoop", "sendFileInLoop", "shutDownInLoop", "writeComplete", "highWaterMark"}

Op(name) == [op |-> name, msg |-> File]

\* gone: holds no reference; idle: in no call; a call: <<its name, its next step, message>>
ThreadStates ==
  {<<"gone">>, <<"idle">>} \cup {<<"send", m>> : m \in Messages}
    \cup {<<"sendFile", "set">>, <<"sendFile", "queue">>, <<"shutdown", "set">>, <<"shutdown", "queue">>}

TypeOK ==
  /\ state_ \in States
  /\ events \in SUBSET {"read", "write"}
  /\ output_buffer_ \in Seq(Byte)
  /\ sending_file \in BOOLEAN
  /\ count_ \in 0..FileLen
  /\ wire \in Seq(Byte)
  /\ shutWr \in BOOLEAN
  /\ sock \in {"ok", "eof", "reset"}
  /\ revents \in SUBSET {"HUP", "IN", "OUT", "ERR"}
  /\ tasks \in Seq([op : OwningOps \cup RawOps, msg : Messages \cup {File}])
  /\ batch \in 0..Len(tasks)
  /\ held \in BOOLEAN
  /\ tpc \in [Threads -> ThreadStates]
  /\ inMap \in BOOLEAN
  /\ removing \in Nat
  /\ stream \in Seq(Byte)
  /\ used \in SUBSET (Messages \cup {File})
  /\ downs \in Nat

\* As TcpServer::newConnection leaves it.
Init ==
  /\ state_ = "kConnecting"
  /\ events = {}
  /\ output_buffer_ = <<>>
  /\ sending_file = FALSE
  /\ count_ = 0
  /\ wire = <<>>
  /\ shutWr = FALSE
  /\ sock = "ok"
  /\ revents = {}
  /\ tasks = <<Op("connectionEstablished")>>
  /\ batch = 0
  /\ held = FALSE
  /\ tpc = [t \in Threads |-> <<"idle">>]
  /\ inMap = TRUE
  /\ removing = 0
  /\ stream = <<>>
  /\ used = {}
  /\ downs = 0

isWriting == "write" \in events

\* No shared_ptr is left: not in the map, not in a functor of either loop (run or not),
\* not with a thread, not as the guard of a running handleEvent.
Freed ==
  /\ ~inMap
  /\ removing = 0
  /\ \A i \in DOMAIN tasks : tasks[i].op \notin OwningOps
  /\ ~held
  /\ revents = {}
  /\ \A t \in Threads : tpc[t] = <<"gone">>

-----------------------------------------------------------------------------
(* Sending.  The loop's functors and handlers are atomic: other threads    *)
(* share state_, the fields of sendFile and the queue with them, and the   *)
(* steps at which they touch these are actions of their own.  `rest` is    *)
(* the queue that the handler leaves, before it appends to it.             *)

GivesUp_Never == FALSE
GivesUp_OnlyClosed == state_ = "kDisConnected"

\* "give up writing"
GivesUp == state_ \in {"kDisConnected", "kDisConnecting"}

WritesDirectly_NotWriting == TRUE

\* Nothing is waiting, so that write() may be called at once.
WritesDirectly == ~isWriting /\ output_buffer_ = <<>>

InterestAfterSend_Unchanged(remaining) == events

\* enableWriting(), if something was left to the buffer.
InterestAfterSend(remaining) == IF remaining > 0 THEN events \cup {"write"} ELSE events

CrossesHighWater(remaining) ==
  /\ Len(output_buffer_) + remaining >= high_water_mark_
  /\ Len(output_buffer_) < high_water_mark_

\* sendInLoop(m), when write() takes n bytes (none: EWOULDBLOCK, or not called).
sendBytes(m, n, rest) ==
  LET bytes == Bytes(m, MessageLen)
      remaining == MessageLen - n
      complete == IF remaining = 0 THEN <<Op("writeComplete")>> ELSE <<>>
      highWater == IF remaining > 0 /\ CrossesHighWater(remaining)
                   THEN <<Op("highWaterMark")>> ELSE <<>>
  IN /\ n > 0 => WritesDirectly
     /\ WritesDirectly => sock # "reset"
     /\ wire' = wire \o SubSeq(bytes, 1, n)
     /\ output_buffer_' = output_buffer_ \o SubSeq(bytes, n + 1, MessageLen)
     /\ stream' = stream \o bytes
     /\ events' = InterestAfterSend(remaining)
     /\ tasks' = rest \o complete \o highWater

\* EPIPE or ECONNRESET: the data is dropped, the channel will report the error.
sendFault(rest) ==
  /\ WritesDirectly
  /\ sock = "reset"
  /\ tasks' = rest
  /\ UNCHANGED <<dataVars, events>>

sendInLoop(m, rest) ==
  /\ \/ /\ GivesUp
        /\ tasks' = rest
        /\ UNCHANGED <<dataVars, events>>
     \/ ~GivesUp /\ \E n \in 0..MessageLen : sendBytes(m, n, rest)
     \/ ~GivesUp /\ sendFault(rest)
  /\ UNCHANGED <<state_, fileVars, shutWr, downs>>

\* The file has been sent to its end (count_ is not brought up to date).
fileComplete(count, rest) ==
  /\ sending_file' = FALSE
  /\ count_' = count
  /\ events' = events \ {"write"}
  /\ tasks' = Append(rest, Op("writeComplete"))

\* Some of the file is left: go on at the next EPOLLOUT.
fileRemains(remaining, rest) ==
  /\ sending_file' = TRUE
  /\ count_' = remaining
  /\ events' = events \cup {"write"}
  /\ tasks' = rest

\* The connection is down, or sendfile() fails with EPIPE or ECONNRESET.
fileGivenUp(count, rest) ==
  /\ sending_file' = FALSE
  /\ count_' = count
  /\ tasks' = rest
  /\ UNCHANGED <<events, wire>>

sendFileAt_FromStart(count, n) == SubSeq(FileBytes, 1, n)

\* The n bytes that sendfile() takes at fd_offset_.
sendFileAt(count, n) == SubSeq(FileBytes, FileLen - count + 1, FileLen - count + n)

\* sendFileInLoop() with `count` in count_.  sending_file is on: with one file to a
\* connection it never runs otherwise (FileInOrder).
sendFileInLoop(count, rest) ==
  /\ \/ /\ GivesUp \/ sock = "reset"
        /\ fileGivenUp(count, rest)
     \/ /\ ~GivesUp /\ sock # "reset"
        /\ \E n \in 0..count :
             /\ wire' = wire \o sendFileAt(count, n)
             /\ IF n = count THEN fileComplete(count, rest) ELSE fileRemains(count - n, rest)
  /\ UNCHANGED <<state_, output_buffer_, stream, shutWr, downs>>

shutDownInLoop_Always(interest) == shutWr' = TRUE

\* The write end is closed now if nothing is waiting to be written.
shutDownInLoop(interest) == shutWr' = (shutWr \/ "write" \notin interest)

-----------------------------------------------------------------------------
(* Calls of send(), sendFile() and shutdown() on the loop's thread, from a *)
(* callback or a functor: runInLoop runs them on the spot.                 *)

\* "one connection handles only data or one file" (test_TcpConnection.h:27)
MaySend(m) == m \notin used /\ File \notin used
MaySendFile == used = {}

LoopSend(m) ==
  /\ ~Freed
  /\ state_ = "kConnected"
  /\ MaySend(m)
  /\ used' = used \cup {m}
  /\ sendInLoop(m, tasks)
  /\ UNCHANGED <<sock, revents, batchVars, tpc, refVars>>

\* sendFile() sets its fields, then sends the first part at once.
LoopSendFile ==
  /\ ~Freed
  /\ state_ = "kConnected"
  /\ MaySendFile
  /\ used' = used \cup {File}
  /\ sendFileInLoop(FileLen, tasks)
  /\ UNCHANGED <<sock, revents, batchVars, tpc, refVars>>

LoopShutdown ==
  /\ ~Freed
  /\ state_ = "kConnected"
  /\ state_' = "kDisConnecting"
  /\ shutDownInLoop(events)
  /\ UNCHANGED <<events, dataVars, fileVars, sock, revents, tasks, batchVars, tpc, refVars, used, downs>>

-----------------------------------------------------------------------------
(* Calls of another thread, which holds a TcpConnectionPtr meanwhile.      *)

ThreadCall_ShutdownUntested(t, call) ==
  /\ tpc[t] = <<"idle">>
  /\ call[1] # "shutdown" => state_ = "kConnected"
  /\ \/ \E m \in Messages : MaySend(m) /\ call = <<"send", m>> /\ used' = used \cup {m}
     \/ MaySendFile /\ call = <<"sendFile", "set">> /\ used' = used \cup {File}
     \/ call = <<"shutdown", "set">> /\ UNCHANGED used
  /\ tpc' = [tpc EXCEPT ![t] = call]
  /\ UNCHANGED <<state_, events, dataVars, fileVars, shutWr, sock, batchVars, revents, tasks, refVars, downs>>

\* The test of state_ ...
ThreadCall(t, call) ==
  /\ tpc[t] = <<"idle">>
  /\ state_ = "kConnected"
  /\ \/ \E m \in Messages : MaySend(m) /\ call = <<"send", m>> /\ used' = used \cup {m}
     \/ MaySendFile /\ call = <<"sendFile", "set">> /\ used' = used \cup {File}
     \/ call = <<"shutdown", "set">> /\ UNCHANGED used
  /\ tpc' = [tpc EXCEPT ![t] = call]
  /\ UNCHANGED <<state_, events, dataVars, fileVars, shutWr, sock, batchVars, revents, tasks, refVars, downs>>

ThreadQueue(t, functor) ==
  /\ tasks' = Append(tasks, functor)
  /\ tpc' = [tpc EXCEPT ![t] = <<"idle">>]
  /\ UNCHANGED <<state_, events, dataVars, shutWr, sock, batchVars, revents, refVars, used, downs>>

\* ... and what send(), sendFile() and shutdown() do after it.
ThreadSend(t) ==
  /\ tpc[t][1] = "send"
  /\ ThreadQueue(t, [op |-> "sendInLoop", msg |-> tpc[t][2]])
  /\ UNCHANGED fileVars

\* sendFile() sets its fields, which the loop's thread reads ...
ThreadSetFile(t) ==
  /\ tpc[t] = <<"sendFile", "set">>
  /\ sending_file' = TRUE
  /\ count_' = FileLen
  /\ tpc' = [tpc EXCEPT ![t] = <<"sendFile", "queue">>]
  /\ UNCHANGED <<state_, events, dataVars, shutWr, sock, batchVars, revents, tasks, refVars, used, downs>>

\* ... before it hands over the functor.
ThreadSendFile(t) ==
  /\ tpc[t] = <<"sendFile", "queue">>
  /\ ThreadQueue(t, Op("sendFileInLoop"))
  /\ UNCHANGED fileVars

ThreadSetState(t) ==
  /\ tpc[t] = <<"shutdown", "set">>
  /\ state_' = "kDisConnecting"
  /\ tpc' = [tpc EXCEPT ![t] = <<"shutdown", "queue">>]
  /\ UNCHANGED <<events, dataVars, fileVars, shutWr, sock, batchVars, revents, tasks, refVars, used, downs>>

ThreadShutdown(t) ==
  /\ tpc[t] = <<"shutdown", "queue">>
  /\ ThreadQueue(t, Op("shutDownInLoop"))
  /\ UNCHANGED fileVars

ThreadDropRef(t) ==
  /\ tpc[t] = <<"idle">>
  /\ tpc' = [tpc EXCEPT ![t] = <<"gone">>]
  /\ UNCHANGED <<state_, events, dataVars, fileVars, shutWr, sock, batchVars, revents, tasks, refVars, used, downs>>

-----------------------------------------------------------------------------
(* The functors.  A raw `this` is followed only while the object exists:   *)
(* see RawFunctorsHaveOwner.                                               *)

connectionEstablished ==
  /\ state_' = "kConnected"
  /\ events' = events \cup {"read"}
  /\ UNCHANGED <<dataVars, fileVars, shutWr, downs>>

\* For a connection that is still open, only when the server is destroyed.
connectionDestroyed ==
  /\ \/ /\ state_ \in {"kConnected", "kDisConnecting"}
        /\ state_' = "kDisConnected"
        /\ events' = {}
        /\ downs' = downs + 1
     \/ /\ state_ \notin {"kConnected", "kDisConnecting"}
        /\ UNCHANGED <<state_, events, downs>>
  /\ UNCHANGED <<dataVars, fileVars, shutWr>>

\* The next functor of the batch, the first one after the swap.  The swapped vector,
\* and with it the references in its functors, lives until the last one has run.
NextInBatch ==
  LET left == IF batch = 0 THEN Len(tasks) ELSE batch
  IN /\ batch' = left - 1
     /\ held' = (left > 1 /\ (held \/ Head(tasks).op \in OwningOps))

RunFunctor ==
  /\ tasks # <<>>
  /\ revents = {}
  /\ NextInBatch
  /\ Head(tasks).op \in RawOps => ~Freed
  /\ \/ /\ Head(tasks).op = "connectionEstablished"
        /\ connectionEstablished
        /\ tasks' = Tail(tasks)
     \/ /\ Head(tasks).op = "connectionDestroyed"
        /\ connectionDestroyed
        /\ tasks' = Tail(tasks)
     \/ Head(tasks).op = "sendInLoop" /\ sendInLoop(Head(tasks).msg, Tail(tasks))
     \/ Head(tasks).op = "sendFileInLoop" /\ sendFileInLoop(count_, Tail(tasks))
     \/ /\ Head(tasks).op = "shutDownInLoop"
        /\ shutDownInLoop(events)
        /\ tasks' = Tail(tasks)
        /\ UNCHANGED <<state_, events, dataVars, fileVars, downs>>
     \/ /\ Head(tasks).op \in {"writeComplete", "highWaterMark"}   \* user code
        /\ tasks' = Tail(tasks)
        /\ UNCHANGED <<state_, events, dataVars, fileVars, shutWr, downs>>
  /\ UNCHANGED <<sock, revents, tpc, refVars, used>>

-----------------------------------------------------------------------------
(* handleEvent: close, read, write, error, as far as revents asks for them *)

\* What epoll can report: what the channel wants and, unasked, HUP and ERR.
Reportable ==
  {e \in {"IN"} : "read" \in events} \cup {e \in {"OUT"} : isWriting}
    \cup {e \in {"HUP"} : sock = "reset" \/ (sock = "eof" /\ shutWr)}
    \cup {e \in {"ERR"} : sock = "reset"}

PollReturn(ready) ==
  /\ events # {}
  /\ revents = {} /\ batch = 0
  /\ ready \in SUBSET Reportable \ {{}}
  /\ revents' = ready
  /\ UNCHANGED <<state_, events, dataVars, fileVars, shutWr, sock, tasks, batchVars, tpc, refVars, used, downs>>

\* handleClose(): the user's callback, then the server's removeConnection, which goes
\* to the server's loop.  (That the server outlives the call is not questioned here.)
handleClose ==
  /\ state_' = "kDisConnected"
  /\ events' = {}
  /\ downs' = downs + 1
  /\ removing' = removing + 1
  /\ UNCHANGED <<dataVars, fileVars, shutWr, tasks, inMap>>

HandlerFrame == UNCHANGED <<sock, batchVars, tpc, used>>

CloseCallback ==
  /\ "HUP" \in revents /\ "IN" \notin revents
  /\ revents' = revents \ {"HUP"}
  /\ handleClose
  /\ HandlerFrame

\* handleRead(): data for message_callback_, or the end of the stream or an error of
\* any kind (EAGAIN included), which both close the connection.
ReadCallback ==
  /\ "IN" \in revents
  /\ revents' = revents \ {"IN", "HUP"}
  /\ \/ /\ sock = "ok"
        /\ UNCHANGED <<state_, events, dataVars, fileVars, shutWr, tasks, refVars, downs>>
     \/ handleClose
  /\ HandlerFrame

\* handleWrite() with n bytes of the buffer taken by the kernel.
writeBuffer_NoShutdown(n) ==
  LET drained == n = Len(output_buffer_)
      interest == IF drained THEN events \ {"write"} ELSE events
  IN /\ wire' = wire \o SubSeq(output_buffer_, 1, n)
     /\ output_buffer_' = SubSeq(output_buffer_, n + 1, Len(output_buffer_))
     /\ events' = interest
     /\ tasks' = IF drained THEN Append(tasks, Op("writeComplete")) ELSE tasks
     /\ UNCHANGED <<shutWr, stream>>

writeBuffer(n) ==
  LET drained == n = Len(output_buffer_)
      interest == IF drained THEN events \ {"write"} ELSE events
  IN /\ wire' = wire \o SubSeq(output_buffer_, 1, n)
     /\ output_buffer_' = SubSeq(output_buffer_, n + 1, Len(output_buffer_))
     /\ events' = interest
     /\ tasks' = IF drained THEN Append(tasks, Op("writeComplete")) ELSE tasks
     /\ IF state_ = "kDisConnecting" THEN shutDownInLoop(interest) ELSE UNCHANGED shutWr
     /\ UNCHANGED stream

WriteTurn ==
  /\ "OUT" \in revents
  /\ {"HUP", "IN"} \cap revents = {}
  /\ revents' = revents \ {"OUT"}
  /\ UNCHANGED refVars
  /\ HandlerFrame

WriteBytes ==
  /\ WriteTurn
  /\ isWriting /\ output_buffer_ # <<>>
  /\ sock # "reset"
  /\ \E n \in 1..Len(output_buffer_) : writeBuffer(n)
  /\ UNCHANGED <<state_, fileVars, downs>>

WriteFile ==
  /\ WriteTurn
  /\ isWriting /\ output_buffer_ = <<>> /\ sending_file
  /\ sendFileInLoop(count_, tasks)

\* write() failed, or there is nothing to write: only logged.
WriteNothing ==
  /\ WriteTurn
  /\ (isWriting /\ output_buffer_ = <<>>) => ~sending_file
  /\ UNCHANGED <<state_, events, dataVars, fileVars, shutWr, tasks, downs>>

ErrorCallback ==
  /\ revents = {"ERR"}
  /\ revents' = {}
  /\ handleClose
  /\ HandlerFrame

-----------------------------------------------------------------------------
(* The server's loop, and the peer                                         *)

\* removeConnectionInLoop: off the map, and connectionDestroyed to the io loop.
removeConnectionInLoop ==
  /\ removing > 0
  /\ removing' = removing - 1
  /\ inMap' = FALSE
  /\ tasks' = Append(tasks, Op("connectionDestroyed"))
  /\ UNCHANGED <<state_, events, dataVars, fileVars, shutWr, sock, revents, batchVars, tpc, used, downs>>

\* ~TcpServer, while no removeConnection is on its way.
DestroyServer ==
  /\ inMap /\ removing = 0
  /\ inMap' = FALSE
  /\ tasks' = Append(tasks, Op("connectionDestroyed"))
  /\ UNCHANGED <<state_, events, dataVars, fileVars, shutWr, sock, revents, batchVars, tpc, removing, used, downs>>

PeerActs ==
  /\ \/ sock = "ok" /\ sock' = "eof"
     \/ sock # "reset" /\ sock' = "reset"
  /\ UNCHANGED <<state_, events, dataVars, fileVars, shutWr, revents, tasks, batchVars, tpc, refVars, used, downs>>

-----------------------------------------------------------------------------
LoopCall == LoopShutdown \/ LoopSendFile \/ \E m \in Messages : LoopSend(m)

ThreadStep(t) ==
  \/ ThreadSend(t)
  \/ ThreadSetFile(t) \/ ThreadSendFile(t)
  \/ ThreadSetState(t) \/ ThreadShutdown(t)

Callback == CloseCallback \/ ReadCallback \/ WriteBytes \/ WriteFile \/ WriteNothing \/ ErrorCallback

Next ==
  \/ LoopCall
  \/ \E t \in Threads :
       \/ \E call \in ThreadStates : ThreadCall(t, call)
       \/ ThreadStep(t)
       \/ ThreadDropRef(t)
  \/ RunFunctor
  \/ \E ready \in SUBSET {"HUP", "IN", "OUT", "ERR"} : PollReturn(ready)
  \/ Callback
  \/ removeConnectionInLoop
  \/ DestroyServer
  \/ PeerActs

Spec == Init /\ [][Next]_vars

PollWritable == \E ready \in SUBSET {"HUP", "IN", "OUT", "ERR"} : "OUT" \in ready /\ PollReturn(ready)
PollPeerGone ==
  \E ready \in SUBSET {"HUP", "IN", "OUT", "ERR"} :
    ("ERR" \in ready \/ (sock = "eof" /\ "IN" \in ready)) /\ PollReturn(ready)

\* The loop and the threads run, and every round of the loop runs the functors too.  A
\* descriptor that stays writable, or whose peer is gone, is reported again and again
\* (level triggering), and the peer reads now and then.
Fairness ==
  /\ SF_vars(RunFunctor)
  /\ WF_vars(Callback)
  /\ SF_vars(PollWritable) /\ SF_vars(PollPeerGone)
  /\ SF_vars(WriteBytes)
  /\ \A t \in Threads : WF_vars(ThreadStep(t))

FairSpec == Spec /\ Fairness

-----------------------------------------------------------------------------
(* Properties                                                              *)

\* The bytes the kernel has taken, followed by those in the buffer, are the bytes
\* sendInLoop accepted, in that order, however writes were cut up and whichever
\* threads sent them (TcpConnection.cc:142-186, 355-361).
StreamInOrder == File \notin used => wire \o output_buffer_ = stream

\* Data in the buffer of an open connection has EPOLLOUT to drain it, and EPOLLOUT is
\* not left on with nothing to send, which would make the loop spin (TcpConnection.cc:189,
\* 366).  With a file it may: see ShutdownCompletes.
InterestFollowsBuffer ==
  /\ output_buffer_ # <<>> /\ downs = 0 => isWriting
  /\ isWriting /\ File \notin used => output_buffer_ # <<>>

\* The write end is closed only after the last buffered byte (TcpConnection.cc:378,
\* 440), unless the connection is over anyway.
FinAfterData == shutWr /\ downs = 0 => output_buffer_ = <<>>

\* A connection whose write end is closed, or that has ended, never takes itself for
\* connected again, whatever a late shutdown() of another thread assigns and whichever
\* functors are still queued (TcpConnection.cc:68-75, 401, 437-444): no later send() is
\* accepted.
EndIsPermanent == shutWr \/ downs > 0 => state_ \in {"kDisConnecting", "kDisConnected"}

\* No byte is written after the write end was closed, although sends of other threads
\* may still be queued then (TcpConnection.cc:136).
NothingAfterFin == [][shutWr => wire' = wire]_vars

\* After the end of a connection its channel is never watched again: what is still
\* queued, and the state_ that a late shutdown() sets, re-enable nothing
\* (TcpConnection.cc:136, 225, 399).
ClosedStaysSilent == [][downs > 0 => events' = {}]_vars

\* A connection being shut down that has sent messages closes its write end once the
\* buffer is drained, or ends first (TcpConnection.cc:66-77, 379).
DataShutdownCompletes ==
  state_ = "kDisConnecting" /\ File \notin used ~> shutWr \/ downs > 0

\* What the peer gets of a file is a part of it from its first byte on; while the file
\* is being sent count_ is what is left; and a queued sendFileInLoop finds sending_file
\* as sendFile() has set it (TcpConnection.cc:201, 238-241, 282).
FileInOrder ==
  File \in used =>
    /\ wire = SubSeq(FileBytes, 1, Len(wire))
    /\ isWriting /\ sending_file => Len(wire) = FileLen - count_
    /\ (\E i \in DOMAIN tasks : tasks[i].op = "sendFileInLoop") => sending_file

-----------------------------------------------------------------------------
(* What comments and tests say and the code does not do                    *)

\* TcpConnection.cc:378: whoever stops a connection before all is sent has its write
\* end closed (or it ends first); with a file too.
ShutdownCompletes == state_ = "kDisConnecting" ~> shutWr \/ downs > 0

\* README.md:5: the interface may be used from any thread.  A functor it leaves in
\* the queue must then find its connection alive.
RawFunctorsHaveOwner == Freed => \A i \in DOMAIN tasks : tasks[i].op \notin RawOps
=============================================================================

------------------------- MODULE TcpConnectionProofs -------------------------
(***************************************************************************)
(* A connection with any number of threads that use it, any messages and   *)
(* any lengths: what it writes comes out whole and in order, also a file,  *)
(* nothing follows the end of its stream, and a channel that is closed is  *)
(* not watched again.                                                      *)
(***************************************************************************)
EXTENDS TcpConnection, SequenceTheorems, TLAPS

\* Before connectionEstablished, which runs once and first, nothing happens.
Connecting ==
  /\ \A i \in DOMAIN tasks : tasks[i].op = "connectionEstablished" => i = 1 /\ state_ = "kConnecting"
  /\ state_ = "kConnecting" =>
       /\ used = {} /\ events = {} /\ revents = {} /\ downs = 0 /\ ~shutWr
       /\ \A t \in Threads : tpc[t] \in {<<"idle">>, <<"gone">>}
       /\ \A i \in DOMAIN tasks : tasks[i].op \in OwningOps

\* Once a shutdown() has come past its assignment, or the connection is over, nothing
\* is sent any more; once it is over its channel is not watched.
Closing ==
  /\ shutWr => GivesUp
  /\ downs > 0 => GivesUp /\ events = {}
  /\ \A i \in DOMAIN tasks : tasks[i].op = "shutDownInLoop" => GivesUp
  /\ \A t \in Threads : tpc[t] = <<"shutdown", "queue">> => GivesUp

\* Where a thread is inside sendFile().
FileCalls == {<<"sendFile", "set">>, <<"sendFile", "queue">>}

\* A connection sends messages or a file, and only what it was given.
OneKind ==
  /\ File \in used => used = {File}
  /\ \A i \in DOMAIN tasks :
       /\ tasks[i].op = "sendInLoop" => tasks[i].msg \in used \cap Messages
       /\ tasks[i].op = "sendFileInLoop" => File \in used
  /\ \A t \in Threads :
       /\ tpc[t][1] = "send" => tpc[t][2] \in used
       /\ tpc[t] \in FileCalls => File \in used
  /\ sending_file => File \in used
  /\ used = {} => wire = <<>>
  /\ used = {} \/ File \in used => output_buffer_ = <<>> /\ stream = <<>>

\* How far the file has come.  There is one sendFile(): in its call, before or after it
\* has set the fields, in the queue, or past both.
FileProgress ==
  File \in used =>
    /\ Len(wire) <= FileLen /\ wire = SubSeq(FileBytes, 1, Len(wire))
    /\ sending_file => Len(wire) = FileLen - count_
    /\ \A i \in DOMAIN tasks :
         tasks[i].op = "sendFileInLoop" =>
           /\ sending_file /\ ~isWriting
           /\ \A j \in DOMAIN tasks : tasks[j].op = "sendFileInLoop" => j = i
           /\ \A t \in Threads : tpc[t] \notin FileCalls
    /\ \A t \in Threads :
         tpc[t] \in FileCalls =>
           /\ sending_file <=> tpc[t] = <<"sendFile", "queue">>
           /\ ~isWriting /\ wire = <<>>
           /\ \A u \in Threads : tpc[u] \in FileCalls => u = t

\* The conjunction that is inductive.
ConnInv ==
  /\ TypeOK
  /\ Connecting
  /\ Closing
  /\ OneKind
  /\ StreamInOrder
  /\ InterestFollowsBuffer
  /\ FinAfterData
  /\ FileProgress

-----------------------------------------------------------------------------
(* Sequences of bytes                                                      *)

\* The two parts of a sequence, which together are the whole.
LEMMA Cut ==
  ASSUME NEW S, NEW s \in Seq(S), NEW n \in 0..Len(s)
  PROVE  /\ SubSeq(s, 1, n) \in Seq(S) /\ SubSeq(s, n + 1, Len(s)) \in Seq(S)
         /\ Len(SubSeq(s, 1, n)) = n /\ Len(SubSeq(s, n + 1, Len(s))) = Len(s) - n
         /\ SubSeq(s, 1, n) \o SubSeq(s, n + 1, Len(s)) = s
<1>1. Len(s) \in Nat /\ n \in Int /\ \A i \in 1..Len(s) : s[i] \in S
  OBVIOUS
<1>2. SubSeq(s, 1, n) \in Seq(S) /\ Len(SubSeq(s, 1, n)) = n
  <2>1. \A i \in 1..n : s[i] \in S
    BY <1>1
  <2> QED
    BY <1>1, <2>1, SubSeqProperties
<1>3. SubSeq(s, n + 1, Len(s)) \in Seq(S) /\ Len(SubSeq(s, n + 1, Len(s))) = Len(s) - n
  <2>1. \A i \in (n + 1)..Len(s) : s[i] \in S
    BY <1>1
  <2>2. n + 1 \in Int /\ Len(s) \in Int
    BY <1>1
  <2>3. /\ SubSeq(s, n + 1, Len(s)) \in Seq(S)
        /\ Len(SubSeq(s, n + 1, Len(s))) = IF n + 1 <= Len(s) THEN Len(s) - (n + 1) + 1 ELSE 0
    BY <2>1, <2>2, SubSeqProperties
  <2> QED
    BY <1>1, <2>3
<1>4. SubSeq(s, 1, n) \o SubSeq(s, n + 1, Len(s)) = SubSeq(s, 1, Len(s))
  <2>1. 1 \in 1..(Len(s) + 1) /\ n \in (1 - 1)..Len(s) /\ Len(s) \in n..Len(s)
    BY <1>1
  <2> QED
    BY <2>1, ConcatAdjacentSubSeq
<1> QED
  BY <1>2, <1>3, <1>4, SubSeqFull

\* The kernel takes the front of what is waiting.
LEMMA MoveFront ==
  ASSUME NEW S, NEW w \in Seq(S), NEW b \in Seq(S), NEW n \in 0..Len(b)
  PROVE  (w \o SubSeq(b, 1, n)) \o SubSeq(b, n + 1, Len(b)) = w \o b
<1>1. PICK x : x = SubSeq(b, 1, n)
  OBVIOUS
<1>2. PICK y : y = SubSeq(b, n + 1, Len(b))
  OBVIOUS
<1>3. x \in Seq(S) /\ y \in Seq(S)
  BY <1>1, <1>2, Cut
<1>4. x \o y = b
  BY <1>1, <1>2, Cut
<1>5. (w \o x) \o y = w \o (x \o y)
  BY <1>3, ConcatAssociative, SMTT(30)
<1> QED
  BY <1>1, <1>2, <1>4, <1>5

\* write() takes x, the front of a message, while nothing is waiting, and the buffer
\* gets y, the rest; or the buffer gets the whole message behind what is waiting.
LEMMA WriteFront ==
  ASSUME NEW S, NEW w \in Seq(S), NEW x \in Seq(S), NEW y \in Seq(S)
  PROVE  (w \o x) \o y = w \o (x \o y)
BY ConcatAssociative

LEMMA EmptySum ==
  ASSUME NEW S, NEW s \in Seq(S), NEW t \in Seq(S)
  PROVE  /\ s \o <<>> = s /\ <<>> \o s = s
         /\ s = <<>> <=> Len(s) = 0
         /\ s \o t \in Seq(S) /\ Len(s \o t) = Len(s) + Len(t) /\ Len(s) \in Nat
         /\ s \o t = <<>> <=> s = <<>> /\ t = <<>>
BY ConcatEmptySeq, EmptySeq, LenProperties, ConcatProperties

\* What a message and the file are made of.
LEMMA BytesType ==
  /\ \A m \in Messages : Bytes(m, MessageLen) \in Seq(Byte) /\ Len(Bytes(m, MessageLen)) = MessageLen
  /\ FileBytes \in Seq(Byte) /\ Len(FileBytes) = FileLen
<1>0. MessageLen \in Nat /\ FileLen \in Nat
  BY LengthsAssumption
<1>1. ASSUME NEW m \in Messages
      PROVE  Bytes(m, MessageLen) \in Seq(Byte) /\ Len(Bytes(m, MessageLen)) = MessageLen
  <2>1. Bytes(m, MessageLen) \in [1..MessageLen -> Byte]
    BY DEF Bytes, Byte
  <2> QED
    BY <1>0, <2>1, IsASeq, LenProperties
<1>2. FileBytes \in Seq(Byte) /\ Len(FileBytes) = FileLen
  <2>1. FileBytes \in [1..FileLen -> Byte]
    BY DEF FileBytes, Bytes, Byte, File
  <2> QED
    BY <1>0, <2>1, IsASeq, LenProperties
<1> QED
  BY <1>1, <1>2

LEMMA NothingSent ==
  Len(<<>>) = 0 /\ FileLen \in 0..FileLen /\ 0 <= FileLen /\ FileLen - FileLen = 0
    /\ <<>> = SubSeq(FileBytes, 1, Len(<<>>))
<1>1. FileLen \in Nat /\ Len(<<>>) = 0
  BY LengthsAssumption
<1>2. SubSeq(FileBytes, 1, 0) \in Seq(Byte) /\ Len(SubSeq(FileBytes, 1, 0)) = 0
  <2>1. FileBytes \in Seq(Byte) /\ 0 \in 0..Len(FileBytes)
    BY <1>1, BytesType
  <2> QED
    BY <2>1, Cut
<1>3. SubSeq(FileBytes, 1, 0) = <<>>
  BY <1>2, EmptySum
<1> QED
  BY <1>1, <1>3

\* sendfile() goes on where the last one stopped.
LEMMA FileGoesOn ==
  ASSUME NEW w \in Seq(Byte), NEW count \in 0..FileLen, Len(w) = FileLen - count,
         w = SubSeq(FileBytes, 1, Len(w)), NEW n \in 0..count
  PROVE  /\ w \o sendFileAt(count, n) \in Seq(Byte)
         /\ Len(w \o sendFileAt(count, n)) = FileLen - (count - n)
         /\ w \o sendFileAt(count, n) = SubSeq(FileBytes, 1, Len(w \o sendFileAt(count, n)))
<1> DEFINE k == FileLen - count
<1>1. /\ FileLen \in Nat /\ k \in 0..FileLen /\ k + n \in k..FileLen /\ n \in Nat
      /\ FileLen - count + 1 = k + 1 /\ FileLen - count + n = k + n /\ FileLen - (count - n) = k + n
  BY LengthsAssumption
<1>2. FileBytes \in Seq(Byte) /\ Len(FileBytes) = FileLen
  BY BytesType
<1>3. sendFileAt(count, n) = SubSeq(FileBytes, k + 1, k + n)
  BY <1>1 DEF sendFileAt
<1> HIDE DEF k
<1>4. w = SubSeq(FileBytes, 1, k) /\ Len(w) = k
  BY DEF k
<1>5. SubSeq(FileBytes, 1, k) \o SubSeq(FileBytes, k + 1, k + n) = SubSeq(FileBytes, 1, k + n)
  <2>1. 1 \in 1..(Len(FileBytes) + 1) /\ k \in (1 - 1)..Len(FileBytes) /\ k + n \in k..Len(FileBytes)
    BY <1>1, <1>2
  <2> QED
    BY <1>2, <2>1, ConcatAdjacentSubSeq
<1>6. SubSeq(FileBytes, 1, k + n) \in Seq(Byte) /\ Len(SubSeq(FileBytes, 1, k + n)) = k + n
  <2>1. k + n \in 0..Len(FileBytes)
    BY <1>1, <1>2
  <2> QED
    BY <1>2, <2>1, Cut
<1> QED
  BY <1>1, <1>3, <1>4, <1>5, <1>6

-----------------------------------------------------------------------------
(* The queue of functors                                                   *)

Task == [op : OwningOps \cup RawOps, msg : Messages \cup {File}]
Notices == {Op("writeComplete"), Op("highWaterMark")}

\* The queue loses its first k functors, and gains functors of the set fresh behind.
QueueGoes(k, fresh) ==
  /\ tasks' \in Seq(Task)
  /\ Len(tasks') >= Len(tasks) - k
  /\ \A i \in DOMAIN tasks' :
       \/ i + k \in DOMAIN tasks /\ tasks'[i] = tasks[i + k]
       \/ i > Len(tasks) - k /\ tasks'[i] \in fresh

LEMMA OpType ==
  ASSUME NEW o \in OwningOps \cup RawOps
  PROVE  Op(o) \in Task /\ Op(o).op = o
BY DEF Op, Task

\* The part of tasks that a handler leaves.
Left(k) == IF k = 0 THEN tasks ELSE Tail(tasks)

LEMMA QueueAfter ==
  ASSUME tasks \in Seq(Task), NEW k \in {0, 1}, k = 1 => tasks # <<>>,
         NEW fresh \in SUBSET Task, NEW s \in Seq(fresh), tasks' = Left(k) \o s
  PROVE  QueueGoes(k, fresh)
<1>1. /\ Left(k) \in Seq(Task) /\ Len(Left(k)) = Len(tasks) - k
      /\ \A i \in 1..Len(Left(k)) : i + k \in DOMAIN tasks /\ Left(k)[i] = tasks[i + k]
  <2>1. CASE k = 0
    BY <2>1 DEF Left
  <2>2. CASE k = 1
    BY <2>2, HeadTailProperties DEF Left
  <2> QED
    BY <2>1, <2>2
<1>2. PICK r \in Seq(Task) : r = Left(k)
  BY <1>1
<1>3. s \in Seq(Task) /\ \A i \in 1..Len(s) : s[i] \in fresh
  <2>1. s \in Seq(Task)
    BY SeqMonotonic
  <2> QED
    BY <2>1
<1>4. /\ r \o s \in Seq(Task) /\ Len(r \o s) = Len(r) + Len(s)
      /\ \A i \in 1..(Len(r) + Len(s)) : (r \o s)[i] = IF i <= Len(r) THEN r[i] ELSE s[i - Len(r)]
  BY <1>3, ConcatProperties
<1>5. Len(r) \in Nat /\ Len(s) \in Nat
  BY <1>3
<1>6. tasks' = r \o s /\ DOMAIN tasks' = 1..(Len(r) + Len(s))
  BY <1>2, <1>4
<1>7. Len(r) = Len(tasks) - k /\ \A i \in 1..Len(r) : i + k \in DOMAIN tasks /\ r[i] = tasks[i + k]
  BY <1>1, <1>2
<1>8. ASSUME NEW i \in DOMAIN tasks'
      PROVE  \/ i + k \in DOMAIN tasks /\ tasks'[i] = tasks[i + k]
             \/ i > Len(tasks) - k /\ tasks'[i] \in fresh
  <2>1. i \in Nat /\ i \in 1..(Len(r) + Len(s))
    BY <1>5, <1>6
  <2>2. CASE i <= Len(r)
    <3>1. tasks'[i] = r[i] /\ i \in 1..Len(r)
      BY <1>4, <1>5, <1>6, <2>1, <2>2
    <3> QED
      BY <1>7, <3>1
  <2>3. CASE ~(i <= Len(r))
    <3>1. tasks'[i] = s[i - Len(r)]
      BY <1>4, <1>6, <2>1, <2>3
    <3>2. i - Len(r) \in 1..Len(s) /\ i > Len(r)
      BY <1>5, <2>1, <2>3
    <3> QED
      BY <1>3, <1>7, <3>1, <3>2
  <2> QED
    BY <2>2, <2>3
<1>9. Len(tasks') >= Len(r) /\ tasks' \in Seq(Task)
  BY <1>4, <1>5, <1>6
<1> QED
  BY <1>7, <1>8, <1>9 DEF QueueGoes

LEMMA NoticeType ==
  /\ Notices \subseteq Task
  /\ \A f \in Notices : f.op \in {"writeComplete", "highWaterMark"}
BY OpType DEF Notices, RawOps

LEMMA Empty == /\ \A S : <<>> \in Seq(S)
               /\ DOMAIN <<>> = {} /\ Len(<<>>) = 0
<1>1. <<>> \in Seq({}) /\ Len(<<>>) = 0 /\ DOMAIN <<>> = 1..Len(<<>>)
  OBVIOUS
<1> QED
  BY <1>1

LEMMA JoinNotices ==
  ASSUME NEW q \in Seq(Task), NEW s \in Seq(Notices), NEW r \in Seq(Notices)
  PROVE  \E sr \in Seq(Notices) : (q \o s) \o r = q \o sr
<1>1. s \in Seq(Task) /\ r \in Seq(Task)
  BY NoticeType, SeqMonotonic
<1>2. s \o r \in Seq(Notices)
  BY ConcatProperties
<1>3. (q \o s) \o r = q \o (s \o r)
  BY <1>1, ConcatAssociative
<1> QED
  BY <1>2, <1>3

\* A handler that appends nothing, or nothing but notices.
LEMMA QueueLeft ==
  ASSUME tasks \in Seq(Task), NEW k \in {0, 1}, k = 1 => tasks # <<>>, tasks' = Left(k)
  PROVE  QueueGoes(k, {})
<1>1. Left(k) \in Seq(Task)
  BY HeadTailProperties DEF Left
<1>2. tasks' = Left(k) \o <<>>
  BY <1>1, ConcatEmptySeq
<1>3. <<>> \in Seq({}) /\ {} \in SUBSET Task
  BY Empty
<1> QED
  BY <1>2, <1>3, QueueAfter

LEMMA QueueFewer ==
  ASSUME NEW k, NEW few, NEW more, few \subseteq more, QueueGoes(k, few)
  PROVE  QueueGoes(k, more)
BY DEF QueueGoes

-----------------------------------------------------------------------------
(* The invariant holds at first                                            *)

LEMMA ConnInvInit == Init => ConnInv
<1> SUFFICES ASSUME Init PROVE ConnInv
  OBVIOUS
<1> USE DEF Init
<1>1. Op("connectionEstablished") \in Task /\ Op("connectionEstablished").op = "connectionEstablished"
  BY OpType DEF OwningOps
<1>2. tasks \in Seq(Task) /\ Len(tasks) = 1 /\ DOMAIN tasks = {1} /\ tasks[1] = Op("connectionEstablished")
  BY <1>1
<1>3. \A t \in Threads : tpc[t] = <<"idle">>
  OBVIOUS
<1>4. FileLen \in Nat
  BY LengthsAssumption
<1>5. TypeOK
  <2>1. tpc \in [Threads -> ThreadStates]
    BY DEF ThreadStates
  <2>2. output_buffer_ \in Seq(Byte) /\ wire \in Seq(Byte) /\ stream \in Seq(Byte)
    BY Empty
  <2>3. batch \in 0..Len(tasks) /\ count_ \in 0..FileLen
    BY <1>2, <1>4
  <2> QED
    BY <1>2, <2>1, <2>2, <2>3 DEF TypeOK, States, Task
<1>6. Connecting
  BY <1>1, <1>2, <1>3 DEF Connecting, OwningOps
<1>7. Closing /\ OneKind
  BY <1>1, <1>2, <1>3 DEF Closing, OneKind, FileCalls
<1>8. StreamInOrder /\ InterestFollowsBuffer /\ FinAfterData
  <2>1. wire \o output_buffer_ = stream
    BY Empty, ConcatEmptySeq
  <2> QED
    BY <2>1 DEF StreamInOrder, InterestFollowsBuffer, FinAfterData, isWriting
<1>9. FileProgress
  BY DEF FileProgress
<1> QED
  BY <1>5, <1>6, <1>7, <1>8, <1>9 DEF ConnInv

-----------------------------------------------------------------------------
(* Sending a message                                                       *)

\* What write() takes and what is left to the buffer are the message.
LEMMA SendBytes ==
  ASSUME ConnInv, NEW m \in Messages, NEW n \in 0..MessageLen, NEW rest, sendBytes(m, n, rest),
         File \notin used
  PROVE  /\ wire' \in Seq(Byte) /\ output_buffer_' \in Seq(Byte) /\ stream' \in Seq(Byte)
         /\ wire' \o output_buffer_' = stream'
         /\ \/ output_buffer_' = <<>> /\ events' = events /\ ~isWriting
            \/ output_buffer_' # <<>> /\ events' = events \cup {"write"}
<1>1. PICK b : b = Bytes(m, MessageLen)
  OBVIOUS
<1>2. b \in Seq(Byte) /\ Len(b) = MessageLen /\ MessageLen \in Nat /\ n \in 0..Len(b) /\ MessageLen # 0
  BY <1>1, BytesType, LengthsAssumption
<1>3. /\ wire' = wire \o SubSeq(b, 1, n)
      /\ output_buffer_' = output_buffer_ \o SubSeq(b, n + 1, MessageLen)
      /\ stream' = stream \o b
      /\ events' = InterestAfterSend(MessageLen - n)
      /\ n > 0 => WritesDirectly
  BY <1>1 DEF sendBytes
<1>4. PICK x : x = SubSeq(b, 1, n)
  OBVIOUS
<1>5. PICK y : y = SubSeq(b, n + 1, Len(b))
  OBVIOUS
<1>6. x \in Seq(Byte) /\ y \in Seq(Byte) /\ Len(x) = n /\ Len(y) = MessageLen - n
  BY <1>2, <1>4, <1>5, Cut
<1>7. wire' = wire \o x /\ output_buffer_' = output_buffer_ \o y
  BY <1>2, <1>3, <1>4, <1>5
<1>8. wire \in Seq(Byte) /\ output_buffer_ \in Seq(Byte) /\ stream \in Seq(Byte)
  BY DEF ConnInv, TypeOK
<1>9. wire' \in Seq(Byte) /\ output_buffer_' \in Seq(Byte) /\ stream' \in Seq(Byte)
  <2>1. wire \o x \in Seq(Byte) /\ output_buffer_ \o y \in Seq(Byte) /\ stream \o b \in Seq(Byte)
    BY <1>2, <1>6, <1>8, ConcatProperties
  <2> QED
    BY <1>3, <1>7, <2>1
<1>10. wire \o output_buffer_ = stream
  BY DEF ConnInv, StreamInOrder
<1>11. n > 0 => output_buffer_ = <<>> /\ ~isWriting
  BY <1>3 DEF WritesDirectly
<1>12. wire' \o output_buffer_' = stream'
  <2>1. x \o y = b
    BY <1>2, <1>4, <1>5, Cut
  <2>2. PICK w \in Seq(Byte) : w = wire
    BY <1>8
  <2>3. PICK o \in Seq(Byte) : o = output_buffer_
    BY <1>8
  <2>4. CASE o = <<>>
    <3>1. wire' = w \o x /\ output_buffer_' = y /\ stream = w
      BY <1>6, <1>7, <1>8, <1>10, <2>2, <2>3, <2>4, EmptySum
    <3>2. (w \o x) \o y = w \o (x \o y)
      <4>1. x \in Seq(Byte) /\ y \in Seq(Byte)
        BY <1>6
      <4> QED
        BY <4>1, WriteFront, SMTT(30)
    <3> QED
      BY <1>3, <2>1, <3>1, <3>2
  <2>5. CASE o # <<>>
    <3>1. n = 0
      BY <1>2, <1>11, <2>3, <2>5
    <3>2. x = <<>>
      BY <1>6, <3>1, EmptySum
    <3>3. y = b /\ wire' = w /\ output_buffer_' = o \o b
      BY <1>6, <1>7, <1>8, <2>1, <2>2, <2>3, <3>2, EmptySum
    <3>4. (w \o o) \o b = w \o (o \o b)
      <4>1. b \in Seq(Byte)
        BY <1>2
      <4> QED
        BY <4>1, WriteFront, SMTT(30)
    <3> QED
      BY <1>3, <1>10, <2>2, <2>3, <3>3, <3>4
  <2> QED
    BY <2>4, <2>5
<1>13. output_buffer_' = <<>> <=> output_buffer_ = <<>> /\ y = <<>>
  BY <1>6, <1>7, <1>8, EmptySum
<1>14. y = <<>> <=> n = MessageLen
  BY <1>2, <1>6, EmptySum
<1>15. events' = IF n = MessageLen THEN events ELSE events \cup {"write"}
  BY <1>2, <1>3 DEF InterestAfterSend
<1> QED
  BY <1>2, <1>9, <1>11, <1>12, <1>13, <1>14, <1>15

\* sendInLoop(), called by a functor (k = 1) or on the loop's thread (k = 0).
LEMMA SendInLoopInv ==
  ASSUME ConnInv, NEW m \in Messages, NEW k \in {0, 1}, k = 1 => tasks # <<>>,
         sendInLoop(m, Left(k)), used' = used \cup {m}, File \notin used, state_ # "kConnecting",
         UNCHANGED <<sock, revents, tpc, refVars>>,
         held' \in BOOLEAN, batch' \in Nat, batch' <= Len(tasks) - k
  PROVE  ConnInv'
<1> USE DEF ConnInv, refVars, dataVars, fileVars
<1>1. tasks \in Seq(Task) /\ Left(k) \in Seq(Task)
  BY HeadTailProperties DEF TypeOK, Task, Left
<1>2. QueueGoes(k, Notices)
  <2>0. PICK q \in Seq(Task) : q = Left(k)
    BY <1>1
  <2>1. CASE tasks' = Left(k)
    BY <1>1, <2>1, QueueLeft, QueueFewer
  <2>2. ASSUME NEW n \in 0..MessageLen, sendBytes(m, n, Left(k)) PROVE QueueGoes(k, Notices)
    <3>1. PICK s \in Seq(Notices), r \in Seq(Notices) : tasks' = (Left(k) \o s) \o r
      <4>1. <<>> \in Seq(Notices) /\ <<Op("writeComplete")>> \in Seq(Notices) /\ <<Op("highWaterMark")>> \in Seq(Notices)
        BY Empty DEF Notices
      <4> QED
        BY <2>2, <4>1 DEF sendBytes
    <3>2. PICK sr \in Seq(Notices) : tasks' = Left(k) \o sr
      BY <2>0, <3>1, JoinNotices
    <3> QED
      BY <1>1, <3>2, NoticeType, QueueAfter
  <2> QED
    BY <2>1, <2>2 DEF sendInLoop, sendFault
<1>3. /\ wire' \in Seq(Byte) /\ output_buffer_' \in Seq(Byte) /\ stream' \in Seq(Byte)
      /\ wire' \o output_buffer_' = stream'
      /\ \/ UNCHANGED <<output_buffer_, events>>
         \/ ~GivesUp /\ output_buffer_' = <<>> /\ events' = events /\ ~isWriting
         \/ ~GivesUp /\ output_buffer_' # <<>> /\ events' = events \cup {"write"}
  <2>1. CASE UNCHANGED <<dataVars, events>>
    BY <2>1 DEF TypeOK, StreamInOrder
  <2>2. ASSUME NEW n \in 0..MessageLen, ~GivesUp, sendBytes(m, n, Left(k))
        PROVE  /\ wire' \in Seq(Byte) /\ output_buffer_' \in Seq(Byte) /\ stream' \in Seq(Byte)
               /\ wire' \o output_buffer_' = stream'
               /\ \/ ~GivesUp /\ output_buffer_' = <<>> /\ events' = events /\ ~isWriting
                  \/ ~GivesUp /\ output_buffer_' # <<>> /\ events' = events \cup {"write"}
    BY <2>2, SendBytes
  <2> QED
    BY <2>1, <2>2 DEF sendInLoop, sendFault
<1>4. UNCHANGED <<state_, sending_file, count_, shutWr, downs>>
  BY DEF sendInLoop
<1>5. File \notin used' /\ used' # {}
  BY FileAssumption DEF File
<1>6. /\ tasks' \in Seq(Task) /\ Len(tasks') >= Len(tasks) - k
      /\ \A i \in DOMAIN tasks' : \/ \E j \in DOMAIN tasks : tasks'[i] = tasks[j]
                                  \/ tasks'[i].op \in {"writeComplete", "highWaterMark"}
  BY <1>2, NoticeType DEF QueueGoes
<1>7. TypeOK'
  <2>1. batch' \in 0..Len(tasks')
    <3>1. Len(tasks) \in Nat /\ Len(tasks') \in Nat
      BY <1>1, <1>6
    <3> QED
      BY <1>6, <3>1
  <2>2. events' \in SUBSET {"read", "write"}
    BY <1>3 DEF TypeOK
  <2> QED
    BY <1>3, <1>4, <1>6, <2>1, <2>2 DEF TypeOK, Task
<1>8. Connecting'
  BY <1>4, <1>6 DEF Connecting
<1>9. Closing'
  <2>1. GivesUp' = GivesUp
    BY <1>4 DEF GivesUp
  <2> QED
    BY <1>3, <1>4, <1>6, <2>1 DEF Closing
<1>10. OneKind'
  BY <1>4, <1>5, <1>6 DEF OneKind
<1>11. (StreamInOrder /\ FileProgress)'
  BY <1>3, <1>5 DEF StreamInOrder, FileProgress
<1>12. InterestFollowsBuffer'
  BY <1>3, <1>4, <1>5 DEF InterestFollowsBuffer, isWriting
<1>13. FinAfterData'
  BY <1>3, <1>4 DEF FinAfterData, Closing
<1> QED
  BY <1>7, <1>8, <1>9, <1>10, <1>11, <1>12, <1>13

LEMMA QueueAppend ==
  ASSUME tasks \in Seq(Task), NEW f \in Task, tasks' = Append(tasks, f)
  PROVE  QueueGoes(0, {f})
<1>1. tasks' = Left(0) \o <<f>>
  BY AppendIsConcat DEF Left
<1>2. <<f>> \in Seq({f}) /\ {f} \in SUBSET Task
  OBVIOUS
<1>3. 0 \in {0, 1} /\ (0 = 1 => tasks # <<>>)
  OBVIOUS
<1> QED
  BY <1>1, <1>2, <1>3, QueueAfter

\* What every functor of the next queue is.
LEMMA QueueHas ==
  ASSUME NEW k \in {0, 1}, NEW fresh, tasks \in Seq(Task), QueueGoes(k, fresh)
  PROVE  /\ tasks' \in Seq(Task)
         /\ \A i \in DOMAIN tasks' : \/ \E j \in DOMAIN tasks : tasks'[i] = tasks[j]
                                     \/ tasks'[i] \in fresh
         /\ \A b \in Nat : b <= Len(tasks) - k => b \in 0..Len(tasks')
<1>1. Len(tasks) \in Nat /\ tasks' \in Seq(Task) /\ Len(tasks') \in Nat /\ Len(tasks') >= Len(tasks) - k
  BY DEF QueueGoes
<1>2. \A b \in Nat : b <= Len(tasks) - k => b \in 0..Len(tasks')
  BY <1>1
<1> QED
  BY <1>1, <1>2 DEF QueueGoes

-----------------------------------------------------------------------------
(* Sending a file                                                          *)

\* sendFileInLoop(), with no other call of it under way: sendFile() on the loop's
\* thread, the functor of another thread's sendFile() (k = 1), or handleWrite().
LEMMA SendFileInLoopInv ==
  ASSUME ConnInv, NEW k \in {0, 1}, k = 1 => tasks # <<>>, NEW count \in 0..FileLen,
         sendFileInLoop(count, Left(k)), used' = {File}, used \subseteq {File},
         Len(wire) = FileLen - count, wire = SubSeq(FileBytes, 1, Len(wire)),
         \A i \in DOMAIN tasks : tasks[i].op = "sendFileInLoop" => i = k,
         \A t \in Threads : tpc[t] \notin FileCalls,
         state_ # "kConnecting", revents' \subseteq revents, UNCHANGED <<sock, tpc, refVars>>,
         held' \in BOOLEAN, batch' \in Nat, batch' <= Len(tasks) - k
  PROVE  ConnInv'
<1> USE DEF ConnInv, refVars
<1>1. tasks \in Seq(Task) /\ Left(k) \in Seq(Task) /\ wire \in Seq(Byte)
  BY HeadTailProperties DEF TypeOK, Task, Left
<1>2. UNCHANGED <<state_, output_buffer_, stream, shutWr, downs>>
  BY DEF sendFileInLoop
<1>3. output_buffer_ = <<>> /\ stream = <<>> /\ File \in used'
  BY DEF OneKind
<1>4. QueueGoes(k, Notices)
  <2>0. PICK q \in Seq(Task) : q = Left(k)
    BY <1>1
  <2>1. CASE tasks' = Left(k)
    BY <1>1, <2>1, QueueLeft, QueueFewer
  <2>2. CASE tasks' = Append(Left(k), Op("writeComplete"))
    <3>1. Op("writeComplete") \in Task /\ Op("writeComplete") \in Notices
      BY NoticeType DEF Notices
    <3>2. tasks' = q \o <<Op("writeComplete")>>
      BY <2>0, <2>2, <3>1, AppendIsConcat
    <3>3. <<Op("writeComplete")>> \in Seq(Notices)
      BY <3>1
    <3> QED
      BY <1>1, <2>0, <3>2, <3>3, NoticeType, QueueAfter
  <2> QED
    BY <2>1, <2>2 DEF sendFileInLoop, fileGivenUp, fileComplete, fileRemains
<1>5. /\ wire' \in Seq(Byte) /\ Len(wire') <= FileLen /\ wire' = SubSeq(FileBytes, 1, Len(wire'))
      /\ count_' \in 0..FileLen /\ sending_file' \in BOOLEAN
      /\ sending_file' => Len(wire') = FileLen - count_'
  <2>0. FileLen \in Nat /\ count \in Nat
    BY LengthsAssumption
  <2>1. CASE fileGivenUp(count, Left(k))
    <3>1. wire' = wire /\ count_' = count /\ sending_file' = FALSE
      BY <2>1 DEF fileGivenUp
    <3>2. Len(wire) <= FileLen
      BY <2>0
    <3> QED
      BY <1>1, <3>1, <3>2
  <2>2. ASSUME NEW n \in 0..count, wire' = wire \o sendFileAt(count, n),
               IF n = count THEN fileComplete(count, Left(k)) ELSE fileRemains(count - n, Left(k))
        PROVE  /\ wire' \in Seq(Byte) /\ Len(wire') <= FileLen /\ wire' = SubSeq(FileBytes, 1, Len(wire'))
               /\ count_' \in 0..FileLen /\ sending_file' \in BOOLEAN
               /\ sending_file' => Len(wire') = FileLen - count_'
    <3>1. /\ wire' \in Seq(Byte) /\ Len(wire') = FileLen - (count - n)
          /\ wire' = SubSeq(FileBytes, 1, Len(wire'))
      BY <1>1, <2>2, FileGoesOn
    <3>2. count - n \in 0..FileLen /\ FileLen - (count - n) <= FileLen
      BY <2>0
    <3> QED
      BY <2>2, <3>1, <3>2 DEF fileComplete, fileRemains
  <2> QED
    BY <2>1, <2>2 DEF sendFileInLoop
<1>6. events' \in SUBSET {"read", "write"} /\ (downs > 0 => events' = events)
  BY DEF TypeOK, Closing, sendFileInLoop, fileGivenUp, fileComplete, fileRemains
<1>7. /\ tasks' \in Seq(Task) /\ batch' \in 0..Len(tasks')
      /\ \A i \in DOMAIN tasks' : \/ \E j \in DOMAIN tasks : tasks'[i] = tasks[j]
                                  \/ tasks'[i].op \in {"writeComplete", "highWaterMark"}
  BY <1>1, <1>4, QueueHas, NoticeType
<1>8. \A i \in DOMAIN tasks' : tasks'[i].op # "sendFileInLoop"
  <2> SUFFICES ASSUME NEW i \in DOMAIN tasks', tasks'[i].op = "sendFileInLoop" PROVE FALSE
    OBVIOUS
  <2>1. i \in Nat /\ i > 0
    BY <1>7
  <2>2. i + k \in DOMAIN tasks /\ tasks'[i] = tasks[i + k]
    BY <1>4, NoticeType DEF QueueGoes
  <2>3. i + k = k
    BY <2>2
  <2> QED
    BY <2>1, <2>3
<1>9. TypeOK'
  BY <1>2, <1>5, <1>6, <1>7 DEF TypeOK, Task
<1>10. Connecting' /\ Closing'
  <2>1. GivesUp' = GivesUp
    BY <1>2 DEF GivesUp
  <2> QED
    BY <1>2, <1>6, <1>7, <2>1 DEF Connecting, Closing
<1>11. OneKind'
  <2>1. \A i \in DOMAIN tasks' : tasks'[i].op = "sendInLoop" => tasks'[i].msg \in used' \cap Messages
    BY <1>7 DEF OneKind
  <2>2. \A t \in Threads : tpc[t][1] = "send" => tpc[t][2] \in used'
    BY DEF OneKind
  <2> QED
    BY <1>2, <1>3, <1>8, <2>1, <2>2 DEF OneKind
<1>12. (StreamInOrder /\ FinAfterData /\ InterestFollowsBuffer)'
  BY <1>2, <1>3 DEF StreamInOrder, FinAfterData, InterestFollowsBuffer
<1>13. FileProgress'
  BY <1>5, <1>8 DEF FileProgress
<1> QED
  BY <1>9, <1>10, <1>11, <1>12, <1>13

-----------------------------------------------------------------------------
(* Calls on the loop's thread                                              *)

LEMMA BatchFits ==
  ASSUME TypeOK
  PROVE  /\ tasks \in Seq(Task) /\ Len(tasks) \in Nat
         /\ batch \in Nat /\ batch <= Len(tasks) - 0 /\ held \in BOOLEAN
         /\ Left(0) = tasks /\ (0 = 1 => tasks # <<>>) /\ 0 \in {0, 1}
BY DEF TypeOK, Task, Left

LEMMA LoopSendInv ==
  ASSUME ConnInv, NEW m \in Messages, LoopSend(m)
  PROVE  ConnInv'
<1>1. TypeOK
  BY DEF ConnInv
<1>2. sendInLoop(m, Left(0))
  BY <1>1, BatchFits DEF LoopSend
<1>3. /\ used' = used \cup {m} /\ File \notin used /\ state_ # "kConnecting"
      /\ UNCHANGED <<sock, revents, tpc, refVars>>
  BY DEF LoopSend, MaySend
<1>4. held' \in BOOLEAN /\ batch' \in Nat /\ batch' <= Len(tasks) - 0
  BY <1>1, BatchFits DEF LoopSend, batchVars
<1> QED
  BY <1>1, <1>2, <1>3, <1>4, BatchFits, SendInLoopInv

\* sendFile() is called once, before anything was sent.
LEMMA LoopSendFileInv ==
  ASSUME ConnInv, LoopSendFile
  PROVE  ConnInv'
<1>1. TypeOK
  BY DEF ConnInv
<1>2. sendFileInLoop(FileLen, Left(0))
  BY <1>1, BatchFits DEF LoopSendFile
<1>3. /\ used = {} /\ used' = {File} /\ state_ # "kConnecting"
      /\ UNCHANGED <<sock, tpc, refVars>> /\ revents' \subseteq revents
  BY DEF LoopSendFile, MaySendFile
<1>4. held' \in BOOLEAN /\ batch' \in Nat /\ batch' <= Len(tasks) - 0
  BY <1>1, BatchFits DEF LoopSendFile, batchVars
<1>5. /\ \A i \in DOMAIN tasks : tasks[i].op = "sendFileInLoop" => i = 0
      /\ \A t \in Threads : tpc[t] \notin FileCalls
      /\ wire = <<>>
  BY <1>3 DEF ConnInv, OneKind
<1>6. FileLen \in 0..FileLen /\ Len(wire) = FileLen - FileLen /\ wire = SubSeq(FileBytes, 1, Len(wire))
  BY <1>5, NothingSent
<1> QED
  BY <1>1, <1>2, <1>3, <1>4, <1>5, <1>6, BatchFits, SendFileInLoopInv

LEMMA LoopShutdownInv ==
  ASSUME ConnInv, LoopShutdown
  PROVE  ConnInv'
<1> USE DEF ConnInv, LoopShutdown, dataVars, fileVars, batchVars, refVars
<1>1. state_ = "kConnected" /\ state_' = "kDisConnecting" /\ GivesUp'
  BY DEF GivesUp
<1>2. shutWr' = (shutWr \/ ~isWriting) /\ ~shutWr
  BY <1>1 DEF shutDownInLoop, isWriting, Closing, GivesUp
<1>3. TypeOK'
  BY <1>1, <1>2 DEF TypeOK, States
<1>4. Connecting' /\ Closing'
  BY <1>1 DEF Connecting, Closing, GivesUp
<1>5. OneKind' /\ FileProgress'
  BY DEF OneKind, FileProgress, isWriting
<1>6. (StreamInOrder /\ InterestFollowsBuffer /\ FinAfterData)'
  BY <1>2 DEF StreamInOrder, InterestFollowsBuffer, FinAfterData, isWriting
<1> QED
  BY <1>3, <1>4, <1>5, <1>6

-----------------------------------------------------------------------------
(* Calls of another thread                                                 *)

LEMMA ThreadCallInv ==
  ASSUME ConnInv, NEW t \in Threads, NEW call \in ThreadStates, ThreadCall(t, call)
  PROVE  ConnInv'
<1> USE DEF ConnInv, ThreadCall, dataVars, fileVars, batchVars, refVars
<1>1. state_ = "kConnected" /\ tpc \in [Threads -> ThreadStates]
  BY DEF TypeOK
<1>2. /\ tpc' \in [Threads -> ThreadStates] /\ tpc'[t] = call
      /\ \A u \in Threads : u # t => tpc'[u] = tpc[u]
  BY <1>1
<1>3. \/ \E m \in Messages : m \notin used /\ File \notin used /\ call = <<"send", m>> /\ used' = used \cup {m}
      \/ used = {} /\ call = <<"sendFile", "set">> /\ used' = {File}
      \/ call = <<"shutdown", "set">> /\ used' = used
  BY DEF MaySend, MaySendFile
<1>4. TypeOK'
  <2>1. used' \in SUBSET (Messages \cup {File})
    BY <1>3 DEF TypeOK
  <2> QED
    BY <1>2, <2>1 DEF TypeOK
<1>5. Connecting'
  BY <1>1 DEF Connecting
<1>6. Closing'
  <2>1. call # <<"shutdown", "queue">>
    BY <1>3
  <2> QED
    BY <1>2, <2>1 DEF Closing, GivesUp
<1>7. OneKind'
  <2>1. File \in used' => used' = {File}
    BY <1>3, FileAssumption DEF OneKind, File
  <2>2. \A u \in Threads : /\ tpc'[u][1] = "send" => tpc'[u][2] \in used'
                           /\ tpc'[u] \in FileCalls => File \in used'
    BY <1>2, <1>3 DEF OneKind, FileCalls
  <2>3. \A i \in DOMAIN tasks : /\ tasks[i].op = "sendInLoop" => tasks[i].msg \in used' \cap Messages
                                /\ tasks[i].op = "sendFileInLoop" => File \in used'
    BY <1>3 DEF OneKind
  <2>4. used \subseteq used' /\ (File \in used' => used = {} \/ File \in used)
    BY <1>3, FileAssumption DEF File
  <2> QED
    BY <2>1, <2>2, <2>3, <2>4 DEF OneKind
<1>8. (StreamInOrder /\ InterestFollowsBuffer /\ FinAfterData)'
  <2>1. File \notin used' => File \notin used
    BY <1>3
  <2> QED
    BY <2>1 DEF StreamInOrder, InterestFollowsBuffer, FinAfterData, isWriting
<1>9. FileProgress'
  <2> SUFFICES ASSUME File \in used' PROVE FileProgress'
    BY DEF FileProgress
  <2>1. CASE File \in used
    <3>1. call = <<"shutdown", "set">>
      BY <1>3, <2>1
    <3> QED
      BY <1>2, <2>1, <3>1 DEF FileProgress, FileCalls, isWriting
  <2>2. CASE File \notin used
    <3>1. used = {} /\ call = <<"sendFile", "set">>
      BY <1>3, <2>2, FileAssumption DEF File
    <3>2. wire = <<>> /\ output_buffer_ = <<>> /\ ~sending_file /\ ~isWriting
      BY <3>1 DEF OneKind, InterestFollowsBuffer
    <3>3. /\ \A u \in Threads : tpc[u] \notin FileCalls
          /\ \A i \in DOMAIN tasks : tasks[i].op # "sendFileInLoop"
      BY <3>1 DEF OneKind
    <3>4. Len(wire) <= FileLen /\ wire = SubSeq(FileBytes, 1, Len(wire))
      BY <3>2, NothingSent
    <3> QED
      BY <1>2, <3>1, <3>2, <3>3, <3>4 DEF FileProgress, isWriting
  <2> QED
    BY <2>1, <2>2
<1> QED
  BY <1>4, <1>5, <1>6, <1>7, <1>8, <1>9

\* A thread that comes back from its call.
LEMMA ThreadIdle ==
  ASSUME TypeOK, NEW t \in Threads, NEW pc \in ThreadStates, tpc' = [tpc EXCEPT ![t] = pc]
  PROVE  /\ tpc' \in [Threads -> ThreadStates] /\ tpc'[t] = pc
         /\ \A u \in Threads : u # t => tpc'[u] = tpc[u]
BY DEF TypeOK

LEMMA PcTypes ==
  /\ {<<"idle">>, <<"gone">>, <<"shutdown", "queue">>, <<"sendFile", "queue">>} \subseteq ThreadStates
  /\ \A pc \in ThreadStates : pc[1] = "send" => pc[2] \in Messages /\ pc # <<"idle">> /\ pc # <<"gone">>
BY DEF ThreadStates

\* ThreadQueue() with a functor that may be queued.
LEMMA ThreadQueueInv ==
  ASSUME ConnInv, NEW t \in Threads, NEW f \in Task, ThreadQueue(t, f), UNCHANGED fileVars,
         tpc[t] # <<"idle">>, tpc[t] # <<"gone">>,
         \/ f.op = "sendInLoop" /\ f.msg \in used \cap Messages
         \/ f.op = "shutDownInLoop" /\ GivesUp
  PROVE  ConnInv'
<1> USE DEF ConnInv, ThreadQueue, dataVars, fileVars, batchVars, refVars
<1>1. /\ tpc' \in [Threads -> ThreadStates] /\ tpc'[t] = <<"idle">>
      /\ \A u \in Threads : u # t => tpc'[u] = tpc[u]
  BY ThreadIdle, PcTypes
<1>2. QueueGoes(0, {f})
  BY BatchFits, QueueAppend
<1>3. /\ tasks' \in Seq(Task) /\ batch' \in 0..Len(tasks')
      /\ \A i \in DOMAIN tasks' : (\E j \in DOMAIN tasks : tasks'[i] = tasks[j]) \/ tasks'[i] = f
  BY <1>2, BatchFits, QueueHas
<1>4. GivesUp' = GivesUp /\ isWriting' = isWriting /\ state_ # "kConnecting"
  BY DEF GivesUp, isWriting, Connecting
<1>5. TypeOK'
  BY <1>1, <1>3 DEF TypeOK, Task
<1>6. Connecting'
  BY <1>3, <1>4 DEF Connecting
<1>7. Closing'
  <2>1. \A i \in DOMAIN tasks' : tasks'[i].op = "shutDownInLoop" => GivesUp
    BY <1>3 DEF Closing
  <2>2. \A u \in Threads : tpc'[u] = <<"shutdown", "queue">> => GivesUp
    BY <1>1 DEF Closing
  <2> QED
    BY <1>4, <2>1, <2>2 DEF Closing
<1>8. OneKind'
  <2>1. \A i \in DOMAIN tasks' : /\ tasks'[i].op = "sendInLoop" => tasks'[i].msg \in used \cap Messages
                                 /\ tasks'[i].op = "sendFileInLoop" => File \in used
    BY <1>3 DEF OneKind
  <2>2. \A u \in Threads : /\ tpc'[u][1] = "send" => tpc'[u][2] \in used
                           /\ tpc'[u] \in FileCalls => File \in used
    BY <1>1 DEF OneKind, FileCalls
  <2> QED
    BY <2>1, <2>2 DEF OneKind
<1>9. (StreamInOrder /\ InterestFollowsBuffer /\ FinAfterData)'
  BY <1>4 DEF StreamInOrder, InterestFollowsBuffer, FinAfterData
<1>10. FileProgress'
  <2>1. \A i \in DOMAIN tasks' : tasks'[i].op = "sendFileInLoop" => i \in DOMAIN tasks /\ tasks'[i] = tasks[i]
    <3>1. \A i \in DOMAIN tasks' : i \in Nat /\ i + 0 = i
      BY <1>3
    <3> QED
      BY <1>2, <3>1 DEF QueueGoes
  <2>2. \A u \in Threads : tpc'[u] \in FileCalls => tpc[u] = tpc'[u]
    BY <1>1 DEF FileCalls
  <2> QED
    BY <1>4, <2>1, <2>2, SMTT(30) DEF FileProgress
<1> QED
  BY <1>5, <1>6, <1>7, <1>8, <1>9, <1>10

LEMMA ThreadSendInv ==
  ASSUME ConnInv, NEW t \in Threads, ThreadSend(t)
  PROVE  ConnInv'
<1>1. tpc[t] \in ThreadStates /\ tpc[t][1] = "send"
  BY DEF ConnInv, TypeOK, ThreadSend
<1>2. tpc[t][2] \in used \cap Messages /\ tpc[t] # <<"idle">> /\ tpc[t] # <<"gone">>
  BY <1>1, PcTypes DEF ConnInv, OneKind
<1>3. PICK f : f = [op |-> "sendInLoop", msg |-> tpc[t][2]]
  OBVIOUS
<1>4. f \in Task /\ f.op = "sendInLoop" /\ f.msg \in used \cap Messages
  BY <1>2, <1>3 DEF Task, RawOps
<1> QED
  BY <1>2, <1>3, <1>4, ThreadQueueInv DEF ThreadSend

LEMMA ThreadShutdownInv ==
  ASSUME ConnInv, NEW t \in Threads, ThreadShutdown(t)
  PROVE  ConnInv'
<1>1. tpc[t] = <<"shutdown", "queue">> /\ GivesUp
  BY DEF ThreadShutdown, ConnInv, Closing
<1>2. Op("shutDownInLoop") \in Task /\ Op("shutDownInLoop").op = "shutDownInLoop"
  BY OpType DEF RawOps
<1>3. tpc[t] # <<"idle">> /\ tpc[t] # <<"gone">>
  BY <1>1
<1> QED
  BY <1>1, <1>2, <1>3, ThreadQueueInv DEF ThreadShutdown

\* The one sendFile() sets its fields.
LEMMA ThreadSetFileInv ==
  ASSUME ConnInv, NEW t \in Threads, ThreadSetFile(t)
  PROVE  ConnInv'
<1> USE DEF ConnInv, ThreadSetFile, dataVars, batchVars, refVars
<1>1. /\ tpc' \in [Threads -> ThreadStates] /\ tpc'[t] = <<"sendFile", "queue">>
      /\ \A u \in Threads : u # t => tpc'[u] = tpc[u]
  BY ThreadIdle, PcTypes
<1>2. GivesUp' = GivesUp /\ isWriting' = isWriting /\ state_ # "kConnecting" /\ File \in used
  BY DEF GivesUp, isWriting, Connecting, OneKind, FileCalls
<1>3. FileLen \in 0..FileLen
  BY NothingSent
<1>4. TypeOK'
  BY <1>1, <1>3 DEF TypeOK
<1>5. Connecting' /\ Closing'
  BY <1>1, <1>2 DEF Connecting, Closing
<1>6. OneKind'
  <2>1. \A u \in Threads : /\ tpc'[u][1] = "send" => tpc'[u][2] \in used
                           /\ tpc'[u] \in FileCalls => File \in used
    BY <1>1, <1>2 DEF OneKind
  <2> QED
    BY <1>2, <2>1 DEF OneKind
<1>7. (StreamInOrder /\ InterestFollowsBuffer /\ FinAfterData)'
  BY <1>2 DEF StreamInOrder, InterestFollowsBuffer, FinAfterData
<1>8. FileProgress'
  <2>1. /\ ~isWriting /\ wire = <<>>
        /\ \A u \in Threads : tpc[u] \in FileCalls => u = t
        /\ \A i \in DOMAIN tasks : tasks[i].op # "sendFileInLoop"
    BY <1>2 DEF FileProgress, FileCalls
  <2>2. \A u \in Threads : tpc'[u] \in FileCalls => u = t
    BY <1>1, <2>1
  <2>3. Len(wire) = FileLen - FileLen /\ Len(wire) <= FileLen /\ wire = SubSeq(FileBytes, 1, Len(wire))
    BY <2>1, NothingSent
  <2> QED
    BY <1>1, <1>2, <2>1, <2>2, <2>3 DEF FileProgress
<1> QED
  BY <1>4, <1>5, <1>6, <1>7, <1>8

\* The one sendFile() goes from its call to the queue.
LEMMA ThreadSendFileInv ==
  ASSUME ConnInv, NEW t \in Threads, ThreadSendFile(t)
  PROVE  ConnInv'
<1> USE DEF ConnInv, ThreadSendFile, ThreadQueue, dataVars, fileVars, batchVars, refVars
<1>1. /\ tpc' \in [Threads -> ThreadStates] /\ tpc'[t] = <<"idle">>
      /\ \A u \in Threads : u # t => tpc'[u] = tpc[u]
  BY ThreadIdle, PcTypes
<1>2. PICK f : f = Op("sendFileInLoop")
  OBVIOUS
<1>3. f \in Task /\ f.op = "sendFileInLoop"
  BY <1>2, OpType DEF RawOps
<1>4. QueueGoes(0, {f}) /\ tasks \in Seq(Task) /\ tasks' = Append(tasks, f)
  BY <1>2, <1>3, BatchFits, QueueAppend
<1>5. /\ tasks' \in Seq(Task) /\ batch' \in 0..Len(tasks')
      /\ \A i \in DOMAIN tasks' : (\E j \in DOMAIN tasks : tasks'[i] = tasks[j]) \/ tasks'[i] = f
  BY <1>4, BatchFits, QueueHas
<1>6. GivesUp' = GivesUp /\ isWriting' = isWriting /\ state_ # "kConnecting" /\ File \in used
  BY DEF GivesUp, isWriting, Connecting, OneKind, FileCalls
<1>8. TypeOK'
  BY <1>1, <1>5 DEF TypeOK, Task
<1>9. Connecting'
  BY <1>3, <1>5, <1>6 DEF Connecting
<1>10. Closing'
  <2>1. \A i \in DOMAIN tasks' : tasks'[i].op = "shutDownInLoop" => GivesUp
    BY <1>3, <1>5 DEF Closing
  <2>2. \A u \in Threads : tpc'[u] = <<"shutdown", "queue">> => GivesUp
    BY <1>1 DEF Closing
  <2> QED
    BY <1>6, <2>1, <2>2 DEF Closing
<1>11. OneKind'
  <2>1. \A i \in DOMAIN tasks' : /\ tasks'[i].op = "sendInLoop" => tasks'[i].msg \in used \cap Messages
                                 /\ tasks'[i].op = "sendFileInLoop" => File \in used
    BY <1>3, <1>5, <1>6 DEF OneKind
  <2>2. \A u \in Threads : /\ tpc'[u][1] = "send" => tpc'[u][2] \in used
                           /\ tpc'[u] \in FileCalls => File \in used
    BY <1>1, <1>6 DEF OneKind
  <2> QED
    BY <1>6, <2>1, <2>2 DEF OneKind
<1>12. (StreamInOrder /\ InterestFollowsBuffer /\ FinAfterData)'
  BY <1>6 DEF StreamInOrder, InterestFollowsBuffer, FinAfterData
<1>13. FileProgress'
  <2>1. /\ ~isWriting /\ wire = <<>> /\ sending_file
        /\ \A u \in Threads : tpc[u] \in FileCalls => u = t
        /\ \A i \in DOMAIN tasks : tasks[i].op # "sendFileInLoop"
    BY <1>6 DEF FileProgress, FileCalls
  <2>4. \A u \in Threads : tpc'[u] \notin FileCalls
    BY <1>1, <2>1 DEF FileCalls
  <2>2. \A i \in DOMAIN tasks' : tasks'[i].op = "sendFileInLoop" => i = Len(tasks) + 1
    <3>1. DOMAIN tasks' = 1..(Len(tasks) + 1) /\ Len(tasks) \in Nat
      BY <1>3, <1>4, AppendProperties
    <3>2. \A i \in 1..Len(tasks) : tasks'[i] = tasks[i] /\ i \in DOMAIN tasks
      BY <1>3, <1>4, AppendProperties
    <3> QED
      BY <2>1, <3>1, <3>2
  <2>3. Len(wire) <= FileLen /\ wire = SubSeq(FileBytes, 1, Len(wire)) /\ Len(wire) = FileLen - count_
    BY <1>6, <2>1 DEF FileProgress
  <2> QED
    BY <1>6, <2>1, <2>2, <2>3, <2>4 DEF FileProgress
<1> QED
  BY <1>8, <1>9, <1>10, <1>11, <1>12, <1>13

\* shutdown() sets state_, also of a connection that was closed since its test.
LEMMA ThreadSetStateInv ==
  ASSUME ConnInv, NEW t \in Threads, ThreadSetState(t)
  PROVE  ConnInv'
<1> USE DEF ConnInv, ThreadSetState, dataVars, fileVars, batchVars, refVars
<1>1. /\ tpc' \in [Threads -> ThreadStates] /\ tpc'[t] = <<"shutdown", "queue">>
      /\ \A u \in Threads : u # t => tpc'[u] = tpc[u]
  BY ThreadIdle, PcTypes
<1>2. state_ # "kConnecting" /\ state_' = "kDisConnecting" /\ GivesUp'
  BY DEF Connecting, GivesUp
<1>3. TypeOK'
  BY <1>1, <1>2 DEF TypeOK, States
<1>4. Connecting' /\ Closing'
  BY <1>2 DEF Connecting, Closing
<1>5. OneKind'
  <2>1. \A u \in Threads : /\ tpc'[u][1] = "send" => tpc'[u][2] \in used
                           /\ tpc'[u] \in FileCalls => File \in used
    BY <1>1 DEF OneKind, FileCalls
  <2> QED
    BY <2>1 DEF OneKind
<1>6. (StreamInOrder /\ InterestFollowsBuffer /\ FinAfterData)'
  BY DEF StreamInOrder, InterestFollowsBuffer, FinAfterData, isWriting
<1>7. FileProgress'
  <2>1. \A u \in Threads : tpc'[u] \in FileCalls => tpc[u] = tpc'[u]
    BY <1>1 DEF FileCalls
  <2> QED
    BY <2>1 DEF FileProgress, isWriting
<1> QED
  BY <1>3, <1>4, <1>5, <1>6, <1>7

LEMMA ThreadDropRefInv ==
  ASSUME ConnInv, NEW t \in Threads, ThreadDropRef(t)
  PROVE  ConnInv'
<1> USE DEF ConnInv, ThreadDropRef, dataVars, fileVars, batchVars, refVars
<1>1. /\ tpc' \in [Threads -> ThreadStates] /\ tpc'[t] = <<"gone">>
      /\ \A u \in Threads : u # t => tpc'[u] = tpc[u]
  BY ThreadIdle, PcTypes
<1>2. TypeOK'
  BY <1>1 DEF TypeOK
<1>3. Connecting' /\ Closing'
  BY <1>1 DEF Connecting, Closing, GivesUp
<1>4. OneKind'
  <2>1. \A u \in Threads : /\ tpc'[u][1] = "send" => tpc'[u][2] \in used
                           /\ tpc'[u] \in FileCalls => File \in used
    BY <1>1 DEF OneKind, FileCalls
  <2> QED
    BY <2>1 DEF OneKind
<1>5. (StreamInOrder /\ InterestFollowsBuffer /\ FinAfterData)'
  BY DEF StreamInOrder, InterestFollowsBuffer, FinAfterData, isWriting
<1>6. FileProgress'
  <2>1. \A u \in Threads : tpc'[u] \in FileCalls => tpc[u] = tpc'[u]
    BY <1>1 DEF FileCalls
  <2> QED
    BY <2>1 DEF FileProgress, isWriting
<1> QED
  BY <1>2, <1>3, <1>4, <1>5, <1>6

-----------------------------------------------------------------------------
(* The functors                                                            *)

LEMMA FunctorTurn ==
  ASSUME TypeOK, RunFunctor
  PROVE  /\ tasks \in Seq(Task) /\ 1 \in DOMAIN tasks /\ Head(tasks) = tasks[1] /\ Left(1) = Tail(tasks)
         /\ held' \in BOOLEAN /\ batch' \in Nat /\ batch' <= Len(tasks) - 1
<1>1. tasks \in Seq(Task) /\ tasks # <<>> /\ batch \in 0..Len(tasks) /\ NextInBatch
  BY DEF TypeOK, Task, RunFunctor
<1>2. Len(tasks) \in Nat /\ Len(tasks) # 0 /\ DOMAIN tasks = 1..Len(tasks)
  BY <1>1, EmptySum
<1>3. held' \in BOOLEAN
  BY <1>1 DEF NextInBatch
<1>4. batch' \in Nat /\ batch' <= Len(tasks) - 1
  BY <1>1, <1>2 DEF NextInBatch
<1> QED
  BY <1>1, <1>2, <1>3, <1>4 DEF Left

\* A functor that sends nothing and asks for no EPOLLOUT.
LEMMA QuietFunctor ==
  ASSUME ConnInv, RunFunctor, tasks' = Tail(tasks), UNCHANGED <<dataVars, fileVars>>,
         events' \subseteq {"read", "write"}, isWriting' => isWriting,
         state_' \in States, shutWr' \in BOOLEAN, downs' \in Nat
  PROVE  /\ TypeOK' /\ OneKind' /\ StreamInOrder' /\ FileProgress'
         /\ \A i \in DOMAIN tasks' : i + 1 \in DOMAIN tasks /\ i \in Nat /\ i > 0 /\ tasks'[i] = tasks[i + 1]
<1> USE DEF ConnInv, dataVars, fileVars, refVars
<1>1. UNCHANGED <<sock, revents, tpc, refVars, used>>
  BY DEF RunFunctor
<1>2. /\ tasks \in Seq(Task) /\ tasks # <<>> /\ tasks' = Left(1)
      /\ held' \in BOOLEAN /\ batch' \in Nat /\ batch' <= Len(tasks) - 1
  BY FunctorTurn DEF RunFunctor
<1>3. QueueGoes(1, {})
  BY <1>2, QueueLeft
<1>4. tasks' \in Seq(Task) /\ batch' \in 0..Len(tasks')
  BY <1>2, <1>3, QueueHas
<1>5. \A i \in DOMAIN tasks' : i + 1 \in DOMAIN tasks /\ tasks'[i] = tasks[i + 1] /\ i \in Nat /\ i > 0
  BY <1>3, <1>4 DEF QueueGoes
<1>6. TypeOK'
  BY <1>1, <1>2, <1>4 DEF TypeOK, Task
<1>7. OneKind'
  BY <1>1, <1>5 DEF OneKind
<1>8. StreamInOrder'
  BY <1>1 DEF StreamInOrder
<1>9. FileProgress'
  <2>1. \A i \in DOMAIN tasks', j \in DOMAIN tasks' : i + 1 = j + 1 => i = j
    BY <1>5
  <2> QED
    BY <1>1, <1>5, <2>1 DEF FileProgress
<1> QED
  BY <1>5, <1>6, <1>7, <1>8, <1>9

LEMMA ConnectionEstablishedInv ==
  ASSUME ConnInv, RunFunctor, Head(tasks).op = "connectionEstablished", connectionEstablished,
         tasks' = Tail(tasks)
  PROVE  ConnInv'
<1> USE DEF ConnInv
<1>1. UNCHANGED <<tpc, used, output_buffer_, wire, stream, sending_file, count_, shutWr, downs>>
  BY DEF RunFunctor, connectionEstablished, dataVars, fileVars
<1>2. state_ = "kConnecting" /\ used = {} /\ events = {} /\ downs = 0 /\ ~shutWr /\ output_buffer_ = <<>>
  BY FunctorTurn DEF Connecting, OneKind
<1>3. state_' = "kConnected" /\ events' = {"read"} /\ ~isWriting'
  BY <1>2 DEF connectionEstablished, isWriting
<1>4. /\ TypeOK' /\ OneKind' /\ StreamInOrder' /\ FileProgress'
      /\ \A i \in DOMAIN tasks' : i + 1 \in DOMAIN tasks /\ i \in Nat /\ i > 0 /\ tasks'[i] = tasks[i + 1]
  <2>1. state_' \in States /\ shutWr' \in BOOLEAN /\ downs' \in Nat
    BY <1>1, <1>3 DEF States, TypeOK
  <2>2. UNCHANGED <<dataVars, fileVars>>
    BY DEF connectionEstablished
  <2> QED
    BY <1>3, <2>1, <2>2, QuietFunctor
<1>5. Connecting'
  <2>1. \A i \in DOMAIN tasks' : tasks'[i].op = "connectionEstablished" => FALSE
    <3> SUFFICES ASSUME NEW i \in DOMAIN tasks', tasks'[i].op = "connectionEstablished" PROVE FALSE
      OBVIOUS
    <3>1. i + 1 = 1 /\ i \in Nat /\ i > 0
      BY <1>4 DEF Connecting
    <3> QED
      BY <3>1
  <2> QED
    BY <1>3, <2>1 DEF Connecting
<1>6. Closing'
  <2>1. \A i \in DOMAIN tasks' : tasks'[i].op # "shutDownInLoop"
    BY <1>2, <1>4 DEF Connecting, OwningOps
  <2>2. \A t \in Threads : tpc[t] # <<"shutdown", "queue">>
    BY <1>2 DEF Connecting
  <2> QED
    BY <1>1, <1>2, <2>1, <2>2 DEF Closing
<1>7. (InterestFollowsBuffer /\ FinAfterData)'
  BY <1>1, <1>2, <1>3 DEF InterestFollowsBuffer, FinAfterData
<1> QED
  BY <1>4, <1>5, <1>6, <1>7

\* A connection that ends with the server.
LEMMA ConnectionDestroyedInv ==
  ASSUME ConnInv, RunFunctor, connectionDestroyed, tasks' = Tail(tasks)
  PROVE  ConnInv'
<1> USE DEF ConnInv
<1>1. UNCHANGED <<tpc, used, output_buffer_, wire, stream, sending_file, count_, shutWr>> /\ UNCHANGED revents
  BY DEF RunFunctor, connectionDestroyed, dataVars, fileVars
<1>2. \/ state_ # "kConnecting" /\ state_' = "kDisConnected" /\ events' = {} /\ downs' = downs + 1
      \/ UNCHANGED <<state_, events, downs>>
  BY DEF connectionDestroyed
<1>3. downs \in Nat /\ state_ \in States /\ events \in SUBSET {"read", "write"} /\ shutWr \in BOOLEAN
  BY DEF TypeOK
<1>4. downs' \in Nat /\ (isWriting' => isWriting)
  BY <1>2, <1>3 DEF isWriting
<1>5. /\ TypeOK' /\ OneKind' /\ StreamInOrder' /\ FileProgress'
      /\ \A i \in DOMAIN tasks' : i + 1 \in DOMAIN tasks /\ i \in Nat /\ i > 0 /\ tasks'[i] = tasks[i + 1]
  <2>1. state_' \in States /\ shutWr' \in BOOLEAN /\ events' \subseteq {"read", "write"}
    BY <1>1, <1>2, <1>3 DEF States
  <2>2. UNCHANGED <<dataVars, fileVars>>
    BY DEF connectionDestroyed
  <2> QED
    BY <1>4, <2>1, <2>2, QuietFunctor
<1>6. Connecting'
  <2>1. \A i \in DOMAIN tasks' : tasks'[i].op = "connectionEstablished" => FALSE
    <3> SUFFICES ASSUME NEW i \in DOMAIN tasks', tasks'[i].op = "connectionEstablished" PROVE FALSE
      OBVIOUS
    <3>1. i + 1 = 1 /\ i \in Nat /\ i > 0
      BY <1>5 DEF Connecting
    <3> QED
      BY <3>1
  <2> QED
    BY <1>1, <1>2, <1>5, <2>1 DEF Connecting
<1>7. Closing'
  <2>1. GivesUp => GivesUp'
    BY <1>2 DEF GivesUp
  <2>2. downs' > 0 => GivesUp' /\ events' = {}
    <3>1. CASE UNCHANGED <<state_, events, downs>>
      BY <3>1 DEF Closing, GivesUp
    <3> QED
      BY <1>2, <3>1 DEF GivesUp
  <2> QED
    BY <1>1, <1>5, <2>1, <2>2 DEF Closing
<1>8. (InterestFollowsBuffer /\ FinAfterData)'
  <2>1. CASE UNCHANGED <<state_, events, downs>>
    BY <1>1, <2>1 DEF InterestFollowsBuffer, FinAfterData, isWriting
  <2>2. CASE downs' = downs + 1 /\ events' = {}
    <3>1. downs' # 0 /\ ~isWriting'
      BY <1>3, <2>2 DEF isWriting
    <3> QED
      BY <3>1 DEF InterestFollowsBuffer, FinAfterData
  <2> QED
    BY <1>2, <2>1, <2>2
<1> QED
  BY <1>5, <1>6, <1>7, <1>8

\* The write end is closed, if nothing is waiting; or user code is called.
LEMMA ShutDownInLoopInv ==
  ASSUME ConnInv, RunFunctor, tasks' = Tail(tasks),
         \/ Head(tasks).op = "shutDownInLoop" /\ shutDownInLoop(events)
         \/ UNCHANGED shutWr,
         UNCHANGED <<state_, events, dataVars, fileVars, downs>>
  PROVE  ConnInv'
<1> USE DEF ConnInv
<1>1. UNCHANGED <<tpc, used, revents, output_buffer_, wire, stream, sending_file, count_, state_, events, downs>>
  BY DEF RunFunctor, dataVars, fileVars
<1>2. shutWr \in BOOLEAN /\ downs \in Nat
  BY DEF TypeOK
<1>3. shutWr' \in BOOLEAN /\ (shutWr' => shutWr \/ (GivesUp /\ ~isWriting))
  <2>1. CASE Head(tasks).op = "shutDownInLoop" /\ shutDownInLoop(events)
    <3>1. GivesUp
      BY <2>1, FunctorTurn DEF Closing
    <3> QED
      BY <2>1, <3>1 DEF shutDownInLoop, isWriting
  <2> QED
    BY <1>2, <2>1
<1>4. /\ TypeOK' /\ OneKind' /\ StreamInOrder' /\ FinAfterData' /\ FileProgress'
      /\ \A i \in DOMAIN tasks' : i + 1 \in DOMAIN tasks /\ i \in Nat /\ i > 0 /\ tasks'[i] = tasks[i + 1]
  <2>1. FinAfterData'
    BY <1>1, <1>3 DEF FinAfterData, InterestFollowsBuffer
  <2>2. state_' \in States /\ downs' \in Nat /\ events' \subseteq {"read", "write"} /\ (isWriting' => isWriting)
    BY <1>1 DEF TypeOK, isWriting
  <2> QED
    BY <1>3, <2>1, <2>2, QuietFunctor
<1>5. Connecting'
  <2>1. \A i \in DOMAIN tasks' : tasks'[i].op = "connectionEstablished" => FALSE
    <3> SUFFICES ASSUME NEW i \in DOMAIN tasks', tasks'[i].op = "connectionEstablished" PROVE FALSE
      OBVIOUS
    <3>1. i + 1 = 1 /\ i \in Nat /\ i > 0
      BY <1>4 DEF Connecting
    <3> QED
      BY <3>1
  <2>2. state_ = "kConnecting" => ~GivesUp
    BY DEF GivesUp
  <2> QED
    BY <1>1, <1>3, <1>4, <2>1, <2>2 DEF Connecting
<1>6. Closing'
  <2>1. GivesUp' = GivesUp
    BY <1>1 DEF GivesUp
  <2> QED
    BY <1>1, <1>3, <1>4, <2>1 DEF Closing
<1>7. InterestFollowsBuffer'
  BY <1>1 DEF InterestFollowsBuffer, isWriting
<1> QED
  BY <1>4, <1>5, <1>6, <1>7

LEMMA RunFunctorInv ==
  ASSUME ConnInv, RunFunctor
  PROVE  ConnInv'
<1>0. TypeOK
  BY DEF ConnInv
<1>1. UNCHANGED <<sock, revents, tpc, refVars, used>>
  BY DEF RunFunctor
<1>2. /\ 1 \in DOMAIN tasks /\ Head(tasks) = tasks[1] /\ Left(1) = Tail(tasks) /\ tasks # <<>> /\ 1 \in {0, 1}
      /\ held' \in BOOLEAN /\ batch' \in Nat /\ batch' <= Len(tasks) - 1
  BY <1>0, FunctorTurn DEF RunFunctor
<1>3. ASSUME Head(tasks).op = "sendInLoop", sendInLoop(Head(tasks).msg, Tail(tasks)) PROVE ConnInv'
  <2>1. PICK m : m = Head(tasks).msg
    OBVIOUS
  <2>2. m \in Messages /\ m \in used /\ sendInLoop(m, Left(1))
    BY <1>2, <1>3, <2>1 DEF ConnInv, OneKind
  <2>3. used' = used \cup {m} /\ File \notin used
    BY <1>1, <2>2, FileAssumption DEF ConnInv, OneKind, File
  <2>4. state_ # "kConnecting"
    BY <1>2, <1>3 DEF ConnInv, Connecting, OwningOps
  <2> QED
    BY <1>1, <1>2, <2>2, <2>3, <2>4, SendInLoopInv
<1>4. ASSUME Head(tasks).op = "sendFileInLoop", sendFileInLoop(count_, Tail(tasks)) PROVE ConnInv'
  <2>1. used = {File} /\ used' = {File} /\ used \subseteq {File}
    BY <1>1, <1>2, <1>4 DEF ConnInv, OneKind
  <2>2. state_ # "kConnecting"
    BY <1>2, <1>4 DEF ConnInv, Connecting, OwningOps
  <2>3. /\ Len(wire) = FileLen - count_ /\ wire = SubSeq(FileBytes, 1, Len(wire))
        /\ \A i \in DOMAIN tasks : tasks[i].op = "sendFileInLoop" => i = 1
        /\ \A t \in Threads : tpc[t] \notin FileCalls
    BY <1>2, <1>4, <2>1 DEF ConnInv, FileProgress
  <2>4. PICK c \in 0..FileLen : c = count_
    BY <1>0 DEF TypeOK
  <2>5. sendFileInLoop(c, Left(1)) /\ Len(wire) = FileLen - c
    BY <1>2, <1>4, <2>3, <2>4
  <2>6. revents' \subseteq revents
    BY <1>1
  <2> QED
    BY <1>1, <1>2, <2>1, <2>2, <2>3, <2>5, <2>6, SendFileInLoopInv
<1> QED
  BY <1>3, <1>4, ConnectionEstablishedInv, ConnectionDestroyedInv, ShutDownInLoopInv DEF RunFunctor

-----------------------------------------------------------------------------
(* handleEvent                                                             *)

\* A step that changes nothing but revents and the socket.
LEMMA EventsOnly ==
  ASSUME ConnInv, revents' \in SUBSET {"HUP", "IN", "OUT", "ERR"}, sock' \in {"ok", "eof", "reset"},
         state_ = "kConnecting" => revents' = {},
         UNCHANGED <<state_, events, dataVars, fileVars, shutWr, tasks, batchVars, tpc, refVars, used, downs>>
  PROVE  ConnInv'
<1> USE DEF ConnInv, dataVars, fileVars, batchVars, refVars
<1>1. TypeOK'
  BY DEF TypeOK
<1>2. Connecting' /\ Closing'
  BY DEF Connecting, Closing, GivesUp
<1>3. OneKind' /\ FileProgress'
  BY DEF OneKind, FileProgress, isWriting
<1>4. (StreamInOrder /\ InterestFollowsBuffer /\ FinAfterData)'
  BY DEF StreamInOrder, InterestFollowsBuffer, FinAfterData, isWriting
<1> QED
  BY <1>1, <1>2, <1>3, <1>4

LEMMA PollReturnInv ==
  ASSUME ConnInv, NEW ready \in SUBSET {"HUP", "IN", "OUT", "ERR"}, PollReturn(ready)
  PROVE  ConnInv'
<1>1. state_ # "kConnecting"
  BY DEF PollReturn, ConnInv, Connecting
<1>2. sock' \in {"ok", "eof", "reset"} /\ revents' = ready
  BY DEF PollReturn, ConnInv, TypeOK
<1> QED
  BY <1>1, <1>2, EventsOnly DEF PollReturn

\* handleClose(), in whichever callback.
LEMMA HandleCloseInv ==
  ASSUME ConnInv, handleClose, HandlerFrame, revents # {}, revents' \subseteq revents
  PROVE  ConnInv'
<1> USE DEF ConnInv, handleClose, HandlerFrame, dataVars, fileVars, batchVars, refVars
<1>1. state_ # "kConnecting" /\ GivesUp' /\ ~isWriting'
  BY DEF Connecting, GivesUp, isWriting
<1>2. downs' \in Nat /\ removing' \in Nat /\ downs' > 0 /\ downs' # 0
  BY DEF TypeOK
<1>3. TypeOK'
  BY <1>2 DEF TypeOK, States
<1>4. Connecting'
  BY <1>1 DEF Connecting
<1>5. Closing'
  BY <1>1 DEF Closing
<1>6. OneKind' /\ FileProgress'
  BY <1>1 DEF OneKind, FileProgress
<1>7. (StreamInOrder /\ InterestFollowsBuffer /\ FinAfterData)'
  BY <1>1, <1>2 DEF StreamInOrder, InterestFollowsBuffer, FinAfterData
<1> QED
  BY <1>3, <1>4, <1>5, <1>6, <1>7

\* handleWrite() with data in the buffer.
LEMMA WriteBytesInv ==
  ASSUME ConnInv, WriteBytes
  PROVE  ConnInv'
<1> USE DEF ConnInv, WriteBytes, WriteTurn, HandlerFrame, fileVars, batchVars, refVars
<1>1. PICK n \in 1..Len(output_buffer_) : writeBuffer(n)
  OBVIOUS
<1>2. PICK w \in Seq(Byte) : w = wire
  BY DEF TypeOK
<1>3. PICK o \in Seq(Byte) : o = output_buffer_
  BY DEF TypeOK
<1>4. File \notin used /\ isWriting /\ downs = 0 /\ w \o o = stream /\ state_ # "kConnecting"
  <2>1. downs = 0
    BY DEF Closing, isWriting, TypeOK
  <2> QED
    BY <1>2, <1>3, <2>1 DEF OneKind, StreamInOrder, Connecting, isWriting
<1>5. n \in 0..Len(o) /\ n \in Nat /\ Len(o) \in Nat
  BY <1>3
<1>6. wire' = w \o SubSeq(o, 1, n) /\ output_buffer_' = SubSeq(o, n + 1, Len(o)) /\ stream' = stream
  BY <1>1, <1>2, <1>3 DEF writeBuffer
<1>7. /\ wire' \in Seq(Byte) /\ output_buffer_' \in Seq(Byte)
      /\ output_buffer_' = <<>> <=> n = Len(o)
  <2>1. /\ SubSeq(o, 1, n) \in Seq(Byte) /\ SubSeq(o, n + 1, Len(o)) \in Seq(Byte)
        /\ Len(SubSeq(o, n + 1, Len(o))) = Len(o) - n
    BY <1>5, Cut
  <2>2. w \o SubSeq(o, 1, n) \in Seq(Byte)
    BY <2>1, ConcatProperties
  <2>3. SubSeq(o, n + 1, Len(o)) = <<>> <=> Len(o) - n = 0
    BY <2>1, EmptySum
  <2> QED
    BY <1>5, <1>6, <2>1, <2>2, <2>3
<1>8. wire' \o output_buffer_' = stream'
  BY <1>4, <1>5, <1>6, MoveFront
<1>9. /\ n = Len(o) => events' = events \ {"write"} /\ tasks' = Append(tasks, Op("writeComplete"))
      /\ n # Len(o) => events' = events /\ tasks' = tasks
      /\ \/ UNCHANGED shutWr
         \/ state_ = "kDisConnecting" /\ shutWr' = (shutWr \/ "write" \notin events')
  BY <1>1, <1>3 DEF writeBuffer, shutDownInLoop
<1>10. UNCHANGED <<state_, sending_file, count_, downs, sock, batch, held, tpc, used, inMap, removing>>
  OBVIOUS
<1>11. QueueGoes(0, Notices)
  <2>1. Op("writeComplete") \in Task /\ Op("writeComplete") \in Notices
    BY NoticeType DEF Notices
  <2>2. CASE n = Len(o)
    <3>1. QueueGoes(0, {Op("writeComplete")})
      BY <1>9, <2>1, <2>2, BatchFits, QueueAppend
    <3> QED
      BY <2>1, <3>1, QueueFewer
  <2>3. CASE n # Len(o)
    BY <1>9, <2>3, BatchFits, QueueLeft, QueueFewer
  <2> QED
    BY <2>2, <2>3
<1>12. /\ tasks' \in Seq(Task) /\ batch' \in 0..Len(tasks')
       /\ \A i \in DOMAIN tasks' : \/ \E j \in DOMAIN tasks : tasks'[i] = tasks[j]
                                   \/ tasks'[i].op \in {"writeComplete", "highWaterMark"}
  BY <1>11, BatchFits, QueueHas, NoticeType
<1>13. shutWr' \in BOOLEAN /\ events' \in SUBSET {"read", "write"} /\ revents' \subseteq revents
  BY <1>9 DEF TypeOK
<1>14. shutWr' => shutWr \/ (GivesUp /\ "write" \notin events')
  BY <1>9 DEF GivesUp
<1>21. output_buffer_ # <<>>
  OBVIOUS
<1> HIDE DEF WriteBytes, WriteTurn, HandlerFrame
<1>15. TypeOK'
  BY <1>6, <1>7, <1>10, <1>12, <1>13 DEF TypeOK, Task
<1>16. Connecting' /\ Closing'
  <2>1. GivesUp' = GivesUp
    BY <1>10 DEF GivesUp
  <2>2. \A i \in DOMAIN tasks' : /\ tasks'[i].op # "connectionEstablished"
                                 /\ tasks'[i].op = "shutDownInLoop" => GivesUp
    BY <1>4, <1>12 DEF Connecting, Closing
  <2>3. downs' = 0 /\ state_' # "kConnecting"
    BY <1>4, <1>10
  <2>4. Connecting'
    BY <2>2, <2>3 DEF Connecting
  <2>5. (shutWr' => GivesUp) /\ (\A t \in Threads : tpc'[t] = <<"shutdown", "queue">> => GivesUp)
    BY <1>10, <1>14 DEF Closing
  <2> QED
    BY <2>1, <2>2, <2>3, <2>4, <2>5 DEF Closing
<1>17. OneKind'
  <2>1. used # {}
    BY <1>21 DEF OneKind
  <2>2. \A i \in DOMAIN tasks' : /\ tasks'[i].op = "sendInLoop" => tasks'[i].msg \in used \cap Messages
                                 /\ tasks'[i].op = "sendFileInLoop" => File \in used
    BY <1>12 DEF OneKind
  <2> QED
    BY <1>4, <1>10, <2>1, <2>2 DEF OneKind
<1>18. (StreamInOrder /\ FileProgress)'
  BY <1>4, <1>8, <1>10 DEF StreamInOrder, FileProgress
<1>19. InterestFollowsBuffer'
  BY <1>4, <1>7, <1>9 DEF InterestFollowsBuffer, isWriting
<1>20. FinAfterData'
  BY <1>3, <1>4, <1>7, <1>9, <1>14 DEF FinAfterData, isWriting
<1> QED
  BY <1>15, <1>16, <1>17, <1>18, <1>19, <1>20

LEMMA WriteFileInv ==
  ASSUME ConnInv, WriteFile
  PROVE  ConnInv'
<1>1. /\ isWriting /\ sending_file /\ sendFileInLoop(count_, tasks)
      /\ UNCHANGED <<sock, tpc, used, refVars, batchVars>> /\ revents # {} /\ revents' \subseteq revents
  BY DEF WriteFile, WriteTurn, HandlerFrame
<1>2. used = {File} /\ used' = {File} /\ used \subseteq {File}
  BY <1>1 DEF ConnInv, OneKind
<1>3. state_ # "kConnecting"
  BY <1>1 DEF ConnInv, Connecting
<1>4. /\ Len(wire) = FileLen - count_ /\ wire = SubSeq(FileBytes, 1, Len(wire))
      /\ \A i \in DOMAIN tasks : tasks[i].op = "sendFileInLoop" => i = 0
      /\ \A t \in Threads : tpc[t] \notin FileCalls
  BY <1>1, <1>2 DEF ConnInv, FileProgress
<1>5. TypeOK
  BY DEF ConnInv
<1>6. PICK c \in 0..FileLen : c = count_
  BY <1>5 DEF TypeOK
<1>7. sendFileInLoop(c, Left(0)) /\ Len(wire) = FileLen - c
  BY <1>1, <1>4, <1>5, <1>6, BatchFits
<1>8. held' \in BOOLEAN /\ batch' \in Nat /\ batch' <= Len(tasks) - 0
  BY <1>1, <1>5, BatchFits DEF batchVars
<1> QED
  BY <1>1, <1>2, <1>3, <1>4, <1>5, <1>7, <1>8, BatchFits, SendFileInLoopInv

LEMMA CallbackInv ==
  ASSUME ConnInv, Callback
  PROVE  ConnInv'
<1>0. revents \in SUBSET {"HUP", "IN", "OUT", "ERR"} /\ sock \in {"ok", "eof", "reset"}
  BY DEF ConnInv, TypeOK
<1>1. ASSUME CloseCallback \/ ErrorCallback PROVE ConnInv'
  <2>1. handleClose /\ HandlerFrame /\ revents # {} /\ revents' \subseteq revents
    BY <1>1 DEF CloseCallback, ErrorCallback
  <2> QED
    BY <2>1, HandleCloseInv
<1>2. ASSUME ReadCallback PROVE ConnInv'
  <2>1. HandlerFrame /\ revents # {} /\ revents' \subseteq revents /\ state_ # "kConnecting"
    BY <1>2 DEF ReadCallback, ConnInv, Connecting
  <2>2. CASE handleClose
    BY <2>1, <2>2, HandleCloseInv
  <2>3. CASE UNCHANGED <<state_, events, dataVars, fileVars, shutWr, tasks, refVars, downs>>
    <3>1. revents' \in SUBSET {"HUP", "IN", "OUT", "ERR"} /\ sock' \in {"ok", "eof", "reset"} /\ UNCHANGED <<batchVars, tpc, used>>
      BY <1>0, <2>1 DEF HandlerFrame
    <3> QED
      BY <2>1, <2>3, <3>1, EventsOnly
  <2> QED
    BY <1>2, <2>2, <2>3 DEF ReadCallback
<1>3. ASSUME WriteNothing PROVE ConnInv'
  <2>1. revents' \in SUBSET {"HUP", "IN", "OUT", "ERR"} /\ sock' \in {"ok", "eof", "reset"} /\ revents # {}
    BY <1>0, <1>3 DEF WriteNothing, WriteTurn, HandlerFrame
  <2>2. state_ # "kConnecting"
    BY <2>1 DEF ConnInv, Connecting
  <2> QED
    BY <1>3, <2>1, <2>2, EventsOnly DEF WriteNothing, WriteTurn, HandlerFrame
<1> QED
  BY <1>1, <1>2, <1>3, WriteBytesInv, WriteFileInv DEF Callback

-----------------------------------------------------------------------------
(* The server's loop                                                       *)

\* connectionDestroyed is queued, and the map gives up its reference.
LEMMA RemoveInv ==
  ASSUME ConnInv, removeConnectionInLoop \/ DestroyServer
  PROVE  ConnInv'
<1> USE DEF ConnInv, dataVars, fileVars, batchVars
<1>1. /\ tasks' = Append(tasks, Op("connectionDestroyed")) /\ inMap' = FALSE /\ removing' \in Nat
      /\ UNCHANGED <<state_, events, dataVars, fileVars, shutWr, sock, revents, batchVars, tpc, used, downs>>
  BY DEF TypeOK, removeConnectionInLoop, DestroyServer
<1>2. PICK f : f = Op("connectionDestroyed")
  OBVIOUS
<1>3. f \in Task /\ f.op = "connectionDestroyed" /\ f.op \in OwningOps
  BY <1>2, OpType DEF OwningOps
<1>4. QueueGoes(0, {f})
  BY <1>1, <1>2, <1>3, BatchFits, QueueAppend
<1>5. /\ tasks' \in Seq(Task) /\ batch' \in 0..Len(tasks')
      /\ \A i \in DOMAIN tasks' : \/ i \in DOMAIN tasks /\ tasks'[i] = tasks[i]
                                  \/ tasks'[i] = f
  <2>1. tasks' \in Seq(Task) /\ batch' \in 0..Len(tasks')
    BY <1>1, <1>4, BatchFits, QueueHas
  <2>2. \A i \in DOMAIN tasks' : i \in Nat /\ i + 0 = i
    BY <2>1
  <2> QED
    BY <1>4, <2>1, <2>2 DEF QueueGoes
<1>6. GivesUp' = GivesUp /\ isWriting' = isWriting
  BY <1>1 DEF GivesUp, isWriting
<1>7. TypeOK'
  BY <1>1, <1>5 DEF TypeOK, Task
<1>8. Connecting' /\ Closing'
  BY <1>1, <1>3, <1>5, <1>6 DEF Connecting, Closing
<1>9. OneKind'
  BY <1>1, <1>3, <1>5 DEF OneKind
<1>10. (StreamInOrder /\ InterestFollowsBuffer /\ FinAfterData)'
  BY <1>1, <1>6 DEF StreamInOrder, InterestFollowsBuffer, FinAfterData
<1>11. FileProgress'
  BY <1>1, <1>3, <1>5, <1>6 DEF FileProgress
<1> QED
  BY <1>7, <1>8, <1>9, <1>10, <1>11

-----------------------------------------------------------------------------
(* Every step                                                              *)

LEMMA ConnInvStep == ConnInv /\ [Next]_vars => ConnInv'
<1> SUFFICES ASSUME ConnInv, [Next]_vars PROVE ConnInv'
  OBVIOUS
<1>0. revents \in SUBSET {"HUP", "IN", "OUT", "ERR"} /\ sock \in {"ok", "eof", "reset"}
      /\ (state_ = "kConnecting" => revents = {})
  BY DEF ConnInv, TypeOK, Connecting
<1>1. CASE LoopCall
  BY <1>1, LoopSendInv, LoopSendFileInv, LoopShutdownInv DEF LoopCall
<1>2. ASSUME NEW t \in Threads, NEW call \in ThreadStates, ThreadCall(t, call) PROVE ConnInv'
  BY <1>2, ThreadCallInv
<1>3. ASSUME NEW t \in Threads, ThreadStep(t) \/ ThreadDropRef(t) PROVE ConnInv'
  BY <1>3, ThreadSendInv, ThreadSetFileInv, ThreadSendFileInv, ThreadSetStateInv, ThreadShutdownInv, ThreadDropRefInv
  DEF ThreadStep
<1>4. ASSUME NEW ready \in SUBSET {"HUP", "IN", "OUT", "ERR"}, PollReturn(ready) PROVE ConnInv'
  BY <1>4, PollReturnInv
<1>5. CASE PeerActs
  <2>1. sock' \in {"ok", "eof", "reset"}
    BY <1>5 DEF PeerActs
  <2> QED
    BY <1>0, <1>5, <2>1, EventsOnly DEF PeerActs
<1>6. CASE UNCHANGED vars
  BY <1>0, <1>6, EventsOnly DEF vars
<1> QED
  BY <1>1, <1>2, <1>3, <1>4, <1>5, <1>6, RunFunctorInv, CallbackInv, RemoveInv DEF Next

LEMMA ConnInvAlways == Spec => []ConnInv
BY ConnInvInit, ConnInvStep, PTL DEF Spec

\* The progress of the file contains what FileInOrder says of it.
LEMMA FileProgressInOrder == FileProgress => FileInOrder
BY DEF FileProgress, FileInOrder

\* For any threads, messages and lengths: a connection whose write end is closed, or
\* that has ended, never takes itself for connected again, whatever a late shutdown()
\* assigns and whatever is queued (TcpConnection.cc:68-75, 401, 437-444).
THEOREM EndCorrect == Spec => []EndIsPermanent
<1>1. ConnInv => EndIsPermanent
  BY DEF ConnInv, Closing, GivesUp, EndIsPermanent
<1> QED
  BY <1>1, ConnInvAlways, PTL

\* The connection's state, its queue and its buffers keep their types, for any threads,
\* messages and lengths.
THEOREM ConnectionTypeCorrect == Spec => []TypeOK
<1>1. ConnInv => TypeOK
  BY DEF ConnInv
<1> QED
  BY <1>1, ConnInvAlways, PTL

\* For any threads, messages and lengths: the peer gets the bytes that sendInLoop()
\* accepted, in order, and the buffer holds the rest (TcpConnection.cc:142-189, 355-379).
THEOREM StreamCorrect == Spec => []StreamInOrder
<1>1. ConnInv => StreamInOrder
  BY DEF ConnInv
<1> QED
  BY <1>1, ConnInvAlways, PTL

\* Buffered bytes of an open connection have EPOLLOUT to drain them and, where no file is
\* sent, EPOLLOUT is not left on without them (TcpConnection.cc:186-192, 361-366).
THEOREM InterestCorrect == Spec => []InterestFollowsBuffer
<1>1. ConnInv => InterestFollowsBuffer
  BY DEF ConnInv
<1> QED
  BY <1>1, ConnInvAlways, PTL

\* The write end is closed after the last byte that was accepted
\* (TcpConnection.cc:378-382, 437-444).
THEOREM FinCorrect == Spec => []FinAfterData
<1>1. ConnInv => FinAfterData
  BY DEF ConnInv
<1> QED
  BY <1>1, ConnInvAlways, PTL

\* A file of any length goes out from its first byte on without a gap or a repetition,
\* however sendfile() cuts it up and whichever thread called sendFile()
\* (TcpConnection.cc:201, 238-241, 282).
THEOREM FileCorrect == Spec => []FileInOrder
<1>1. ConnInv => FileInOrder
  BY FileProgressInOrder DEF ConnInv
<1> QED
  BY <1>1, ConnInvAlways, PTL

-----------------------------------------------------------------------------
(* What a step may never do                                                *)

\* A connection that gives up writing leaves its stream and its interest alone, and
\* only the end of the connection takes interest away.
LEMMA SilentStep ==
  ASSUME ConnInv, Next, GivesUp, isWriting => output_buffer_ = <<>>
  PROVE  /\ wire' = wire
         /\ events' = events \/ events' = {}
<1> USE DEF dataVars
<1>1. \A m, rest : sendInLoop(m, rest) => wire' = wire /\ events' = events
  BY DEF sendInLoop
<1>2. \A count, rest : sendFileInLoop(count, rest) => wire' = wire /\ events' = events
  BY DEF sendFileInLoop, fileGivenUp
<1>3. CASE LoopCall
  BY <1>1, <1>2, <1>3 DEF LoopCall, LoopSend, LoopSendFile, LoopShutdown
<1>4. CASE RunFunctor
  <2>1. TypeOK /\ (\A i \in DOMAIN tasks : tasks[i].op # "connectionEstablished")
    BY DEF ConnInv, Connecting, GivesUp
  <2>2. Head(tasks).op # "connectionEstablished"
    BY <1>4, <2>1, FunctorTurn
  <2> QED
    BY <1>1, <1>2, <1>4, <2>2 DEF RunFunctor, connectionDestroyed
<1>5. CASE Callback
  BY <1>2, <1>5 DEF Callback, CloseCallback, ReadCallback, ErrorCallback, handleClose, WriteBytes, WriteFile, WriteNothing
<1>6. ASSUME NEW t \in Threads, NEW call \in ThreadStates, ThreadCall(t, call)
      PROVE  wire' = wire /\ events' = events
  BY <1>6 DEF ThreadCall
<1>7. ASSUME NEW t \in Threads, ThreadStep(t) \/ ThreadDropRef(t)
      PROVE  wire' = wire /\ events' = events
  BY <1>7 DEF ThreadStep, ThreadSend, ThreadSetFile, ThreadSendFile, ThreadSetState, ThreadShutdown, ThreadDropRef, ThreadQueue
<1>8. ASSUME NEW ready \in SUBSET {"HUP", "IN", "OUT", "ERR"}, PollReturn(ready)
      PROVE  wire' = wire /\ events' = events
  BY <1>8 DEF PollReturn
<1>9. CASE removeConnectionInLoop \/ DestroyServer \/ PeerActs
  BY <1>9 DEF removeConnectionInLoop, DestroyServer, PeerActs
<1> QED
  BY <1>3, <1>4, <1>5, <1>6, <1>7, <1>8, <1>9 DEF Next

\* No byte follows the FIN, whatever was queued before it (TcpConnection.cc:136).
THEOREM FinIsLast == Spec => NothingAfterFin
<1>1. ConnInv /\ [Next]_vars => [shutWr => wire' = wire]_vars
  <2> SUFFICES ASSUME ConnInv, Next, shutWr PROVE wire' = wire
    BY DEF vars
  <2>1. GivesUp /\ (isWriting => downs = 0)
    BY DEF ConnInv, Closing, isWriting, TypeOK
  <2>2. isWriting => output_buffer_ = <<>>
    BY <2>1 DEF ConnInv, FinAfterData
  <2> QED
    BY <2>1, <2>2, SilentStep
<1> QED
  BY <1>1, ConnInvAlways, PTL DEF Spec, NothingAfterFin

\* A channel that was taken from its poller is not watched again, whatever is still
\* queued and whatever state_ a late shutdown() sets (TcpConnection.cc:136, 225, 399).
THEOREM ClosedIsFinal == Spec => ClosedStaysSilent
<1>1. ConnInv /\ [Next]_vars => [downs > 0 => events' = {}]_vars
  <2> SUFFICES ASSUME ConnInv, Next, downs > 0 PROVE events' = {}
    BY DEF vars
  <2>1. GivesUp /\ events = {} /\ ~isWriting
    BY DEF ConnInv, Closing, isWriting
  <2> QED
    BY <2>1, SilentStep
<1> QED
  BY <1>1, ConnInvAlways, PTL DEF Spec, ClosedStaysSilent
=============================================================================

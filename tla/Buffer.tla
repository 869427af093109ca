------------------------------- MODULE Buffer -------------------------------
(***************************************************************************)
(* One Buffer: a vector of bytes with a read and a write index, which      *)
(* moves its contents to the front or grows to make space.  A buffer is    *)
(* used by one thread at a time, so that every call is one step.           *)
(*                                                                         *)
(* A buffer is a record, so that the calls can be composed the way the     *)
(* code nests them.  Byte i of the vector is data[i + 1].                  *)
(***************************************************************************)
EXTENDS Naturals, Sequences

CONSTANTS Byte,
          Zero,           \* what resize() fills new space with
          kCheapPrepend,
          InitialSize,
          ExtraSize,      \* of readFd's block on the stack
          MayOverrun,     \* may a caller ask for a longer string than there is?
          MaxCall,        \* bound: bytes in one call
          MaxReadable     \* bound: bytes in the buffer after a call

ASSUME SizesAssumption ==
  {kCheapPrepend, InitialSize, ExtraSize, MaxCall, MaxReadable} \subseteq Nat

ASSUME ZeroAssumption == Zero \in Byte

ASSUME OverrunAssumption == MayOverrun \in BOOLEAN

VARIABLES buffer_, read_index_, write_index_,
          in,   \* the string that append or readFd has brought last
          out   \* the one that retrieveAsString or writeFd has handed out last

bufferVars == <<buffer_, read_index_, write_index_>>
vars == <<bufferVars, in, out>>

\* What a caller may pass in one call.
Strings == UNION {[1..n -> Byte] : n \in 0..MaxCall}

\* The drawing in Buffer.h: kCheapPrepend <= readerIndex_ <= writerIndex_ <= size().
TypeOK ==
  /\ buffer_ \in Seq(Byte)
  /\ write_index_ \in kCheapPrepend..Len(buffer_)
  /\ read_index_ \in kCheapPrepend..write_index_
  /\ in \in Seq(Byte)
  /\ out \in Seq(Byte)

Init ==
  /\ buffer_ = [i \in 1..(kCheapPrepend + InitialSize) |-> Zero]
  /\ read_index_ = kCheapPrepend
  /\ write_index_ = kCheapPrepend
  /\ in = <<>>
  /\ out = <<>>

-----------------------------------------------------------------------------
This == [data |-> buffer_, r |-> read_index_, w |-> write_index_]

SetThis(b) ==
  /\ buffer_' = b.data
  /\ read_index_' = b.r
  /\ write_index_' = b.w

readableBytes(b) == b.w - b.r
writeableBytes(b) == Len(b.data) - b.w
prependableBytes(b) == b.r

\* The vector after str has been copied to offset `at`.
CopyTo(data, at, str) ==
  [i \in 1..Len(data) |-> IF i - 1 \in at..(at + Len(str) - 1) THEN str[i - at] ELSE data[i]]

\* resize(): longer by zeros.
Grow(data, size) == [i \in 1..size |-> IF i <= Len(data) THEN data[i] ELSE Zero]

\* The bytes between two offsets.
Slice(data, from, to) == [i \in 1..(to - from) |-> data[from + i]]

makeSpace_NoPrepend(b, len) ==
  IF prependableBytes(b) + writeableBytes(b) < len
  THEN [b EXCEPT !.data = Grow(b.data, b.w + len)]
  ELSE [data |-> CopyTo(b.data, kCheapPrepend, Slice(b.data, b.r, b.w)),
        r |-> kCheapPrepend,
        w |-> kCheapPrepend + readableBytes(b)]

makeSpace_ForgetsToMove(b, len) ==
  IF prependableBytes(b) + writeableBytes(b) < len + kCheapPrepend
  THEN [b EXCEPT !.data = Grow(b.data, b.w + len)]
  ELSE [data |-> b.data,
        r |-> kCheapPrepend,
        w |-> kCheapPrepend + readableBytes(b)]

makeSpace_AlwaysGrows(b, len) == [b EXCEPT !.data = Grow(b.data, b.w + len)]

\* Grow behind the contents, or move these to the front if that makes enough space.
makeSpace(b, len) ==
  IF prependableBytes(b) + writeableBytes(b) < len + kCheapPrepend
  THEN [b EXCEPT !.data = Grow(b.data, b.w + len)]
  ELSE [data |-> CopyTo(b.data, kCheapPrepend, Slice(b.data, b.r, b.w)),
        r |-> kCheapPrepend,
        w |-> kCheapPrepend + readableBytes(b)]

ensureWriteableBytes(b, len) == IF writeableBytes(b) < len THEN makeSpace(b, len) ELSE b

append(b, str) ==
  LET c == ensureWriteableBytes(b, Len(str))
  IN [data |-> CopyTo(c.data, c.w, str), r |-> c.r, w |-> c.w + Len(str)]

\* What readv() may return at most: the second block is used when the first is small.
ReadLimit(b) ==
  IF writeableBytes(b) > ExtraSize THEN writeableBytes(b) ELSE writeableBytes(b) + ExtraSize

\* readFd(), when readv() returns str: into the free space and, what does not fit,
\* through the block on the stack.
readFd(b, str) ==
  LET room == writeableBytes(b)
      filled == [data |-> CopyTo(b.data, b.w, Slice(str, 0, room)), r |-> b.r, w |-> Len(b.data)]
  IN IF Len(str) <= room
     THEN [data |-> CopyTo(b.data, b.w, str), r |-> b.r, w |-> b.w + Len(str)]
     ELSE append(filled, Slice(str, room, Len(str)))

retrieveAll(b) == [data |-> b.data, r |-> kCheapPrepend, w |-> kCheapPrepend]

retrieve(b, len) == IF len < readableBytes(b) THEN [b EXCEPT !.r = b.r + len] ELSE retrieveAll(b)

-----------------------------------------------------------------------------
(* The calls                                                               *)

Append_(str) ==
  /\ readableBytes(This) + Len(str) <= MaxReadable
  /\ SetThis(append(This, str))
  /\ in' = str
  /\ UNCHANGED out

\* A read that fails, or finds the end of the stream, changes nothing.
ReadFd(str) ==
  /\ Len(str) <= ReadLimit(This)
  /\ readableBytes(This) + Len(str) <= MaxReadable
  /\ SetThis(readFd(This, str))
  /\ in' = str
  /\ UNCHANGED out

\* write() takes n bytes from the front; nothing is retrieved.
WriteFd(n) ==
  /\ n <= readableBytes(This)
  /\ out' = Slice(buffer_, read_index_, read_index_ + n)
  /\ UNCHANGED <<bufferVars, in>>

Retrieve(len) ==
  /\ SetThis(retrieve(This, len))
  /\ UNCHANGED <<in, out>>

\* std::string(peek(), len) looks at no index: behind the readable bytes it copies old
\* data or padding.  The code calls retrieveAsString only through retrieveAllAsString,
\* never for more than is readable; MayOverrun drops that assumption.  Past the end of
\* the vector the copy is undefined, and not made.
RetrieveAsString(len) ==
  /\ MayOverrun \/ len <= readableBytes(This)
  /\ read_index_ + len <= Len(buffer_)
  /\ out' = Slice(buffer_, read_index_, read_index_ + len)
  /\ SetThis(retrieve(This, len))
  /\ UNCHANGED in

RetrieveAllAsString == RetrieveAsString(readableBytes(This))

Next ==
  \/ \E str \in Strings : Append_(str) \/ ReadFd(str)
  \/ \E n \in 0..MaxCall : WriteFd(n) \/ Retrieve(n) \/ RetrieveAsString(n)
  \/ RetrieveAllAsString

Spec == Init /\ [][Next]_vars

-----------------------------------------------------------------------------
(* Properties                                                              *)

Readable == Slice(buffer_, read_index_, write_index_)

\* Whatever is moved, grown or taken through the second block of readFd, a buffer is a
\* queue of bytes (Buffer.cc:25-145): writeFd sees the front of what was put in and not yet
\* retrieved, in order and unchanged, and retrieveAsString hands out exactly the front that
\* leaves, as Buffer.h:53 has it ("returns the data that were skipped").  The last holds
\* only as long as no caller asks for more than there is: with MayOverrun the property
\* fails at the first such call, whose string goes on with old bytes (Buffer.cc:100).
Queue == INSTANCE ByteQueue WITH queue <- Readable, in <- in, out <- out
IsByteQueue == Queue!Spec

\* A buffer grows only if its contents would not fit even at the front, and then to no
\* more than twice what it holds (Buffer.cc:132-135): a connection that drains its
\* buffer does not make it grow for ever.
GrowsOnlyForContents ==
  [][Len(buffer_') > Len(buffer_) =>
       /\ Len(Readable') > Len(buffer_) - kCheapPrepend
       /\ Len(buffer_') <= kCheapPrepend + 2 * Len(Readable')]_vars
=============================================================================

---------------------------- MODULE BufferProofs ----------------------------
(***************************************************************************)
(* What holds of a Buffer for every size of the vector, of the prependable *)
(* space and of readFd's second block, and for strings of any length: the  *)
(* indexes stay in order, and the buffer is a queue of bytes.              *)
(***************************************************************************)
EXTENDS Buffer, SequenceTheorems, TLAPS

\* A buffer with its indexes in order, as a record.
Sound(b) ==
  /\ b \in [data : Seq(Byte), r : Nat, w : Nat]
  /\ kCheapPrepend <= b.r
  /\ b.r <= b.w
  /\ b.w <= Len(b.data)

\* The bytes between the indexes.
Contents(b) == Slice(b.data, b.r, b.w)

-----------------------------------------------------------------------------
(* The helpers on sequences                                                *)

\* A function on 1..n with values in S is a sequence of length n.
LEMMA FunctionIsSeq ==
  ASSUME NEW S, NEW n \in Nat, NEW f \in [1..n -> S]
  PROVE  f \in Seq(S) /\ Len(f) = n /\ DOMAIN f = 1..n
OBVIOUS

\* Slice is the sequence of the bytes between two offsets.
LEMMA SliceProperties ==
  ASSUME NEW data \in Seq(Byte), NEW from \in Nat, NEW to \in Nat,
         from <= to, to <= Len(data)
  PROVE  /\ Slice(data, from, to) \in Seq(Byte)
         /\ Len(Slice(data, from, to)) = to - from
         /\ \A i \in 1..(to - from) : Slice(data, from, to)[i] = data[from + i]
<1>1. \A i \in 1..(to - from) : from + i \in 1..Len(data)
  OBVIOUS
<1>2. Slice(data, from, to) \in [1..(to - from) -> Byte]
  BY <1>1 DEF Slice
<1>3. to - from \in Nat
  OBVIOUS
<1> QED
  BY <1>2, <1>3, FunctionIsSeq DEF Slice

\* CopyTo replaces the bytes from an offset on and keeps the length.
LEMMA CopyToProperties ==
  ASSUME NEW data \in Seq(Byte), NEW at \in Nat, NEW str \in Seq(Byte),
         at + Len(str) <= Len(data)
  PROVE  /\ CopyTo(data, at, str) \in Seq(Byte)
         /\ Len(CopyTo(data, at, str)) = Len(data)
         /\ \A i \in 1..Len(data) :
              CopyTo(data, at, str)[i] =
                IF at < i /\ i <= at + Len(str) THEN str[i - at] ELSE data[i]
<1>1. \A i \in 1..Len(data) : i - 1 \in at..(at + Len(str) - 1) <=> at < i /\ i <= at + Len(str)
  OBVIOUS
<1>2. \A i \in 1..Len(data) : at < i /\ i <= at + Len(str) => i - at \in 1..Len(str)
  OBVIOUS
<1>3. CopyTo(data, at, str) \in [1..Len(data) -> Byte]
  BY <1>1, <1>2 DEF CopyTo
<1> QED
  BY <1>1, <1>3, FunctionIsSeq DEF CopyTo

\* Grow keeps the bytes and lengthens the vector.
LEMMA GrowProperties ==
  ASSUME NEW data \in Seq(Byte), NEW size \in Nat, size >= Len(data)
  PROVE  /\ Grow(data, size) \in Seq(Byte)
         /\ Len(Grow(data, size)) = size
         /\ \A i \in 1..Len(data) : Grow(data, size)[i] = data[i]
<1>1. Grow(data, size) \in [1..size -> Byte]
  BY ZeroAssumption DEF Grow
<1> QED
  BY <1>1, FunctionIsSeq DEF Grow

-----------------------------------------------------------------------------
(* The operations on records                                               *)

\* The contents of a sound buffer are a sequence of its readable bytes.
LEMMA ContentsProperties ==
  ASSUME NEW b, Sound(b)
  PROVE  /\ Contents(b) \in Seq(Byte)
         /\ Len(Contents(b)) = b.w - b.r
         /\ \A i \in 1..(b.w - b.r) : Contents(b)[i] = b.data[b.r + i]
BY SliceProperties DEF Sound, Contents

\* makeSpace (Buffer.cc:129-145) moves only towards the front, so that std::copy may be
\* given overlapping ranges; it leaves the contents alone and makes the space asked for.
LEMMA MakeSpaceProperties ==
  ASSUME NEW b, Sound(b), NEW len \in Nat, writeableBytes(b) < len
  PROVE  /\ prependableBytes(b) + writeableBytes(b) >= len + kCheapPrepend => b.r > kCheapPrepend
         /\ Sound(makeSpace(b, len))
         /\ writeableBytes(makeSpace(b, len)) >= len
         /\ Contents(makeSpace(b, len)) = Contents(b)
<1> DEFINE c == makeSpace(b, len)
<1>0. kCheapPrepend \in Nat
  BY SizesAssumption
<1>1. prependableBytes(b) + writeableBytes(b) >= len + kCheapPrepend => b.r > kCheapPrepend
  BY <1>0 DEF Sound, prependableBytes, writeableBytes
<1>2. CASE prependableBytes(b) + writeableBytes(b) < len + kCheapPrepend
  <2>1. c = [b EXCEPT !.data = Grow(b.data, b.w + len)]
    BY <1>2 DEF makeSpace
  <2>2. b.data \in Seq(Byte) /\ b.w + len \in Nat /\ b.w + len >= Len(b.data)
    BY DEF Sound, writeableBytes
  <2>3. /\ c.data \in Seq(Byte) /\ Len(c.data) = b.w + len
        /\ \A i \in 1..Len(b.data) : c.data[i] = b.data[i]
        /\ c.r = b.r /\ c.w = b.w
        /\ c = [data |-> c.data, r |-> b.r, w |-> b.w]
    <3>1. c = [data |-> Grow(b.data, b.w + len), r |-> b.r, w |-> b.w]
      BY <2>1 DEF Sound
    <3> QED
      BY <3>1, <2>2, GrowProperties
  <2> HIDE DEF c
  <2>4. Sound(c)
    BY <2>3 DEF Sound
  <2>5. writeableBytes(c) >= len
    BY <2>3 DEF Sound, writeableBytes
  <2>6. Contents(c) = Contents(b)
    <3>1. Len(Contents(c)) = Len(Contents(b))
      BY <2>3, <2>4, ContentsProperties
    <3>2. \A i \in 1..(b.w - b.r) : b.r + i \in 1..Len(b.data)
      BY DEF Sound
    <3>3. \A i \in 1..(b.w - b.r) : Contents(c)[i] = Contents(b)[i]
      <4> TAKE i \in 1..(b.w - b.r)
      <4>1. Contents(c)[i] = c.data[b.r + i] /\ Contents(b)[i] = b.data[b.r + i]
        BY <2>3, <2>4, ContentsProperties
      <4> QED
        BY <4>1, <2>3, <3>2
    <3> QED
      BY <3>1, <3>3, <2>4, ContentsProperties, SeqEqual
  <2> QED
    BY <1>1, <2>4, <2>5, <2>6 DEF c
<1>3. CASE ~(prependableBytes(b) + writeableBytes(b) < len + kCheapPrepend)
  <2>1. c = [data |-> CopyTo(b.data, kCheapPrepend, Slice(b.data, b.r, b.w)),
             r |-> kCheapPrepend, w |-> kCheapPrepend + (b.w - b.r)]
    BY <1>3 DEF makeSpace, readableBytes
  <2>2. /\ Slice(b.data, b.r, b.w) \in Seq(Byte)
        /\ Len(Slice(b.data, b.r, b.w)) = b.w - b.r
        /\ \A i \in 1..(b.w - b.r) : Slice(b.data, b.r, b.w)[i] = b.data[b.r + i]
    BY SliceProperties DEF Sound
  <2>3. kCheapPrepend + (b.w - b.r) <= Len(b.data) /\ b.data \in Seq(Byte)
    BY <1>0 DEF Sound
  <2>4. /\ c.data \in Seq(Byte) /\ Len(c.data) = Len(b.data)
        /\ c.r = kCheapPrepend /\ c.w = kCheapPrepend + (b.w - b.r)
        /\ c = [data |-> c.data, r |-> c.r, w |-> c.w]
        /\ \A i \in 1..(b.w - b.r) : c.data[kCheapPrepend + i] = b.data[b.r + i]
    <3> DEFINE moved == Slice(b.data, b.r, b.w)
    <3>1. /\ CopyTo(b.data, kCheapPrepend, moved) \in Seq(Byte)
          /\ Len(CopyTo(b.data, kCheapPrepend, moved)) = Len(b.data)
          /\ \A i \in 1..Len(b.data) :
               CopyTo(b.data, kCheapPrepend, moved)[i] =
                 IF kCheapPrepend < i /\ i <= kCheapPrepend + Len(moved)
                 THEN moved[i - kCheapPrepend] ELSE b.data[i]
      BY <1>0, <2>2, <2>3, CopyToProperties
    <3>2. \A i \in 1..(b.w - b.r) : CopyTo(b.data, kCheapPrepend, moved)[kCheapPrepend + i] = moved[i]
      <4> TAKE i \in 1..(b.w - b.r)
      <4>1. kCheapPrepend + i \in 1..Len(b.data) /\ kCheapPrepend < kCheapPrepend + i
              /\ kCheapPrepend + i <= kCheapPrepend + Len(moved)
              /\ (kCheapPrepend + i) - kCheapPrepend = i
        BY <1>0, <2>2, <2>3 DEF Sound
      <4> HIDE DEF moved
      <4> QED
        BY <3>1, <4>1
    <3> QED
      BY <2>1, <2>2, <3>1, <3>2
  <2> HIDE DEF c
  <2>5. Sound(c)
    BY <1>0, <2>3, <2>4 DEF Sound
  <2>6. writeableBytes(c) >= len
    BY <1>0, <1>3, <2>4 DEF Sound, writeableBytes, prependableBytes
  <2>7. Contents(c) = Contents(b)
    <3>1. c.w - c.r = b.w - b.r
      BY <1>0, <2>4 DEF Sound
    <3>2. \A i \in 1..(b.w - b.r) : Contents(c)[i] = Contents(b)[i]
      BY <2>4, <2>5, <3>1, ContentsProperties
    <3> QED
      BY <3>1, <3>2, <2>5, ContentsProperties, SeqEqual
  <2> QED
    BY <1>1, <2>5, <2>6, <2>7 DEF c
<1> QED
  BY <1>2, <1>3

\* ensureWriteableBytes (Buffer.cc:120-126) makes the space asked for and leaves the
\* contents alone.
LEMMA EnsureProperties ==
  ASSUME NEW b, Sound(b), NEW len \in Nat
  PROVE  /\ Sound(ensureWriteableBytes(b, len))
         /\ writeableBytes(ensureWriteableBytes(b, len)) >= len
         /\ Contents(ensureWriteableBytes(b, len)) = Contents(b)
<1>1. CASE writeableBytes(b) < len
  BY <1>1, MakeSpaceProperties DEF ensureWriteableBytes
<1>2. CASE ~(writeableBytes(b) < len)
  BY <1>2 DEF ensureWriteableBytes, writeableBytes, Sound
<1> QED
  BY <1>1, <1>2

\* Bytes that are written behind the write index, which moves past them, are added to
\* the contents (Buffer.cc:114-117, 47-57).
LEMMA FillProperties ==
  ASSUME NEW b, Sound(b), NEW str \in Seq(Byte), Len(str) <= writeableBytes(b)
  PROVE  LET c == [data |-> CopyTo(b.data, b.w, str), r |-> b.r, w |-> b.w + Len(str)]
         IN Sound(c) /\ Contents(c) = Contents(b) \o str /\ Len(c.data) = Len(b.data)
<1> DEFINE c == [data |-> CopyTo(b.data, b.w, str), r |-> b.r, w |-> b.w + Len(str)]
<1>0. /\ kCheapPrepend \in Nat /\ Len(str) \in Nat
      /\ b.data \in Seq(Byte) /\ b.r \in Nat /\ b.w \in Nat
      /\ kCheapPrepend <= b.r /\ b.r <= b.w /\ b.w + Len(str) <= Len(b.data)
  BY SizesAssumption DEF Sound, writeableBytes
<1>1. /\ CopyTo(b.data, b.w, str) \in Seq(Byte)
      /\ Len(CopyTo(b.data, b.w, str)) = Len(b.data)
      /\ \A i \in 1..Len(b.data) :
           CopyTo(b.data, b.w, str)[i] =
             IF b.w < i /\ i <= b.w + Len(str) THEN str[i - b.w] ELSE b.data[i]
  BY <1>0, CopyToProperties
<1>2. /\ c.r = b.r /\ c.w = b.w + Len(str) /\ c.data \in Seq(Byte) /\ Len(c.data) = Len(b.data)
      /\ c = [data |-> c.data, r |-> c.r, w |-> c.w]
      /\ \A i \in 1..Len(b.data) :
           c.data[i] = IF b.w < i /\ i <= b.w + Len(str) THEN str[i - b.w] ELSE b.data[i]
  BY <1>1
<1> HIDE DEF c
<1>3. Sound(c)
  BY <1>0, <1>2 DEF Sound
<1>4. /\ Contents(c) \in Seq(Byte) /\ Len(Contents(c)) = (b.w - b.r) + Len(str)
      /\ \A i \in 1..((b.w - b.r) + Len(str)) : Contents(c)[i] = c.data[b.r + i]
  <2>1. c.w - c.r = (b.w - b.r) + Len(str)
    BY <1>0, <1>2
  <2> QED
    BY <1>2, <1>3, <2>1, ContentsProperties
<1>5. /\ Contents(b) \in Seq(Byte) /\ Len(Contents(b)) = b.w - b.r
      /\ \A i \in 1..(b.w - b.r) : Contents(b)[i] = b.data[b.r + i]
  BY ContentsProperties
<1>6. /\ Contents(b) \o str \in Seq(Byte)
      /\ Len(Contents(b) \o str) = (b.w - b.r) + Len(str)
      /\ \A i \in 1..((b.w - b.r) + Len(str)) :
           (Contents(b) \o str)[i] = IF i <= b.w - b.r THEN Contents(b)[i] ELSE str[i - (b.w - b.r)]
  <2>1. Contents(b) \o str \in Seq(Byte)
    BY <1>5, ConcatProperties
  <2>2. Len(Contents(b) \o str) = (b.w - b.r) + Len(str)
    BY <1>5, ConcatProperties
  <2>3. \A i \in 1..((b.w - b.r) + Len(str)) :
          (Contents(b) \o str)[i] = IF i <= b.w - b.r THEN Contents(b)[i] ELSE str[i - (b.w - b.r)]
    BY <1>5, ConcatProperties
  <2> QED
    BY <2>1, <2>2, <2>3
<1>7. \A i \in 1..((b.w - b.r) + Len(str)) : Contents(c)[i] = (Contents(b) \o str)[i]
  <2> TAKE i \in 1..((b.w - b.r) + Len(str))
  <2>1. b.r + i \in 1..Len(b.data) /\ (b.r + i) - b.w = i - (b.w - b.r)
    BY <1>0, SMTT(30)
  <2>2. CASE i <= b.w - b.r
    <3>1. ~(b.w < b.r + i) /\ i \in 1..(b.w - b.r)
      BY <1>0, <2>2
    <3> QED
      BY <2>1, <2>2, <3>1, <1>2, <1>4, <1>5, <1>6
  <2>3. CASE ~(i <= b.w - b.r)
    <3>1. b.w < b.r + i /\ b.r + i <= b.w + Len(str)
      BY <1>0, <2>3
    <3> QED
      BY <2>1, <2>3, <3>1, <1>2, <1>4, <1>6
  <2> QED
    BY <2>2, <2>3
<1>8. Contents(c) = Contents(b) \o str
  BY <1>4, <1>6, <1>7, SeqEqual
<1> QED
  BY <1>2, <1>3, <1>8 DEF c

\* append (Buffer.cc:111-118) adds the string to the contents.
LEMMA AppendProperty ==
  ASSUME NEW b, Sound(b), NEW str \in Seq(Byte)
  PROVE  Sound(append(b, str)) /\ Contents(append(b, str)) = Contents(b) \o str
<1> DEFINE c == ensureWriteableBytes(b, Len(str))
<1>1. Sound(c) /\ writeableBytes(c) >= Len(str) /\ Contents(c) = Contents(b)
  BY EnsureProperties
<1>2. writeableBytes(c) \in Nat /\ Len(str) \in Nat
  BY <1>1 DEF Sound, writeableBytes
<1>3. append(b, str) = [data |-> CopyTo(c.data, c.w, str), r |-> c.r, w |-> c.w + Len(str)]
  BY DEF append
<1> HIDE DEF c
<1> QED
  BY <1>1, <1>2, <1>3, FillProperties

\* readFd (Buffer.cc:25-67) adds what was read to the contents, through the second block
\* or not.
LEMMA ReadFdProperty ==
  ASSUME NEW b, Sound(b), NEW str \in Seq(Byte)
  PROVE  Sound(readFd(b, str)) /\ Contents(readFd(b, str)) = Contents(b) \o str
<1> DEFINE room == writeableBytes(b)
           first == Slice(str, 0, room)
           second == Slice(str, room, Len(str))
           filled == [data |-> CopyTo(b.data, b.w, first), r |-> b.r, w |-> Len(b.data)]
<1>1. room \in Nat /\ room = Len(b.data) - b.w /\ b.w + room = Len(b.data) /\ Len(str) \in Nat
  BY DEF Sound, writeableBytes
<1>2. CASE Len(str) <= room
  BY <1>2, FillProperties DEF readFd
<1>3. CASE ~(Len(str) <= room)
  <2>1. readFd(b, str) = append(filled, second)
    BY <1>3 DEF readFd
  <2>2. /\ first \in Seq(Byte) /\ Len(first) = room
        /\ \A i \in 1..room : first[i] = str[i]
    <3> HIDE DEF room
    <3>1. 0 \in Nat /\ 0 <= room /\ room <= Len(str) /\ room - 0 = room
      BY <1>1, <1>3
    <3>2. \A i \in 1..room : 0 + i = i
      OBVIOUS
    <3>3. /\ first \in Seq(Byte) /\ Len(first) = room - 0
          /\ \A i \in 1..(room - 0) : first[i] = str[0 + i]
      BY <1>1, <3>1, SliceProperties
    <3> HIDE DEF first
    <3> QED
      BY <3>1, <3>2, <3>3
  <2>3. /\ second \in Seq(Byte) /\ Len(second) = Len(str) - room
        /\ \A i \in 1..(Len(str) - room) : second[i] = str[room + i]
    <3> HIDE DEF room
    <3>1. room \in Nat /\ Len(str) \in Nat /\ room <= Len(str) /\ Len(str) <= Len(str)
      BY <1>1, <1>3
    <3>2. /\ Slice(str, room, Len(str)) \in Seq(Byte)
          /\ Len(Slice(str, room, Len(str))) = Len(str) - room
          /\ \A i \in 1..(Len(str) - room) : Slice(str, room, Len(str))[i] = str[room + i]
      BY <3>1, SliceProperties
    <3> QED
      BY <3>2
  <2>4. filled = [data |-> CopyTo(b.data, b.w, first), r |-> b.r, w |-> b.w + Len(first)]
    BY <1>1, <2>2
  <2> HIDE DEF first, second, filled, room
  <2>5. Sound(filled) /\ Contents(filled) = Contents(b) \o first
    <3>1. Len(first) <= writeableBytes(b)
      BY <1>1, <2>2 DEF room
    <3> QED
      BY <2>2, <2>4, <3>1, FillProperties
  <2>6. first \o second = str
    <3>1. /\ first \o second \in Seq(Byte) /\ Len(first \o second) = Len(str)
          /\ \A i \in 1..Len(str) : (first \o second)[i] = IF i <= room THEN first[i] ELSE second[i - room]
      <4>1. Len(first) + Len(second) = Len(str)
        BY <1>1, <1>3, <2>2, <2>3
      <4>2. /\ first \o second \in Seq(Byte) /\ Len(first \o second) = Len(first) + Len(second)
            /\ \A i \in 1..(Len(first) + Len(second)) :
                 (first \o second)[i] = IF i <= Len(first) THEN first[i] ELSE second[i - Len(first)]
        BY <2>2, <2>3, ConcatProperties, ZenonT(30)
      <4> QED
        BY <2>2, <4>1, <4>2, ZenonT(30)
    <3>2. \A i \in 1..Len(str) : (first \o second)[i] = str[i]
      <4> TAKE i \in 1..Len(str)
      <4>1. CASE i <= room
        BY <4>1, <3>1, <2>2, <1>1
      <4>2. CASE ~(i <= room)
        <5>1. i - room \in 1..(Len(str) - room) /\ room + (i - room) = i
          BY <4>2, <1>1
        <5> QED
          BY <5>1, <4>2, <3>1, <2>3
      <4> QED
        BY <4>1, <4>2
    <3> QED
      BY <3>1, <3>2, SeqEqual
  <2>7. Contents(b) \o (first \o second) = (Contents(b) \o first) \o second
    <3>1. Contents(b) \in Seq(Byte) /\ first \in Seq(Byte) /\ second \in Seq(Byte)
      BY <2>2, <2>3, ContentsProperties
    <3>2. \A s, t, u \in Seq(Byte) : (s \o t) \o u = s \o (t \o u)
      BY SMT
    <3> QED
      BY <3>1, <3>2, ZenonT(30)
  <2> QED
    BY <2>1, <2>3, <2>5, <2>6, <2>7, AppendProperty
<1> QED
  BY <1>2, <1>3

\* retrieve and retrieveAll (Buffer.cc:80-96) take bytes off the front.
LEMMA RetrieveProperty ==
  ASSUME NEW b, Sound(b), NEW len \in Nat
  PROVE  /\ Sound(retrieve(b, len))
         /\ Contents(retrieve(b, len)) = IF len < Len(Contents(b))
                                         THEN SubSeq(Contents(b), len + 1, Len(Contents(b)))
                                         ELSE <<>>
<1> DEFINE c == retrieve(b, len)
<1>0. kCheapPrepend \in Nat
  BY SizesAssumption
<1>1. Contents(b) \in Seq(Byte) /\ Len(Contents(b)) = b.w - b.r
  BY ContentsProperties
<1>2. CASE len < readableBytes(b)
  <2>1. c = [data |-> b.data, r |-> b.r + len, w |-> b.w] /\ len < Len(Contents(b))
    BY <1>1, <1>2 DEF retrieve, Sound, readableBytes
  <2>2. Sound(c) /\ c.data = b.data /\ c.r = b.r + len /\ c.w = b.w
    BY <1>0, <1>2, <2>1 DEF Sound, readableBytes
  <2> HIDE DEF c
  <2>3. /\ Contents(c) \in Seq(Byte) /\ Len(Contents(c)) = b.w - (b.r + len)
        /\ \A i \in 1..(b.w - (b.r + len)) : Contents(c)[i] = b.data[(b.r + len) + i]
    BY <2>2, ContentsProperties
  <2> DEFINE rest == SubSeq(Contents(b), len + 1, Len(Contents(b)))
  <2>4. /\ rest \in Seq(Byte) /\ Len(rest) = b.w - (b.r + len)
        /\ \A i \in 1..(b.w - (b.r + len)) : rest[i] = Contents(b)[len + i]
    <3>1. len + 1 \in 1..Len(Contents(b)) + 1 /\ Len(Contents(b)) \in Nat
      BY <1>1, <2>1
    <3>2. rest \in Seq(Byte)
      BY <1>1, <3>1, SubSeqProperties
    <3>3. Len(rest) = b.w - (b.r + len)
      BY <1>1, <3>1, <2>1, SubSeqProperties DEF Sound
    <3>4. \A i \in 1..(b.w - (b.r + len)) : rest[i] = Contents(b)[len + i]
      BY <1>1, <2>1, SMTT(30) DEF Sound
    <3> QED
      BY <3>2, <3>3, <3>4
  <2>5. \A i \in 1..(b.w - (b.r + len)) : Contents(c)[i] = rest[i]
    <3> TAKE i \in 1..(b.w - (b.r + len))
    <3>1. len + i \in 1..(b.w - b.r) /\ b.r + (len + i) = (b.r + len) + i
      BY DEF Sound
    <3>2. Contents(b)[len + i] = b.data[b.r + (len + i)]
      BY <3>1, ContentsProperties
    <3> QED
      BY <3>1, <3>2, <2>3, <2>4
  <2> HIDE DEF rest
  <2>6. Contents(c) = rest
    BY <2>3, <2>4, <2>5, SeqEqual
  <2> QED
    BY <2>1, <2>2, <2>6 DEF c, rest
<1>3. CASE ~(len < readableBytes(b))
  <2>1. c = [data |-> b.data, r |-> kCheapPrepend, w |-> kCheapPrepend] /\ ~(len < Len(Contents(b)))
    BY <1>1, <1>3 DEF retrieve, retrieveAll, Sound, readableBytes
  <2>2. Sound(c) /\ c.w - c.r = 0
    BY <1>0, <2>1 DEF Sound
  <2> HIDE DEF c
  <2>3. Contents(c) = <<>>
    BY <2>2, ContentsProperties, EmptySeq
  <2> QED
    BY <2>1, <2>2, <2>3 DEF c
<1> QED
  BY <1>2, <1>3

-----------------------------------------------------------------------------
(* The steps                                                               *)

\* The type invariant in terms of the record.
LEMMA TypeIsSound ==
  TypeOK <=> Sound(This) /\ in \in Seq(Byte) /\ out \in Seq(Byte)
<1>1. kCheapPrepend \in Nat
  BY SizesAssumption
<1>2. This.data = buffer_ /\ This.r = read_index_ /\ This.w = write_index_
  BY DEF This
<1>3. Sound(This) <=> /\ buffer_ \in Seq(Byte) /\ read_index_ \in Nat /\ write_index_ \in Nat
                      /\ kCheapPrepend <= read_index_ /\ read_index_ <= write_index_
                      /\ write_index_ <= Len(buffer_)
  BY DEF This, Sound
<1>4. ASSUME buffer_ \in Seq(Byte) PROVE Len(buffer_) \in Nat
  BY <1>4
<1> QED
  BY <1>1, <1>3, <1>4 DEF TypeOK

\* Storing a sound record makes it the state of the next step.
LEMMA SetThisProperty ==
  ASSUME NEW c, Sound(c), SetThis(c), in' \in Seq(Byte), out' \in Seq(Byte)
  PROVE  TypeOK' /\ Readable' = Contents(c)
<1>1. kCheapPrepend \in Nat
  BY SizesAssumption
<1>2. /\ buffer_' \in Seq(Byte) /\ read_index_' \in Nat /\ write_index_' \in Nat
      /\ kCheapPrepend <= read_index_' /\ read_index_' <= write_index_'
      /\ write_index_' <= Len(buffer_') /\ Len(buffer_') \in Nat
  BY DEF Sound, SetThis
<1>3. TypeOK'
  BY <1>1, <1>2 DEF TypeOK
<1>4. Readable' = Contents(c)
  BY DEF SetThis, Readable, Contents
<1> QED
  BY <1>3, <1>4

\* The readable bytes are the contents of the record.
LEMMA ReadableIsContents == Readable = Contents(This)
BY DEF Readable, Contents, This

\* What a caller passes is a sequence of bytes.
LEMMA StringsAreSequences == ASSUME NEW str \in Strings PROVE str \in Seq(Byte)
<1>1. PICK n \in 0..MaxCall : str \in [1..n -> Byte]
  BY DEF Strings
<1>2. n \in Nat
  BY SizesAssumption
<1> QED
  BY <1>1, <1>2, FunctionIsSeq

\* append puts a string into the queue.
LEMMA AppendStep ==
  ASSUME TypeOK, NEW str \in Seq(Byte), Append_(str)
  PROVE  TypeOK' /\ Queue!Put
<1>1. Sound(This) /\ in' = str /\ out' = out /\ out \in Seq(Byte) /\ SetThis(append(This, str))
  BY TypeIsSound DEF Append_
<1>2. Sound(append(This, str)) /\ Contents(append(This, str)) = Contents(This) \o str
  BY <1>1, AppendProperty
<1>3. TypeOK' /\ Readable' = Contents(append(This, str))
  BY <1>1, <1>2, SetThisProperty
<1> QED
  BY <1>1, <1>2, <1>3, ReadableIsContents DEF Queue!Put

\* readFd puts what was read into the queue.
LEMMA ReadFdStep ==
  ASSUME TypeOK, NEW str \in Seq(Byte), ReadFd(str)
  PROVE  TypeOK' /\ Queue!Put
<1>1. Sound(This) /\ in' = str /\ out' = out /\ out \in Seq(Byte) /\ SetThis(readFd(This, str))
  BY TypeIsSound DEF ReadFd
<1>2. Sound(readFd(This, str)) /\ Contents(readFd(This, str)) = Contents(This) \o str
  BY <1>1, ReadFdProperty
<1>3. TypeOK' /\ Readable' = Contents(readFd(This, str))
  BY <1>1, <1>2, SetThisProperty
<1> QED
  BY <1>1, <1>2, <1>3, ReadableIsContents DEF Queue!Put

\* retrieve takes bytes off the front of the queue.
LEMMA RetrieveStep ==
  ASSUME TypeOK, NEW len \in Nat, Retrieve(len)
  PROVE  TypeOK' /\ Queue!Discard
<1>1. /\ Sound(This) /\ in' = in /\ out' = out /\ in \in Seq(Byte) /\ out \in Seq(Byte)
      /\ SetThis(retrieve(This, len))
  BY TypeIsSound DEF Retrieve
<1>2. /\ Sound(retrieve(This, len))
      /\ Contents(retrieve(This, len)) = IF len < Len(Contents(This))
                                         THEN SubSeq(Contents(This), len + 1, Len(Contents(This)))
                                         ELSE <<>>
  BY <1>1, RetrieveProperty
<1>3. TypeOK' /\ Readable' = Contents(retrieve(This, len))
  BY <1>1, <1>2, SetThisProperty
<1>4. Readable' = Queue!Drop(len)
  BY <1>2, <1>3, ReadableIsContents DEF Queue!Drop
<1>5. Len(Readable) \in Nat
  BY <1>1, ReadableIsContents, ContentsProperties
<1>6. CASE len < Len(Readable)
  BY <1>1, <1>3, <1>4, <1>5, <1>6 DEF Queue!Discard
<1>7. CASE ~(len < Len(Readable))
  <2>1. Queue!Drop(len) = Queue!Drop(Len(Readable)) /\ Len(Readable) \in 0..Len(Readable)
    BY <1>5, <1>7 DEF Queue!Drop
  <2> QED
    BY <1>1, <1>3, <1>4, <2>1 DEF Queue!Discard
<1> QED
  BY <1>6, <1>7

\* writeFd copies the front of the queue.
LEMMA WriteFdStep ==
  ASSUME TypeOK, NEW n \in Nat, WriteFd(n)
  PROVE  TypeOK' /\ Queue!Copy
<1>1. Sound(This) /\ kCheapPrepend \in Nat
  BY TypeIsSound, SizesAssumption
<1>2. /\ buffer_ \in Seq(Byte) /\ read_index_ \in Nat /\ write_index_ \in Nat
      /\ read_index_ <= write_index_ /\ write_index_ <= Len(buffer_) /\ Len(buffer_) \in Nat
      /\ n <= write_index_ - read_index_
  BY <1>1 DEF TypeOK, WriteFd, This, readableBytes
<1>3. /\ out' = Slice(buffer_, read_index_, read_index_ + n)
      /\ UNCHANGED <<buffer_, read_index_, write_index_, in>>
  BY DEF WriteFd, bufferVars
<1>4. read_index_ + n \in Nat /\ read_index_ + n <= Len(buffer_) /\ read_index_ <= read_index_ + n
        /\ (read_index_ + n) - read_index_ = n
  BY <1>2
<1>5. /\ out' \in Seq(Byte) /\ Len(out') = n
      /\ \A i \in 1..n : out'[i] = buffer_[read_index_ + i]
  <2> DEFINE end == read_index_ + n
  <2> HIDE DEF end
  <2>1. /\ Slice(buffer_, read_index_, end) \in Seq(Byte)
        /\ Len(Slice(buffer_, read_index_, end)) = end - read_index_
        /\ \A i \in 1..(end - read_index_) :
             Slice(buffer_, read_index_, end)[i] = buffer_[read_index_ + i]
    <3>1. end \in Nat /\ read_index_ <= end /\ end <= Len(buffer_)
      BY <1>2, <1>4 DEF end
    <3> QED
      BY <1>2, <3>1, SliceProperties
  <2>2. end - read_index_ = n /\ out' = Slice(buffer_, read_index_, end)
    BY <1>1, <1>3, <1>4 DEF end
  <2> QED
    BY <2>1, <2>2
<1>6. /\ Readable \in Seq(Byte) /\ Len(Readable) = write_index_ - read_index_
      /\ \A i \in 1..(write_index_ - read_index_) : Readable[i] = buffer_[read_index_ + i]
  BY <1>2, SliceProperties DEF Readable
<1>7. out' = SubSeq(Readable, 1, n)
  <2> DEFINE front == SubSeq(Readable, 1, n)
  <2>1. front \in Seq(Byte) /\ Len(front) = n
    BY <1>2, <1>6
  <2>2. \A i \in 1..n : front[i] = Readable[i] /\ i \in 1..(write_index_ - read_index_)
    BY <1>2, <1>6
  <2> HIDE DEF front
  <2>3. \A i \in 1..n : out'[i] = front[i]
    BY <1>5, <1>6, <2>2
  <2>4. out' = front
    BY <1>5, <2>1, <2>3, SeqEqual
  <2> QED
    BY <2>4 DEF front
<1>8. TypeOK'
  BY <1>3, <1>5 DEF TypeOK
<1>9. Readable' = Readable
  BY <1>3 DEF Readable
<1> QED
  BY <1>2, <1>3, <1>5, <1>6, <1>7, <1>8, <1>9 DEF Queue!Copy

\* retrieveAsString takes a string out: if there are len bytes, the front of the queue.
LEMMA RetrieveAsStringStep ==
  ASSUME TypeOK, NEW len \in Nat, RetrieveAsString(len)
  PROVE  TypeOK' /\ (len <= readableBytes(This) => Queue!Take)
<1>1. /\ Sound(This) /\ in' = in /\ in \in Seq(Byte)
      /\ out' = Slice(buffer_, read_index_, read_index_ + len)
      /\ read_index_ + len <= Len(buffer_) /\ SetThis(retrieve(This, len))
  BY TypeIsSound DEF RetrieveAsString
<1>2. /\ buffer_ \in Seq(Byte) /\ read_index_ \in Nat /\ write_index_ \in Nat
      /\ read_index_ <= write_index_ /\ write_index_ <= Len(buffer_) /\ Len(buffer_) \in Nat
  BY SizesAssumption DEF TypeOK
<1>3. read_index_ + len \in Nat /\ read_index_ <= read_index_ + len /\ (read_index_ + len) - read_index_ = len
  BY <1>2
<1>4. /\ out' \in Seq(Byte) /\ Len(out') = len
      /\ \A i \in 1..len : out'[i] = buffer_[read_index_ + i]
  <2> DEFINE end == read_index_ + len
  <2> HIDE DEF end
  <2>1. /\ Slice(buffer_, read_index_, end) \in Seq(Byte)
        /\ Len(Slice(buffer_, read_index_, end)) = end - read_index_
        /\ \A i \in 1..(end - read_index_) :
             Slice(buffer_, read_index_, end)[i] = buffer_[read_index_ + i]
    <3>1. end \in Nat /\ read_index_ <= end /\ end <= Len(buffer_)
      BY <1>1, <1>2, <1>3 DEF end
    <3> QED
      BY <1>2, <3>1, SliceProperties
  <2>2. end - read_index_ = len /\ out' = Slice(buffer_, read_index_, end)
    BY <1>1, <1>3 DEF end
  <2> QED
    BY <2>1, <2>2
<1>5. /\ Readable \in Seq(Byte) /\ Len(Readable) = write_index_ - read_index_
      /\ \A i \in 1..(write_index_ - read_index_) : Readable[i] = buffer_[read_index_ + i]
  BY <1>2, SliceProperties DEF Readable
<1>6. /\ Sound(retrieve(This, len))
      /\ Contents(retrieve(This, len)) = IF len < Len(Contents(This))
                                         THEN SubSeq(Contents(This), len + 1, Len(Contents(This)))
                                         ELSE <<>>
  BY <1>1, RetrieveProperty
<1>7. TypeOK' /\ Readable' = Contents(retrieve(This, len))
  BY <1>1, <1>4, <1>6, SetThisProperty
<1>8. Readable' = Queue!Drop(len)
  BY <1>6, <1>7, ReadableIsContents DEF Queue!Drop
<1>9. ASSUME len <= readableBytes(This) PROVE len <= Len(Readable) /\ out' = SubSeq(Readable, 1, len)
  <2> DEFINE front == SubSeq(Readable, 1, len)
  <2>0. len <= Len(Readable)
    BY <1>2, <1>5, <1>9 DEF readableBytes, This
  <2>1. front \in Seq(Byte) /\ Len(front) = len
    BY <1>5, <2>0
  <2>2. \A i \in 1..len : front[i] = Readable[i] /\ i \in 1..(write_index_ - read_index_)
    BY <1>2, <1>5, <2>0
  <2> HIDE DEF front
  <2>3. \A i \in 1..len : out'[i] = front[i]
    BY <1>4, <1>5, <2>2
  <2>4. out' = front
    BY <1>4, <2>1, <2>3, SeqEqual
  <2> QED
    BY <2>0, <2>4 DEF front
<1> QED
  BY <1>1, <1>4, <1>7, <1>8, <1>9 DEF Queue!Take

-----------------------------------------------------------------------------
(* The theorems                                                            *)

\* The buffer is built in order and empty.
LEMMA InitMaps == Init => TypeOK /\ Queue!Init
<1> SUFFICES ASSUME Init PROVE TypeOK /\ Queue!Init
  OBVIOUS
<1>1. kCheapPrepend \in Nat /\ InitialSize \in Nat /\ kCheapPrepend + InitialSize \in Nat
  BY SizesAssumption
<1>2. buffer_ \in [1..(kCheapPrepend + InitialSize) -> Byte]
  BY ZeroAssumption DEF Init
<1>3. buffer_ \in Seq(Byte) /\ Len(buffer_) = kCheapPrepend + InitialSize
  BY <1>1, <1>2, FunctionIsSeq
<1>4. TypeOK
  BY <1>1, <1>3 DEF Init, TypeOK
<1>5. Sound(This) /\ This.r = This.w
  BY <1>4, TypeIsSound DEF Init, This
<1>6. Readable = <<>>
  <2>1. Contents(This) \in Seq(Byte) /\ Len(Contents(This)) = 0
    BY <1>5, ContentsProperties DEF Sound
  <2> QED
    BY <2>1, ReadableIsContents, EmptySeq
<1> QED
  BY <1>4, <1>6 DEF Init, Queue!Init

\* Every step keeps the indexes in order and, unless a string is longer than what is
\* readable, is a step of the queue.
LEMMA NextMaps ==
  TypeOK /\ [Next]_vars => TypeOK' /\ (~MayOverrun => [Queue!Next]_Queue!vars)
<1> SUFFICES ASSUME TypeOK, [Next]_vars
             PROVE  TypeOK' /\ (~MayOverrun => [Queue!Next]_Queue!vars)
  OBVIOUS
<1>1. ASSUME NEW str \in Strings, Append_(str) \/ ReadFd(str) PROVE TypeOK' /\ Queue!Put
  BY <1>1, StringsAreSequences, AppendStep, ReadFdStep
<1>2. ASSUME NEW n \in 0..MaxCall, WriteFd(n) \/ Retrieve(n)
      PROVE  TypeOK' /\ (Queue!Copy \/ Queue!Discard)
  <2>1. n \in Nat
    BY SizesAssumption
  <2> QED
    BY <1>2, <2>1, WriteFdStep, RetrieveStep
<1>3. ASSUME NEW n \in 0..MaxCall, RetrieveAsString(n)
      PROVE  TypeOK' /\ (~MayOverrun => Queue!Take)
  <2>1. n \in Nat
    BY SizesAssumption
  <2>2. ~MayOverrun => n <= readableBytes(This)
    BY <1>3 DEF RetrieveAsString
  <2> QED
    BY <1>3, <2>1, <2>2, RetrieveAsStringStep
<1>4. ASSUME RetrieveAllAsString PROVE TypeOK' /\ Queue!Take
  <2> DEFINE n == readableBytes(This)
  <2>1. n \in Nat /\ n <= n
    BY TypeIsSound DEF Sound, readableBytes
  <2>2. RetrieveAsString(n)
    BY <1>4 DEF RetrieveAllAsString
  <2>3. TypeOK' /\ (n <= readableBytes(This) => Queue!Take)
    BY <2>1, <2>2, RetrieveAsStringStep
  <2> QED
    BY <2>1, <2>3
<1>5. CASE UNCHANGED vars
  BY <1>5 DEF vars, bufferVars, TypeOK, Readable, Queue!vars
<1> QED
  BY <1>1, <1>2, <1>3, <1>4, <1>5 DEF Next, Queue!Next

\* kCheapPrepend <= read_index_ <= write_index_ <= buffer_.size() holds after any calls,
\* for strings of any length and whatever the sizes (Buffer.cc:25-145).
THEOREM IndexesInOrder == Spec => []TypeOK
BY InitMaps, NextMaps, PTL DEF Spec

\* Whatever is moved, grown or taken through readFd's second block (Buffer.cc:25-145), a
\* buffer whose callers ask retrieveAsString for no more than is readable is a queue of
\* bytes: what it shows and hands out is the front of what was put in and has not left.
\* The condition is needed: a longer string repeats old bytes (Buffer.cc:100).
THEOREM BufferIsByteQueue == ~MayOverrun => (Spec => IsByteQueue)
<1> SUFFICES ASSUME ~MayOverrun PROVE Spec => IsByteQueue
  OBVIOUS
<1>1. Init => Queue!Init
  BY InitMaps
<1>2. TypeOK /\ [Next]_vars => [Queue!Next]_Queue!vars
  BY NextMaps
<1> QED
  BY <1>1, <1>2, IndexesInOrder, PTL DEF Spec, IsByteQueue, Queue!Spec

-----------------------------------------------------------------------------
(* When a buffer grows                                                     *)

\* c is not longer than b, or its contents did not fit at the front of b.
Justified(b, c) ==
  Len(c.data) > Len(b.data) =>
    /\ c.w - c.r > Len(b.data) - kCheapPrepend
    /\ Len(c.data) <= kCheapPrepend + 2 * (c.w - c.r)

\* The vector is at most twice as long as its contents, which begin before half of it.
LEMMA HalfFull ==
  ASSUME NEW r \in Nat, NEW w \in Nat, NEW len \in Nat, NEW k \in Nat, NEW size \in Nat,
         r <= w, w <= size, r + size - w < len + k
  PROVE  /\ w + len - r > size - k
         /\ w + len <= k + 2 * (w + len - r)
<1>1. w + len - r > size - k
  OBVIOUS
<1>2. 2 * (w + len - r) = (w + len - r) + (w + len - r)
  OBVIOUS
<1>3. w + len <= k + (w + len - r) + (w + len - r)
  OBVIOUS
<1> QED
  BY <1>1, <1>2, <1>3

\* append (Buffer.cc:111-145) lengthens the vector only for contents that would not fit
\* even at the front.
LEMMA AppendGrowth ==
  ASSUME NEW b, Sound(b), NEW str \in Seq(Byte)
  PROVE  Justified(b, append(b, str))
<1> DEFINE c == ensureWriteableBytes(b, Len(str))
<1>0. /\ kCheapPrepend \in Nat /\ Len(str) \in Nat /\ b.w \in Nat /\ b.r \in Nat /\ Len(b.data) \in Nat
      /\ b.data \in Seq(Byte) /\ kCheapPrepend <= b.r /\ b.r <= b.w /\ b.w <= Len(b.data)
  BY SizesAssumption DEF Sound
<1>1. Sound(c) /\ writeableBytes(c) >= Len(str)
  BY EnsureProperties, <1>0
<1>2. append(b, str) = [data |-> CopyTo(c.data, c.w, str), r |-> c.r, w |-> c.w + Len(str)]
  BY DEF append
<1>3. /\ Len(append(b, str).data) = Len(c.data)
      /\ append(b, str).w - append(b, str).r = c.w + Len(str) - c.r
  <2> HIDE DEF c
  <2>1. Len(str) <= writeableBytes(c) /\ c.w \in Nat /\ c.r \in Nat
    BY <1>0, <1>1 DEF Sound, writeableBytes
  <2>2. Len([data |-> CopyTo(c.data, c.w, str), r |-> c.r, w |-> c.w + Len(str)].data) = Len(c.data)
    BY <1>1, <2>1, FillProperties
  <2>3. append(b, str).w = c.w + Len(str) /\ append(b, str).r = c.r
    BY <1>2
  <2>4. append(b, str).data = [data |-> CopyTo(c.data, c.w, str), r |-> c.r, w |-> c.w + Len(str)].data
    BY <1>2
  <2>5. Len(append(b, str).data) = Len(c.data)
    BY <2>2, <2>4, Zenon
  <2> QED
    BY <2>1, <2>3, <2>5
<1>4. CASE writeableBytes(b) < Len(str) /\ prependableBytes(b) + writeableBytes(b) < Len(str) + kCheapPrepend
  <2>1. c = [b EXCEPT !.data = Grow(b.data, b.w + Len(str))]
    BY <1>4 DEF ensureWriteableBytes, makeSpace
  <2>2. b.w + Len(str) \in Nat /\ b.w + Len(str) >= Len(b.data)
    BY <1>0, <1>4 DEF writeableBytes
  <2>3. c.r = b.r /\ c.w = b.w /\ c.data = Grow(b.data, b.w + Len(str))
    BY <2>1 DEF Sound
  <2>4. Len(c.data) = b.w + Len(str)
    BY <1>0, <2>2, <2>3, GrowProperties
  <2>5. b.r + Len(b.data) - b.w < Len(str) + kCheapPrepend
    BY <1>0, <1>4 DEF writeableBytes, prependableBytes
  <2>6. Len(append(b, str).data) = b.w + Len(str) /\ append(b, str).w - append(b, str).r = b.w + Len(str) - b.r
    BY <1>3, <2>3, <2>4
  <2>7. /\ b.w + Len(str) - b.r > Len(b.data) - kCheapPrepend
        /\ b.w + Len(str) <= kCheapPrepend + 2 * (b.w + Len(str) - b.r)
    BY <1>0, <2>5, HalfFull
  <2> QED
    BY <2>6, <2>7 DEF Justified
<1>5. CASE ~(writeableBytes(b) < Len(str))
  BY <1>0, <1>3, <1>5 DEF ensureWriteableBytes, Justified
<1>6. CASE writeableBytes(b) < Len(str) /\ ~(prependableBytes(b) + writeableBytes(b) < Len(str) + kCheapPrepend)
  <2>1. PICK s : s = Slice(b.data, b.r, b.w)
    OBVIOUS
  <2>2. c.data = CopyTo(b.data, kCheapPrepend, s)
    BY <1>6, <2>1 DEF ensureWriteableBytes, makeSpace
  <2>3. s \in Seq(Byte) /\ Len(s) = b.w - b.r
    BY <1>0, <2>1, SliceProperties
  <2>4. kCheapPrepend + Len(s) <= Len(b.data)
    BY <1>0, <2>3
  <2>5. Len(c.data) = Len(b.data)
    BY <1>0, <2>2, <2>3, <2>4, CopyToProperties, SMTT(30)
  <2> QED
    BY <1>0, <1>3, <2>5 DEF Justified
<1> QED
  BY <1>4, <1>5, <1>6

\* So does readFd, which appends what did not fit behind the contents.
LEMMA ReadFdGrowth ==
  ASSUME NEW b, Sound(b), NEW str \in Seq(Byte)
  PROVE  Justified(b, readFd(b, str))
<1> DEFINE room == writeableBytes(b)
           first == Slice(str, 0, room)
           second == Slice(str, room, Len(str))
           filled == [data |-> CopyTo(b.data, b.w, first), r |-> b.r, w |-> Len(b.data)]
<1>1. /\ room \in Nat /\ b.w + room = Len(b.data) /\ Len(str) \in Nat /\ Len(b.data) \in Nat
      /\ b.data \in Seq(Byte) /\ b.w \in Nat
  BY DEF Sound, writeableBytes
<1>2. CASE Len(str) <= room
  <2>1. Len(readFd(b, str).data) = Len(b.data)
    BY <1>2, FillProperties DEF readFd
  <2> QED
    BY <1>1, <2>1 DEF Justified
<1>3. CASE ~(Len(str) <= room)
  <2>1. readFd(b, str) = append(filled, second)
    BY <1>3 DEF readFd
  <2>2. first \in Seq(Byte) /\ Len(first) = room
    <3> HIDE DEF room
    <3>1. 0 \in Nat /\ 0 <= room /\ room <= Len(str) /\ room - 0 = room
      BY <1>1, <1>3
    <3> QED
      BY <1>1, <3>1, SliceProperties
  <2>3. second \in Seq(Byte)
    <3> HIDE DEF room
    <3>1. room <= Len(str) /\ Len(str) <= Len(str)
      BY <1>1, <1>3
    <3> QED
      BY <1>1, <3>1, SliceProperties
  <2>4. filled = [data |-> CopyTo(b.data, b.w, first), r |-> b.r, w |-> b.w + Len(first)]
    BY <1>1, <2>2
  <2>5. Len(first) <= writeableBytes(b)
    BY <1>1, <2>2
  <2> HIDE DEF first, second, filled, room
  <2>6. Sound(filled) /\ Len(filled.data) = Len(b.data)
    BY <2>2, <2>4, <2>5, FillProperties
  <2>7. Justified(filled, append(filled, second))
    BY <2>3, <2>6, AppendGrowth
  <2> QED
    BY <2>1, <2>6, <2>7 DEF Justified
<1> QED
  BY <1>2, <1>3

\* Storing a record that append or readFd has made.
LEMMA StoredGrowth ==
  ASSUME TypeOK, NEW c, Sound(c), SetThis(c), Justified(This, c)
  PROVE  Len(buffer_') > Len(buffer_) =>
           /\ Len(Readable') > Len(buffer_) - kCheapPrepend
           /\ Len(buffer_') <= kCheapPrepend + 2 * Len(Readable')
<1>1. Readable' = Contents(c)
  BY DEF SetThis, Readable, Contents
<1>2. Len(Readable') = c.w - c.r
  BY <1>1, ContentsProperties
<1> QED
  BY <1>2 DEF Justified, SetThis, This

\* For strings of any length and whatever the sizes: a buffer that is drained does not
\* grow for ever (Buffer.cc:132-135).
THEOREM GrowthCorrect == Spec => GrowsOnlyForContents
<1> DEFINE Bound == Len(buffer_') > Len(buffer_) =>
                      /\ Len(Readable') > Len(buffer_) - kCheapPrepend
                      /\ Len(buffer_') <= kCheapPrepend + 2 * Len(Readable')
<1>1. TypeOK /\ [Next]_vars => [Bound]_vars
  <2> SUFFICES ASSUME TypeOK, Next PROVE Bound
    BY DEF vars
  <2>0. Sound(This) /\ Len(buffer_) \in Nat
    BY TypeIsSound DEF TypeOK
  <2>1. ASSUME NEW str \in Strings, Append_(str) PROVE Bound
    <3>1. str \in Seq(Byte) /\ SetThis(append(This, str))
      BY <2>1, StringsAreSequences DEF Append_
    <3> QED
      BY <2>0, <3>1, AppendProperty, AppendGrowth, StoredGrowth
  <2>2. ASSUME NEW str \in Strings, ReadFd(str) PROVE Bound
    <3>1. str \in Seq(Byte) /\ SetThis(readFd(This, str))
      BY <2>2, StringsAreSequences DEF ReadFd
    <3> QED
      BY <2>0, <3>1, ReadFdProperty, ReadFdGrowth, StoredGrowth
  <2>3. ASSUME UNCHANGED buffer_ PROVE Bound
    BY <2>0, <2>3
  <2>4. ASSUME NEW n, WriteFd(n) \/ Retrieve(n) \/ RetrieveAsString(n) PROVE UNCHANGED buffer_
    BY <2>4 DEF WriteFd, Retrieve, RetrieveAsString, retrieve, retrieveAll, SetThis, This, bufferVars
  <2> QED
    BY <2>1, <2>2, <2>3, <2>4 DEF Next, RetrieveAllAsString
<1> QED
  BY <1>1, IndexesInOrder, PTL DEF Spec, GrowsOnlyForContents
=============================================================================

------------------------------ MODULE ByteQueue ------------------------------
(***************************************************************************)
(* What a Buffer promises: a queue of bytes without indexes, moves or a    *)
(* capacity.  `in` is the string that the last call brought, `out` the one *)
(* that the last call handed out.                                          *)
(***************************************************************************)
EXTENDS Naturals, Sequences

CONSTANT Byte

VARIABLES queue, in, out

vars == <<queue, in, out>>

Init == queue = <<>> /\ in = <<>> /\ out = <<>>

\* n bytes off the front; all of them, if there are not that many.
Drop(n) == IF n < Len(queue) THEN SubSeq(queue, n + 1, Len(queue)) ELSE <<>>

Put ==
  /\ in' \in Seq(Byte)
  /\ queue' = queue \o in'
  /\ UNCHANGED out

\* A prefix is copied out, and stays.
Copy ==
  /\ Len(out') <= Len(queue)
  /\ out' = SubSeq(queue, 1, Len(out'))
  /\ UNCHANGED <<queue, in>>

Discard ==
  /\ \E n \in 0..Len(queue) : queue' = Drop(n)
  /\ UNCHANGED <<in, out>>

\* A prefix is handed out as a string, and leaves: exactly what is handed out is gone.
Take ==
  /\ Len(out') <= Len(queue)
  /\ out' = SubSeq(queue, 1, Len(out'))
  /\ queue' = Drop(Len(out'))
  /\ UNCHANGED in

Next == Put \/ Copy \/ Discard \/ Take

Spec == Init /\ [][Next]_vars
=============================================================================

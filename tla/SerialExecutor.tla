--------------------------- MODULE SerialExecutor ---------------------------
(***************************************************************************)
(* What an EventLoop promises to the code that hands it functors, without  *)
(* its mutex, its eventfd or its phases: one queue in order of submission, *)
(* from which the loop thread starts functors one at a time, each once;    *)
(* and functors that the loop thread runs on the spot, past the queue,     *)
(* because they were given to runInLoop() on the loop thread itself.       *)
(***************************************************************************)
EXTENDS Sequences, Functions

CONSTANT Functors   \* the closures; each is handed over at most once

VARIABLES queue,    \* functors accepted and not started, oldest first
          ran       \* functors started

xvars == <<queue, ran>>

Unused == Functors \ (Range(queue) \cup ran)

TypeOK ==
  /\ queue \in Seq(Functors)
  /\ ran \in SUBSET Functors

Init ==
  /\ queue = <<>>
  /\ ran = {}

\* queueInLoop(f), and runInLoop(f) from a thread other than the loop's.
Submit(f) ==
  /\ f \in Unused
  /\ queue' = Append(queue, f)
  /\ UNCHANGED ran

\* The loop thread starts the oldest functor of the queue.
Start ==
  /\ queue # <<>>
  /\ ran' = ran \cup {Head(queue)}
  /\ queue' = Tail(queue)

\* runInLoop(f) on the loop thread.
RunNow(f) ==
  /\ f \in Unused
  /\ ran' = ran \cup {f}
  /\ UNCHANGED queue

Next ==
  \/ \E f \in Functors : Submit(f) \/ RunNow(f)
  \/ Start

Spec == Init /\ [][Next]_xvars
=============================================================================

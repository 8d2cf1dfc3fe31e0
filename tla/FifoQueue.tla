----------------------------- MODULE FifoQueue -----------------------------
(***************************************************************************)
(* What mt_queue and ipc_queue promise to the threads or processes that    *)
(* share one: elements leave in the order they entered, each exactly once, *)
(* unless the queue is cleared.                                            *)
(***************************************************************************)
EXTENDS Sequences

CONSTANT Elements

VARIABLES
  q,      (* the elements in the queue *)
  taken   (* the elements handed out so far, in order *)

qvars == <<q, taken>>

Init == q = <<>> /\ taken = <<>>

Enqueue(e) == q' = Append(q, e) /\ UNCHANGED taken

Dequeue ==
  /\ q # <<>>
  /\ taken' = Append(taken, Head(q))
  /\ q' = Tail(q)

Clear == q' = <<>> /\ UNCHANGED taken

Next == (\E e \in Elements : Enqueue(e)) \/ Dequeue \/ Clear

Spec == Init /\ [][Next]_qvars
=============================================================================

------------------------------- MODULE MCFsm -------------------------------
(* Small instances of Fsm: three states that may nest in one composite. *)
EXTENDS Fsm

MCHierarchy == [c \in Composites |-> Top]
=============================================================================

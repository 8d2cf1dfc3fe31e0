----------------------------- MODULE FsmEvents -----------------------------
(***************************************************************************)
(* What base_fsm promises to its users: an event-driven machine with at    *)
(* most one pending event.  The state changes only by taking the latest    *)
(* event requested (external_event, inject_event, internal_event); only a  *)
(* machine with guards may drop an event; previous_state() is the state    *)
(* held before the last change.                                            *)
(***************************************************************************)
EXTENDS Integers

CONSTANTS
  States,
  None      (* not a state: no event is pending *)

VARIABLES state, previous, home, pending, guarded

avars == <<state, previous, home, pending, guarded>>

(* previous_state() after moving to s: the state left, if s differs. *)
Left(s) == IF s # state THEN state ELSE previous

Init ==
  /\ state \in States
  /\ home = state
  /\ previous = 0
  /\ pending = None
  /\ guarded \in BOOLEAN

Request(s) ==
  /\ pending' = s
  /\ UNCHANGED <<state, previous, home, guarded>>

Take ==
  /\ pending # None
  /\ state' = pending
  /\ previous' = Left(pending)
  /\ pending' = None
  /\ UNCHANGED <<home, guarded>>

Reject ==
  /\ guarded /\ pending # None
  /\ pending' = None
  /\ UNCHANGED <<state, previous, home, guarded>>

Reset ==
  /\ state' = home
  /\ previous' = Left(home)
  /\ pending' = None
  /\ UNCHANGED <<home, guarded>>

Copy ==
  /\ home' = state
  /\ UNCHANGED <<state, previous, pending, guarded>>

Next ==
  \/ \E s \in States : Request(s)
  \/ Take \/ Reject \/ Reset \/ Copy

Spec == Init /\ [][Next]_avars
=============================================================================

---------------------------- MODULE MtFsmProofs ----------------------------
(***************************************************************************)
(* Theorems about MtFsm for every number of threads, every state map and   *)
(* callbacks that re-enter the FSM or throw as they please.                *)
(***************************************************************************)
EXTENDS MtFsm, TLAPS

(* The thread that holds the mutex is the one that took it and did not get *)
(* to the unlock().                                                        *)
Ownership ==
  \A t \in Threads : pc[t] \in {"run", "stuck", "threw"} <=> holder = t

MtInv == TypeOK /\ Ownership /\ (pending # None => holder # NoThread)

(* What the machine does keeps its variables well typed. *)
LEMMA EventTypes ==
  ASSUME TypeOK
  PROVE  /\ Events!Take \/ Events!Reject \/ Events!Reset =>
              /\ {state', previous', home'} \subseteq States
              /\ pending' = None /\ guarded' \in BOOLEAN
         /\ \A s \in States : Events!Request(s) =>
              /\ {state', previous', home'} \subseteq States
              /\ pending' = s /\ guarded' \in BOOLEAN
BY DEF TypeOK, Events!Take, Events!Reject, Events!Reset, Events!Request, Events!Left

LEMMA MtInit == Init => MtInv
BY MtFsmAssumption DEF Init, Events!Init, MtInv, TypeOK, Ownership

LEMMA MtStep == MtInv /\ [Next]_vars => MtInv'
<1> SUFFICES ASSUME MtInv, [Next]_vars
             PROVE  MtInv'
  OBVIOUS
<1> USE MtFsmAssumption DEF MtInv
<1>1. CASE UNCHANGED vars
  BY <1>1 DEF vars, TypeOK, Ownership
<1>2. ASSUME NEW t \in Threads, NEW c \in {"event", "inject", "init"},
             NEW s \in States, Call(t, c, s)
      PROVE  MtInv'
  BY <1>2 DEF Call, fsm, TypeOK, Ownership
<1>3. ASSUME NEW t \in Threads, Lock(t)
      PROVE  MtInv'
  <2>1. /\ {state', previous', home'} \subseteq States
        /\ pending' \in States \cup {None} /\ guarded' \in BOOLEAN
    BY <1>3, EventTypes DEF Lock, TypeOK
  <2>2. TypeOK'
    BY <1>3, <2>1 DEF Lock, TypeOK
  <2>3. Ownership'
    BY <1>3 DEF Lock, TypeOK, Ownership
  <2>4. holder' # NoThread
    BY <1>3 DEF Lock
  <2>5. QED
    BY <2>2, <2>3, <2>4
<1>4. ASSUME NEW t \in Threads, Step(t)
      PROVE  MtInv'
  <2>1. /\ {state', previous', home'} \subseteq States
        /\ pending' = None /\ guarded' \in BOOLEAN
    BY <1>4, EventTypes DEF Step
  <2>2. QED
    BY <1>4, <2>1 DEF Step, TypeOK, Ownership
<1>5. ASSUME NEW t \in Threads, NEW s \in States, Internal(t, s)
      PROVE  MtInv'
  <2>1. /\ {state', previous', home'} \subseteq States
        /\ pending' = s /\ guarded' \in BOOLEAN
    BY <1>5, EventTypes DEF Internal
  <2>2. holder' # NoThread
    BY <1>5 DEF Internal, TypeOK, Ownership
  <2>3. QED
    BY <1>5, <2>1, <2>2 DEF Internal, TypeOK, Ownership
<1>6. ASSUME NEW t \in Threads, Relock(t) \/ Throw(t)
      PROVE  MtInv'
  BY <1>6 DEF Relock, Throw, fsm, TypeOK, Ownership
<1>7. ASSUME NEW t \in Threads, Unlock(t)
      PROVE  MtInv'
  BY <1>7 DEF Unlock, fsm, TypeOK, Ownership
<1>8. QED
  BY <1>1, <1>2, <1>3, <1>4, <1>5, <1>6, <1>7 DEF Next, Engine

LEMMA MtInvariant == Spec => []MtInv
BY MtInit, MtStep, PTL DEF Spec

(* Type correctness of the thread-safe FSM. *)
THEOREM MtTypeCorrect == Spec => []TypeOK
BY MtInvariant, PTL DEF MtInv

(* However many threads call it, one of them runs the engine at a time and *)
(* none finds an event of another one pending.                             *)
THEOREM MtEventsNotMixed == Spec => []EventsNotMixed
<1>1. MtInv => EventsNotMixed
  BY DEF MtInv, Ownership, EventsNotMixed
<1>2. QED
  BY <1>1, MtInvariant, PTL
=============================================================================

------------------------------- MODULE MtFsm -------------------------------
(***************************************************************************)
(* multithread::mt_fsm: a base_fsm whose external_event() and init() run   *)
(* under a mutex, called by several threads.  What base_fsm itself does is *)
(* taken from FsmEvents, which Fsm implements.                             *)
(*                                                                         *)
(* A thread may call external_event(), inject_event() or init() of a       *)
(* derived class.  inject_event() reads the current state before the       *)
(* overridden external_event() takes the mutex.  A callback running in the *)
(* engine may generate internal events without end, may call               *)
(* inject_event() itself and may throw: std::mutex is not recursive, and   *)
(* unlock() is a plain call after the engine, so in the last two cases the *)
(* thread keeps the mutex for good.                                        *)
(*                                                                         *)
(* An operator X_Fault is no part of the model: it is X with a plausible   *)
(* bug, kept to show that a property is able to fail.                      *)
(***************************************************************************)
EXTENDS Integers

CONSTANTS
  States,       (* the rows of the state map *)
  None,
  Threads, NoThread

ASSUME MtFsmAssumption ==
  /\ 0 \in States
  /\ None \notin States
  /\ NoThread \notin Threads

VARIABLES
  state, previous, home, pending, guarded,   (* the base_fsm, see FsmEvents *)
  holder,   (* the owner of m_mutex *)
  pc,       (* where each thread is in its call *)
  call,     (* the call it makes *)
  arg       (* the new_state it passes to external_event() *)

Events == INSTANCE FsmEvents

fsm  == <<state, previous, home, pending, guarded>>
vars == <<state, previous, home, pending, guarded, holder, pc, call, arg>>

Init ==
  /\ Events!Init
  /\ holder = NoThread
  /\ pc = [t \in Threads |-> "idle"]
  /\ call = [t \in Threads |-> "init"]
  /\ arg = [t \in Threads |-> 0]

(* A call up to the lock().  The new state is the caller's choice, or what *)
(* inject_event() reads, without the mutex, as the current state.          *)
Call(t, c, s) ==
  /\ pc[t] = "idle"
  /\ c = "inject" => s = state
  /\ pc' = [pc EXCEPT ![t] = "lock"]
  /\ call' = [call EXCEPT ![t] = c]
  /\ arg' = [arg EXCEPT ![t] = s]
  /\ UNCHANGED <<fsm, holder>>

(* lock() and the start of base_fsm::external_event(), or base_fsm::init() *)
Lock_Fault(t) ==
  /\ pc[t] = "lock"
  /\ holder' = t
  /\ pc' = [pc EXCEPT ![t] = "run"]
  /\ IF call[t] = "init" THEN Events!Reset ELSE Events!Request(arg[t])
  /\ arg' = [arg EXCEPT ![t] = 0]
  /\ UNCHANGED call

Lock(t) ==
  /\ pc[t] = "lock" /\ holder = NoThread
  /\ holder' = t
  /\ pc' = [pc EXCEPT ![t] = "run"]
  /\ IF call[t] = "init" THEN Events!Reset ELSE Events!Request(arg[t])
  /\ arg' = [arg EXCEPT ![t] = 0]
  /\ UNCHANGED call

(* The engine switches to the pending state, or a guard rejects it. *)
Step(t) ==
  /\ pc[t] = "run"
  /\ Events!Take \/ Events!Reject
  /\ UNCHANGED <<holder, pc, call, arg>>

(* A callback of the engine calls internal_event(). *)
Internal(t, s) ==
  /\ pc[t] = "run" /\ call[t] # "init"
  /\ Events!Request(s)
  /\ UNCHANGED <<holder, pc, call, arg>>

(* A callback calls inject_event() and locks the mutex its thread holds. *)
Relock(t) ==
  /\ pc[t] = "run" /\ call[t] # "init"
  /\ pc' = [pc EXCEPT ![t] = "stuck"]
  /\ UNCHANGED <<fsm, holder, call, arg>>

(* A callback throws past the unlock(). *)
Throw(t) ==
  /\ pc[t] = "run" /\ call[t] # "init"
  /\ pc' = [pc EXCEPT ![t] = "threw"]
  /\ UNCHANGED <<fsm, holder, call, arg>>

(* Mutant: the mutex is not released. *)
Unlock_Never(t) ==
  /\ pc[t] = "run" /\ pending = None
  /\ pc' = [pc EXCEPT ![t] = "idle"]
  /\ UNCHANGED <<fsm, holder, call, arg>>

(* The engine is done, then unlock(). *)
Unlock(t) ==
  /\ pc[t] = "run" /\ pending = None
  /\ pc' = [pc EXCEPT ![t] = "idle"]
  /\ holder' = NoThread
  /\ UNCHANGED <<fsm, call, arg>>

----------------------------------------------------------------------------
Engine(t) == Step(t) \/ Unlock(t)

Next ==
  \E t \in Threads :
    \/ \E c \in {"event", "inject", "init"}, s \in States : Call(t, c, s)
    \/ Lock(t) \/ Engine(t) \/ Relock(t) \/ Throw(t)
    \/ \E s \in States : Internal(t, s)

Spec == Init /\ [][Next]_vars

(* A thread inside the engine keeps running and its callbacks return.  The *)
(* mutex owes no thread its turn, and no thread has to make a call.        *)
FairSpec == Spec /\ \A t \in Threads : WF_vars(Engine(t))

----------------------------------------------------------------------------
(* Properties *)

TypeOK ==
  /\ {state, previous, home} \subseteq States
  /\ pending \in States \cup {None}
  /\ guarded \in BOOLEAN
  /\ holder \in Threads \cup {NoThread}
  /\ pc \in [Threads -> {"idle", "lock", "run", "stuck", "threw"}]
  /\ call \in [Threads -> {"event", "inject", "init"}]
  /\ arg \in [Threads -> States]

(* One thread runs the engine at a time and leaves nothing behind: an      *)
(* event is pending only while the thread that holds the mutex runs, so no *)
(* call overwrites the event of another.                                   *)
EventsNotMixed ==
  /\ \A t \in Threads : pc[t] = "run" => holder = t
  /\ pending # None => holder # NoThread

(* A thread keeps the mutex for good in three cases only: its callbacks    *)
(* raise internal events without end, one of them re-enters the FSM and    *)
(* locks the mutex again, or one throws past the unlock().  The code       *)
(* guards against none of the three.                                       *)
MutexReleased ==
  \A t \in Threads :
    \/ []<>(holder # t)
    \/ []<><<\E s \in States : Internal(t, s)>>_vars
    \/ <>(pc[t] \in {"stuck", "threw"})

(* An injected event is processed in the state the machine is in. *)
InjectKeepsState ==
  [][\A t \in Threads :
       (call[t] = "inject" /\ pc[t] = "lock" /\ pc'[t] = "run")
         => pending' = state]_vars
=============================================================================

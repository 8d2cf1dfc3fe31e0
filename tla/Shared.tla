------------------------------- MODULE Shared -------------------------------
(***************************************************************************)
(* mt_set() and mt_add() of the thread-safe build: an atomic double, for   *)
(* which each is a load and one compare-exchange, and an atomic size_t,    *)
(* where each is one operation.                                            *)
(*                                                                         *)
(* Exchange_Store is a faulty variant; no specification uses it.           *)
(***************************************************************************)
EXTENDS Naturals

CONSTANTS
  Threads,
  Args,
  MaxCalls     \* bound on the calls made in a behaviour

VARIABLES
  value,       \* the mt_double_t
  count,       \* the mt_size_t
  pending,     \* thread -> its call between load and exchange: [op, arg, tmp]
  calls,       \* the number of calls made
  raced,       \* history: the threads whose value was changed after the load
  effective,   \* history: what the calls with an effect make of the double
  tally        \* history: what the calls on the size_t make of it

vars == <<value, count, pending, calls, raced, effective, tally>>

Idle == [op |-> "none", arg |-> 0, tmp |-> 0]
Ops == {"set", "add"}
Applied(op, arg, old) == IF op = "set" THEN arg ELSE old + arg

Init ==
  /\ value = 0
  /\ count = 0
  /\ pending = [t \in Threads |-> Idle]
  /\ calls = 0
  /\ raced = {}
  /\ effective = 0
  /\ tally = 0

(* mt_load() in a call on the double.                                      *)
Load(t, op, arg) ==
  /\ pending[t] = Idle
  /\ calls < MaxCalls
  /\ calls' = calls + 1
  /\ pending' = [pending EXCEPT ![t] = [op |-> op, arg |-> arg, tmp |-> value]]
  /\ raced' = raced \ {t}
  /\ UNCHANGED <<value, count, effective, tally>>

(* What becomes of the other threads' calls when the double changes.       *)
Raced(t) ==
  raced' = IF value' = value THEN raced
           ELSE raced \cup {u \in Threads \ {t} : pending[u] # Idle}

(* Mutant: a store, whatever happened since the load.                      *)
Exchange_Store(t) ==
  LET call == pending[t] IN
  /\ call # Idle
  /\ value' = Applied(call.op, call.arg, call.tmp)
  /\ effective' = Applied(call.op, call.arg, effective)
  /\ pending' = [pending EXCEPT ![t] = Idle]
  /\ Raced(t)
  /\ UNCHANGED <<count, calls, tally>>

(* The call's compare_exchange_strong(), whose result nobody looks at.     *)
Exchange(t) ==
  LET call == pending[t] IN
  /\ call # Idle
  /\ IF value = call.tmp
     THEN /\ value' = Applied(call.op, call.arg, call.tmp)
          /\ effective' = Applied(call.op, call.arg, effective)
     ELSE UNCHANGED <<value, effective>>
  /\ pending' = [pending EXCEPT ![t] = Idle]
  /\ Raced(t)
  /\ UNCHANGED <<count, calls, tally>>

(* A call on the size_t.                                                   *)
Count(t, op, arg) ==
  /\ pending[t] = Idle
  /\ calls < MaxCalls
  /\ calls' = calls + 1
  /\ count' = Applied(op, arg, count)
  /\ tally' = Applied(op, arg, tally)
  /\ UNCHANGED <<value, pending, raced, effective>>

Next ==
  \E t \in Threads :
    \/ \E op \in Ops, arg \in Args : Load(t, op, arg) \/ Count(t, op, arg)
    \/ Exchange(t)

Spec == Init /\ [][Next]_vars

----------------------------------------------------------------------------
(* The double is what the calls that had an effect make of it, none undone *)
(* by another, and a call without effect met a change between its load and *)
(* its exchange; a call nobody interferes with will have its effect.       *)
AddsAccounted ==
  /\ value = effective /\ count = tally
  /\ \A t \in Threads :
       (pending[t] # Idle /\ t \notin raced) => pending[t].tmp = value
=============================================================================

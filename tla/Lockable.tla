------------------------------ MODULE Lockable ------------------------------
(***************************************************************************)
(* multithread::lockable: threads enter and leave sections, for writing or *)
(* for reading, with maybe_lock_*(mtx, cond) and maybe_unlock_*(mtx, cond).*)
(* The condition is the user's, one flag for all sections, and it is read  *)
(* anew for each call; lock_* and unlock_* pass TRUE.                      *)
(*                                                                         *)
(* The std::shared_mutex belongs to one writer or to readers.  Locking it  *)
(* again, or unlocking what the thread does not hold, is undefined.        *)
(*                                                                         *)
(* MaybeUnlock_Always is a faulty variant; no specification uses it.        *)
(***************************************************************************)
EXTENDS Naturals

CONSTANTS
  Threads,
  NoThread     \* not one of them

VARIABLES
  flag,        \* the condition
  owner,       \* the writer that holds the mutex
  sharers,     \* the readers that hold it
  at,          \* thread -> "out", "wait" (in lock()) or "in" its section
  kind,        \* thread -> "wr" or "rd"
  locked,      \* history: the threads whose section took the mutex
  crossed,     \* history: the flag changed while a section was under way
  status       \* "running" or "undefined"

vars == <<flag, owner, sharers, at, kind, locked, crossed, status>>

Init ==
  /\ flag \in BOOLEAN
  /\ owner = NoThread
  /\ sharers = {}
  /\ at = [t \in Threads |-> "out"]
  /\ kind = [t \in Threads |-> "rd"]
  /\ locked = {}
  /\ crossed = FALSE
  /\ status = "running"

Holds(t) == owner = t \/ t \in sharers

(* maybe_lock_wr() and maybe_lock_rd() up to the lock itself.              *)
MaybeLock(t, k) ==
  /\ status = "running" /\ at[t] = "out"
  /\ kind' = [kind EXCEPT ![t] = k]
  /\ IF flag /\ Holds(t)
     THEN status' = "undefined" /\ UNCHANGED at
     ELSE at' = [at EXCEPT ![t] = IF flag THEN "wait" ELSE "in"] /\ UNCHANGED status
  /\ UNCHANGED <<flag, owner, sharers, locked, crossed>>

(* lock() and lock_shared() of the mutex.                                  *)
Acquire(t) ==
  /\ status = "running" /\ at[t] = "wait"
  /\ owner = NoThread
  /\ IF kind[t] = "wr"
     THEN sharers = {} /\ owner' = t /\ UNCHANGED sharers
     ELSE sharers' = sharers \cup {t} /\ UNCHANGED owner
  /\ at' = [at EXCEPT ![t] = "in"]
  /\ locked' = locked \cup {t}
  /\ UNCHANGED <<flag, kind, crossed, status>>

(* unlock() and unlock_shared() of the mutex.                              *)
Release(t) ==
  IF kind[t] = "wr"
  THEN /\ status' = IF owner = t THEN status ELSE "undefined"
       /\ owner' = NoThread /\ UNCHANGED sharers
  ELSE /\ status' = IF t \in sharers THEN status ELSE "undefined"
       /\ sharers' = sharers \ {t} /\ UNCHANGED owner

(* Mutant: the condition is not looked at.                                 *)
MaybeUnlock_Always(t) ==
  /\ status = "running" /\ at[t] = "in"
  /\ Release(t)
  /\ at' = [at EXCEPT ![t] = "out"]
  /\ locked' = locked \ {t}
  /\ UNCHANGED <<flag, kind, crossed>>

(* maybe_unlock_wr() and maybe_unlock_rd().                                *)
MaybeUnlock(t) ==
  /\ status = "running" /\ at[t] = "in"
  /\ IF flag THEN Release(t) ELSE UNCHANGED <<owner, sharers, status>>
  /\ at' = [at EXCEPT ![t] = "out"]
  /\ locked' = locked \ {t}
  /\ UNCHANGED <<flag, kind, crossed>>

(* The user changes the condition.                                         *)
Change ==
  /\ flag' = ~flag
  /\ crossed' = (crossed \/ \E t \in Threads : at[t] # "out")
  /\ UNCHANGED <<owner, sharers, at, kind, locked, status>>

Next ==
  \/ \E t \in Threads, k \in {"wr", "rd"} : MaybeLock(t, k)
  \/ \E t \in Threads : Acquire(t) \/ MaybeUnlock(t)
  \/ Change

Spec == Init /\ [][Next]_vars

----------------------------------------------------------------------------
Inside == {t \in Threads : at[t] = "in"}

(* A writer that locked is alone among the sections that locked, whatever  *)
(* happens to the condition; and the mutex is held by the sections under   *)
(* way and by nobody else, and never misused, as long as the condition     *)
(* does not change between the lock of a section and its unlock.  (It may  *)
(* change while no section is under way, and a thread that waits for the   *)
(* mutex already is in one.)                                               *)
SectionsExclude ==
  /\ status = "running" =>
       \A t, u \in Inside \cap locked : kind[t] = "wr" => t = u
  /\ ~crossed =>
       /\ status = "running"
       /\ \A t \in Threads : Holds(t) <=> (t \in Inside /\ flag)
=============================================================================

----------------------------- MODULE SyncQueue -----------------------------
(***************************************************************************)
(* multiprocess::ipc_queue, the queue in shared memory that processes      *)
(* share: a deque, a mutex and a condition variable.  multithread::        *)
(* mt_queue is the same algorithm for threads with enqueue() and dequeue() *)
(* for push() and pop_wait().                                              *)
(*                                                                         *)
(* Each process runs one operation after the other, MaxCalls in all (a     *)
(* bound of the model).  A step of an operation is what it does between    *)
(* two points where another process can see the difference: taking the     *)
(* mutex, each access to the deque, notify_one(), the condition wait, the  *)
(* release.  Waiters may wake without being notified.  pop() of an empty   *)
(* queue is undefined: the process stops there, holding the mutex.  The    *)
(* unlocked size() is left out.                                            *)
(*                                                                         *)
(* Processes die.  The mutex and the condition variable are in shared      *)
(* memory, and neither is robust: a process killed inside an operation     *)
(* keeps the mutex if it has it, and one killed in its wait may still be   *)
(* chosen by a notify_one().                                               *)
(*                                                                         *)
(* An operator X_Fault is no part of the model: it is X with a plausible   *)
(* bug, kept to show that a property is able to fail.                      *)
(***************************************************************************)
EXTENDS Naturals, Sequences, FiniteSets

CONSTANTS
  Procs,      (* the processes (threads) sharing the queue *)
  NoProc,
  Calls,      (* the operations each process calls *)
  Mortal,     (* the processes that may be killed in an operation *)
  MaxCalls    (* bound: operations a process calls *)

Ops == {"push", "pop", "pop_try", "pop_wait", "pop_timed_wait", "clear", "is_empty"}

ASSUME QueueAssumption ==
  /\ IsFiniteSet(Procs)
  /\ NoProc \notin Procs
  /\ Calls \in [Procs -> SUBSET Ops]
  /\ Mortal \subseteq Procs
  /\ MaxCalls \in Nat

VARIABLES
  queue,    (* m_queue *)
  holder,   (* the owner of m_io_mutex *)
  pc,       (* where each process is in its operation *)
  op,       (* the operation it runs *)
  item,     (* its local `element' *)
  calls,    (* how many operations it has begun *)
  taken     (* history: elements popped, in order *)

vars == <<queue, holder, pc, op, item, calls, taken>>

Elements == Procs \X (1 .. MaxCalls)
NoItem   == <<>>
Places   == {"idle", "lock", "locked", "sleep", "woken", "waited", "front",
             "notify", "unlock", "undefined", "dead", "ghost"}

(* The places between taking the mutex and releasing it. *)
Inside   == {"locked", "waited", "front", "notify", "unlock", "undefined"}

Init ==
  /\ queue = <<>>
  /\ holder = NoProc
  /\ pc = [p \in Procs |-> "idle"]
  /\ op = [p \in Procs |-> "is_empty"]
  /\ item = [p \in Procs |-> NoItem]
  /\ calls = [p \in Procs |-> 0]
  /\ taken = <<>>

Goto(p, from, to) ==
  /\ pc[p] = from
  /\ pc' = [pc EXCEPT ![p] = to]

Sleepers == {p \in Procs : pc[p] = "sleep"}

(* What the condition variable counts as waiting, and what becomes of one   *)
(* that is notified.                                                       *)
Waiters  == {p \in Procs : pc[p] \in {"sleep", "ghost"}}
Woken(p) == IF pc[p] = "ghost" THEN "dead" ELSE "woken"

Call(p, o) ==
  /\ calls[p] < MaxCalls
  /\ Goto(p, "idle", "lock")
  /\ op' = [op EXCEPT ![p] = o]
  /\ calls' = [calls EXCEPT ![p] = @ + 1]
  /\ UNCHANGED <<queue, holder, item, taken>>

(* scoped_lock, on entry and when a condition wait returns. *)
Acquire(p) ==
  /\ holder = NoProc
  /\ \/ Goto(p, "lock", "locked")
     \/ op[p] = "pop_wait" /\ Goto(p, "woken", "locked")
     \/ op[p] = "pop_timed_wait" /\ Goto(p, "woken", "waited")
  /\ holder' = p
  /\ UNCHANGED <<queue, op, item, calls, taken>>

PushBack_Fault(p) ==
  /\ op[p] = "push"
  /\ Goto(p, "locked", IF queue = <<>> THEN "notify" ELSE "unlock")
  /\ queue' = Append(queue, <<p, calls[p]>>)
  /\ UNCHANGED <<holder, op, item, calls, taken>>

PushBack(p) ==
  /\ op[p] = "push"
  /\ Goto(p, "locked", "notify")
  /\ queue' = Append(queue, <<p, calls[p]>>)
  /\ UNCHANGED <<holder, op, item, calls, taken>>

(* notify_one() wakes some waiter, if there is one. *)
NotifyOne_Fault(p) ==
  /\ Goto(p, "notify", "unlock")
  /\ UNCHANGED <<queue, holder, op, item, calls, taken>>

NotifyOne(p) ==
  /\ pc[p] = "notify"
  /\ IF Waiters = {}
       THEN pc' = [pc EXCEPT ![p] = "unlock"]
       ELSE \E w \in Waiters : pc' = [pc EXCEPT ![p] = "unlock", ![w] = Woken(w)]
  /\ UNCHANGED <<queue, holder, op, item, calls, taken>>

(* pop_wait() waits while the queue is empty, pop_timed_wait() waits once, *)
(* whatever the queue holds.  Waiting releases the mutex.                  *)
Waits(p) ==
  \/ op[p] = "pop_wait" /\ queue = <<>>
  \/ op[p] = "pop_timed_wait"

Wait_Fault(p) ==
  /\ Waits(p)
  /\ Goto(p, "locked", "sleep")
  /\ UNCHANGED <<queue, holder, op, item, calls, taken>>

Wait(p) ==
  /\ Waits(p)
  /\ Goto(p, "locked", "sleep")
  /\ holder' = NoProc
  /\ UNCHANGED <<queue, op, item, calls, taken>>

(* A wait also returns when its time is up, or for no reason. *)
Wake(p) ==
  /\ Goto(p, "sleep", "woken")
  /\ UNCHANGED <<queue, holder, op, item, calls, taken>>

(* May p look at the front now?  The waits of pop_wait() end in "locked",  *)
(* that of pop_timed_wait() in "waited".                                   *)
AtPop(p) ==
  \/ pc[p] = "locked" /\ op[p] \in {"pop", "pop_try", "pop_wait"}
  \/ pc[p] = "waited"

Front_Fault(p) ==
  /\ AtPop(p) /\ queue # <<>>
  /\ item' = [item EXCEPT ![p] = IF Len(queue) > 1 THEN queue[2] ELSE NoItem]
  /\ pc' = [pc EXCEPT ![p] = "front"]
  /\ UNCHANGED <<queue, holder, op, calls, taken>>

Front(p) ==
  /\ AtPop(p) /\ queue # <<>>
  /\ item' = [item EXCEPT ![p] = Head(queue)]
  /\ pc' = [pc EXCEPT ![p] = "front"]
  /\ UNCHANGED <<queue, holder, op, calls, taken>>

PopFront(p) ==
  /\ Goto(p, "front", "unlock")
  /\ queue' = Tail(queue)
  /\ taken' = Append(taken, item[p])
  /\ UNCHANGED <<holder, op, item, calls>>

(* On an empty queue pop_try() and pop_timed_wait() return false and pop() *)
(* reads a front that is not there.                                        *)
FindNothing(p) ==
  /\ AtPop(p) /\ op[p] # "pop_wait" /\ queue = <<>>
  /\ pc' = [pc EXCEPT ![p] = IF op[p] = "pop" THEN "undefined" ELSE "unlock"]
  /\ UNCHANGED <<queue, holder, op, item, calls, taken>>

Clear(p) ==
  /\ op[p] = "clear"
  /\ Goto(p, "locked", "unlock")
  /\ queue' = <<>>
  /\ UNCHANGED <<holder, op, item, calls, taken>>

IsEmpty(p) ==
  /\ op[p] = "is_empty"
  /\ Goto(p, "locked", "unlock")
  /\ UNCHANGED <<queue, holder, op, item, calls, taken>>

Unlock(p) ==
  /\ Goto(p, "unlock", "idle")
  /\ holder' = NoProc
  /\ item' = [item EXCEPT ![p] = NoItem]
  /\ UNCHANGED <<queue, op, calls, taken>>

(* p is killed in an operation: what it holds, it keeps. *)
Kill(p) ==
  /\ p \in Mortal
  /\ pc[p] \notin {"idle", "undefined", "dead", "ghost"}
  /\ pc' = [pc EXCEPT ![p] = IF @ = "sleep" THEN "ghost" ELSE "dead"]
  /\ UNCHANGED <<queue, holder, op, item, calls, taken>>

----------------------------------------------------------------------------
(* Inside an operation that the caller cannot leave on its own. *)
Run(p) ==
  \/ Acquire(p)  \/ PushBack(p) \/ NotifyOne(p) \/ Wait(p)
  \/ Front(p)    \/ PopFront(p) \/ FindNothing(p)
  \/ Clear(p)    \/ IsEmpty(p)  \/ Unlock(p)

Next ==
  \E p \in Procs :
    (\E o \in Calls[p] : Call(p, o)) \/ Run(p) \/ Wake(p) \/ Kill(p)

Spec == Init /\ [][Next]_vars

(* A process inside an operation keeps running and time passes for timed   *)
(* waits.  Nobody owes the queue a call, nor an unlimited wait a wake-up.  *)
FairSpec ==
  /\ Spec
  /\ \A p \in Procs : WF_vars(Run(p))
  /\ \A p \in Procs : WF_vars(op[p] = "pop_timed_wait" /\ Wake(p))

----------------------------------------------------------------------------
(* Properties *)

(* Everything has its type; in particular an element popped is one that    *)
(* some process pushed.                                                    *)
TypeOK ==
  /\ queue \in Seq(Elements)
  /\ holder \in Procs \cup {NoProc}
  /\ pc \in [Procs -> Places]
  /\ op \in [Procs -> Ops]
  /\ item \in [Procs -> Elements \cup {NoItem}]
  /\ calls \in [Procs -> 0 .. MaxCalls]
  /\ taken \in Seq(Elements)

(* The mutex is held by the process between taking and releasing it, which *)
(* is the only one to touch the deque, or by one that was killed there.    *)
MutexHeld ==
  /\ \A p \in Procs : pc[p] \in Inside => holder = p
  /\ holder # NoProc => pc[holder] \in Inside \cup {"dead"}

(* No wake-up is lost: while a pop_wait() sleeps, each element in the      *)
(* queue has a process on its way to it (woken, at the front, or about to  *)
(* notify), although pop_try() and timed waiters steal elements and        *)
(* notifications; and a killed process costs one wake-up at most, that     *)
(* which it was to give or which was given to it.                          *)
OnTheWay ==
  {p \in Procs : \/ pc[p] \in {"woken", "waited", "front", "notify", "dead"}
                 \/ pc[p] = "locked" /\ op[p] = "pop_wait"}

NoLostWakeup ==
  (\E p \in Sleepers : op[p] = "pop_wait") => Len(queue) <= Cardinality(OnTheWay)

(* Elements leave in the order they entered, each once: the queue          *)
(* implements FifoQueue.                                                   *)
Fifo == INSTANCE FifoQueue WITH q <- queue

ImplementsFifo == Fifo!Spec

(* An element never stays in the queue beside a process that waits for it  *)
(* without a time limit, as long as no process was killed.                 *)
Killed == {p \in Procs : pc[p] \in {"dead", "ghost"}}

NoStrandedElement ==
  \A p \in Procs :
    (pc[p] = "sleep" /\ op[p] = "pop_wait" /\ queue # <<>>)
      ~> (pc[p] # "sleep" \/ queue = <<>> \/ Killed # {})
=============================================================================

--------------------------- MODULE SyncQueueProofs ---------------------------
(***************************************************************************)
(* Theorems about SyncQueue for every number of processes, every mix of    *)
(* operations and every bound on the calls.                                *)
(***************************************************************************)
EXTENDS SyncQueue, FiniteSetTheorems, TLAPS

(* A process inside an operation has begun one. *)
Begun == \A p \in Procs : pc[p] # "idle" => calls[p] # 0

(* Between front() and pop_front() nobody else changes the queue, so the   *)
(* element copied is still the first.                                      *)
FrontStable ==
  \A p \in Procs : pc[p] = "front" => (queue # <<>> /\ item[p] = Head(queue))

QueueInv == TypeOK /\ MutexHeld /\ Begun /\ FrontStable

(* Each step keeps the types: what is pushed is an element because the     *)
(* process has begun a call, what is popped because it was copied.         *)
LEMMA TypeStep ==
  ASSUME QueueInv, Next
  PROVE  TypeOK'
<1> USE QueueAssumption DEF QueueInv, Goto, Places
<1>1. ASSUME NEW p \in Procs, NEW o \in Calls[p], Call(p, o)
      PROVE  TypeOK'
  <2>1. o \in Ops
    OBVIOUS
  <2>2. calls[p] + 1 \in 0 .. MaxCalls
    BY <1>1 DEF TypeOK, Call
  <2>3. QED
    BY <1>1, <2>1, <2>2 DEF TypeOK, Call
<1>2. ASSUME NEW p \in Procs, Acquire(p)
      PROVE  TypeOK'
  BY <1>2 DEF TypeOK, Acquire
<1>3. ASSUME NEW p \in Procs, PushBack(p)
      PROVE  TypeOK'
  <2>1. <<p, calls[p]>> \in Elements
    BY <1>3 DEF TypeOK, Begun, PushBack, Elements
  <2>2. queue' \in Seq(Elements)
    BY <1>3, <2>1 DEF TypeOK, PushBack
  <2>3. QED
    BY <1>3, <2>2 DEF TypeOK, PushBack
<1>4. ASSUME NEW p \in Procs, NotifyOne(p)
      PROVE  TypeOK'
  BY <1>4 DEF TypeOK, NotifyOne, Waiters, Woken
<1>5. ASSUME NEW p \in Procs,
             Wait(p) \/ Wake(p) \/ Kill(p) \/ IsEmpty(p) \/ FindNothing(p)
      PROVE  TypeOK'
  BY <1>5 DEF TypeOK, Wait, Wake, Kill, IsEmpty, FindNothing
<1>6. ASSUME NEW p \in Procs, Front(p)
      PROVE  TypeOK'
  <2>1. Head(queue) \in Elements
    BY <1>6 DEF TypeOK, Front
  <2>2. QED
    BY <1>6, <2>1 DEF TypeOK, Front
<1>7. ASSUME NEW p \in Procs, PopFront(p)
      PROVE  TypeOK'
  <2>1. queue # <<>> /\ item[p] = Head(queue)
    BY <1>7 DEF FrontStable, PopFront
  <2>2. item[p] \in Elements /\ Tail(queue) \in Seq(Elements)
    BY <2>1 DEF TypeOK
  <2>3. queue' \in Seq(Elements) /\ taken' \in Seq(Elements)
    BY <1>7, <2>2 DEF TypeOK, PopFront
  <2>4. QED
    BY <1>7, <2>3 DEF TypeOK, PopFront
<1>8. ASSUME NEW p \in Procs, Clear(p)
      PROVE  TypeOK'
  <2>1. queue' \in Seq(Elements)
    BY <1>8 DEF Clear
  <2>2. QED
    BY <1>8, <2>1 DEF TypeOK, Clear
<1>9. ASSUME NEW p \in Procs, Unlock(p)
      PROVE  TypeOK'
  BY <1>9 DEF TypeOK, Unlock
<1>10. QED
  BY <1>1, <1>2, <1>3, <1>4, <1>5, <1>6, <1>7, <1>8, <1>9 DEF Next, Run

(* Each step keeps the mutex exclusive. *)
LEMMA MutexStep ==
  ASSUME QueueInv, Next
  PROVE  MutexHeld'
<1> USE QueueAssumption DEF QueueInv, TypeOK, MutexHeld, Inside, Goto, Places
<1>1. ASSUME NEW p \in Procs, NEW o \in Calls[p], Call(p, o)
      PROVE  MutexHeld'
  BY <1>1 DEF Call
<1>2. ASSUME NEW p \in Procs, Acquire(p)
      PROVE  MutexHeld'
  BY <1>2 DEF Acquire
<1>3. ASSUME NEW p \in Procs, NotifyOne(p)
      PROVE  MutexHeld'
  BY <1>3 DEF NotifyOne, Waiters, Woken
<1>4. ASSUME NEW p \in Procs, Wait(p) \/ Wake(p) \/ Unlock(p) \/ Kill(p)
      PROVE  MutexHeld'
  BY <1>4 DEF Wait, Wake, Unlock, Kill
<1>5. ASSUME NEW p \in Procs,
             PushBack(p) \/ Front(p) \/ PopFront(p) \/ FindNothing(p)
               \/ Clear(p) \/ IsEmpty(p)
      PROVE  MutexHeld'
  BY <1>5 DEF PushBack, Front, PopFront, FindNothing, Clear, IsEmpty, AtPop
<1>6. QED
  BY <1>1, <1>2, <1>3, <1>4, <1>5 DEF Next, Run

(* Each step keeps the two facts about a process's own locals. *)
LEMMA LocalStep ==
  ASSUME QueueInv, Next
  PROVE  Begun' /\ FrontStable'
<1> USE QueueAssumption DEF QueueInv, Goto, Begun, FrontStable
<1>1. ASSUME NEW p \in Procs, NEW o \in Calls[p], Call(p, o)
      PROVE  Begun' /\ FrontStable'
  BY <1>1 DEF Call, TypeOK
<1>2. ASSUME NEW p \in Procs,
             Acquire(p) \/ Wait(p) \/ Wake(p) \/ Unlock(p) \/ Kill(p)
      PROVE  Begun' /\ FrontStable'
  BY <1>2 DEF Acquire, Wait, Wake, Unlock, Kill, TypeOK
<1>3. ASSUME NEW p \in Procs, NotifyOne(p)
      PROVE  Begun' /\ FrontStable'
  BY <1>3 DEF NotifyOne, Waiters, Woken, TypeOK
<1>4. ASSUME NEW p \in Procs, IsEmpty(p) \/ FindNothing(p) \/ Front(p)
      PROVE  Begun' /\ FrontStable'
  BY <1>4 DEF IsEmpty, FindNothing, Front, AtPop, TypeOK
<1>5. ASSUME NEW p \in Procs, PushBack(p) \/ PopFront(p) \/ Clear(p)
      PROVE  Begun' /\ FrontStable'
  <2>1. \A r \in Procs : pc[r] = "front" => r = p
    BY <1>5 DEF PushBack, PopFront, Clear, MutexHeld, Inside
  <2>2. \A r \in Procs : pc'[r] # "front"
    BY <1>5, <2>1 DEF PushBack, PopFront, Clear, TypeOK
  <2>3. QED
    BY <1>5, <2>2 DEF PushBack, PopFront, Clear, TypeOK
<1>6. QED
  BY <1>1, <1>2, <1>3, <1>4, <1>5 DEF Next, Run

LEMMA InitQueueInv == Init => QueueInv
<1> SUFFICES ASSUME Init PROVE QueueInv
  OBVIOUS
<1>1. TypeOK
  BY QueueAssumption DEF Init, TypeOK, Places, Ops
<1>2. MutexHeld /\ Begun /\ FrontStable
  BY QueueAssumption DEF Init, MutexHeld, Inside, Begun, FrontStable
<1>3. QED
  BY <1>1, <1>2 DEF QueueInv

(* The invariant the other results rest on. *)
LEMMA QueueInvariant == Spec => []QueueInv
<1>1. QueueInv /\ [Next]_vars => QueueInv'
  <2>1. CASE UNCHANGED vars
    BY <2>1 DEF vars, QueueInv, TypeOK, MutexHeld, Begun, FrontStable
  <2>2. ASSUME QueueInv, Next PROVE QueueInv'
    BY <2>2, TypeStep, MutexStep, LocalStep DEF QueueInv
  <2>3. QED
    BY <2>1, <2>2
<1>2. QED
  BY <1>1, InitQueueInv, PTL DEF Spec

(* Type correctness of the queue: in particular only elements that were    *)
(* pushed are ever handed out.                                             *)
THEOREM QueueTypeCorrect == Spec => []TypeOK
BY QueueInvariant, PTL DEF QueueInv

(* The mutex is held exactly by the process inside a critical section.     *)
THEOREM QueueMutualExclusion == Spec => []MutexHeld
BY QueueInvariant, PTL DEF QueueInv
----------------------------------------------------------------------------
(* No wake-up is lost.  The set of processes on their way to an element    *)
(* grows with the queue, and an element takes one of them with it.         *)

LEMMA OnTheWayFinite == IsFiniteSet(OnTheWay)
BY QueueAssumption, FS_Subset DEF OnTheWay

(* When one process sets out for the queue the count grows by one, and     *)
(* when it arrives it shrinks by one.                                      *)
LEMMA OnTheWayCount ==
  ASSUME NEW p \in Procs
  PROVE  /\ Cardinality(OnTheWay) \in Nat
         /\ (OnTheWay' = OnTheWay \cup {p} /\ p \notin OnTheWay)
              => Cardinality(OnTheWay') = Cardinality(OnTheWay) + 1
         /\ (OnTheWay' = OnTheWay \ {p} /\ p \in OnTheWay)
              => Cardinality(OnTheWay') = Cardinality(OnTheWay) - 1
         /\ \A q \in Procs :
              (/\ OnTheWay' = (OnTheWay \ {p}) \cup {q}
               /\ p \in OnTheWay /\ q \notin OnTheWay)
                => Cardinality(OnTheWay') = Cardinality(OnTheWay)
<1>1. Cardinality(OnTheWay) \in Nat
  BY OnTheWayFinite, FS_CardinalityType
<1>2. ASSUME OnTheWay' = OnTheWay \cup {p}, p \notin OnTheWay
      PROVE  Cardinality(OnTheWay') = Cardinality(OnTheWay) + 1
  BY <1>2, OnTheWayFinite, FS_AddElement
<1>3. ASSUME OnTheWay' = OnTheWay \ {p}, p \in OnTheWay
      PROVE  Cardinality(OnTheWay') = Cardinality(OnTheWay) - 1
  BY <1>3, OnTheWayFinite, FS_RemoveElement
<1>4. ASSUME NEW q \in Procs, OnTheWay' = (OnTheWay \ {p}) \cup {q},
             p \in OnTheWay, q \notin OnTheWay
      PROVE  Cardinality(OnTheWay') = Cardinality(OnTheWay)
  <2> DEFINE Rest == OnTheWay \ {p}
  <2>1. IsFiniteSet(Rest) /\ Cardinality(Rest) = Cardinality(OnTheWay) - 1
    BY <1>4, OnTheWayFinite, FS_RemoveElement
  <2>2. Cardinality(Rest \cup {q}) = Cardinality(Rest) + 1
    BY <1>4, <2>1, FS_AddElement
  <2>3. QED
    BY <1>1, <1>4, <2>1, <2>2
<1>5. QED
  BY <1>1, <1>2, <1>3, <1>4

LEMMA WakeupStep ==
  ASSUME QueueInv, NoLostWakeup, Next
  PROVE  NoLostWakeup'
<1> DEFINE Waiting == \E p \in Sleepers : op[p] = "pop_wait"
<1> USE QueueAssumption DEF QueueInv, TypeOK, Goto, Places
<1>1. Len(queue) \in Nat
  OBVIOUS
<1>2. ASSUME NEW p \in Procs,
             (\E o \in Calls[p] : Call(p, o)) \/ IsEmpty(p) \/ Unlock(p)
      PROVE  NoLostWakeup'
  <2>1. OnTheWay' = OnTheWay /\ queue' = queue
    BY <1>2 DEF Call, IsEmpty, Unlock, OnTheWay
  <2>2. Waiting' => Waiting
    BY <1>2 DEF Call, IsEmpty, Unlock, Sleepers
  <2>3. QED
    BY <2>1, <2>2 DEF NoLostWakeup
<1>3. ASSUME NEW p \in Procs, Acquire(p) \/ Front(p) \/ Wake(p) \/ Kill(p)
      PROVE  NoLostWakeup'
  <2>1. queue' = queue
    BY <1>3 DEF Acquire, Front, Wake, Kill
  <2>2. \/ OnTheWay' = OnTheWay
        \/ OnTheWay' = OnTheWay \cup {p} /\ p \notin OnTheWay
    <3>1. CASE p \in OnTheWay
      BY <1>3, <3>1 DEF Acquire, Front, Wake, Kill, OnTheWay, AtPop
    <3>2. CASE p \notin OnTheWay
      BY <1>3, <3>2 DEF Acquire, Front, Wake, Kill, OnTheWay, AtPop
    <3>3. QED
      BY <3>1, <3>2
  <2>3. Waiting' => Waiting
    BY <1>3 DEF Acquire, Front, Wake, Kill, Sleepers, AtPop
  <2>4. /\ Cardinality(OnTheWay) \in Nat
        /\ \/ Cardinality(OnTheWay') = Cardinality(OnTheWay)
           \/ Cardinality(OnTheWay') = Cardinality(OnTheWay) + 1
    BY <2>2, OnTheWayCount
  <2>5. Waiting => Len(queue) <= Cardinality(OnTheWay)
    BY DEF NoLostWakeup
  <2>6. Waiting' => Len(queue') <= Cardinality(OnTheWay')
    BY <1>1, <2>1, <2>3, <2>4, <2>5
  <2>7. QED
    BY <2>6 DEF NoLostWakeup
<1>4. ASSUME NEW p \in Procs, PushBack(p)
      PROVE  NoLostWakeup'
  <2>1. Len(queue') = Len(queue) + 1
    BY <1>4 DEF PushBack
  <2>2. OnTheWay' = OnTheWay \cup {p} /\ p \notin OnTheWay
    BY <1>4 DEF PushBack, OnTheWay
  <2>3. Waiting' => Waiting
    BY <1>4 DEF PushBack, Sleepers
  <2>4. /\ Cardinality(OnTheWay') = Cardinality(OnTheWay) + 1
        /\ Cardinality(OnTheWay) \in Nat
    BY <2>2, OnTheWayCount
  <2>5. Waiting => Len(queue) <= Cardinality(OnTheWay)
    BY DEF NoLostWakeup
  <2>6. Waiting' => Len(queue') <= Cardinality(OnTheWay')
    BY <1>1, <2>1, <2>3, <2>4, <2>5
  <2>7. QED
    BY <2>6 DEF NoLostWakeup
<1>5. ASSUME NEW p \in Procs, NotifyOne(p)
      PROVE  NoLostWakeup'
  <2>1. CASE Waiters = {}
    <3>1. ~Waiting'
      BY <1>5, <2>1 DEF NotifyOne, Sleepers, Waiters
    <3>2. QED
      BY <3>1 DEF NoLostWakeup
  <2>2. ASSUME NEW w \in Waiters,
               pc' = [pc EXCEPT ![p] = "unlock", ![w] = Woken(w)]
        PROVE  NoLostWakeup'
    <3>1. /\ queue' = queue /\ op' = op /\ w \in Procs
          /\ pc'[w] \in {"woken", "dead"}
      BY <1>5, <2>2 DEF NotifyOne, Waiters, Woken
    <3>2. /\ OnTheWay' = (OnTheWay \ {p}) \cup {w}
          /\ p \in OnTheWay /\ w \notin OnTheWay
      BY <1>5, <2>2, <3>1 DEF NotifyOne, Waiters, OnTheWay
    <3>3. Waiting' => Waiting
      BY <2>2, <3>1 DEF Sleepers
    <3>4. QED
      BY <3>1, <3>2, <3>3, OnTheWayCount DEF NoLostWakeup
  <2>3. QED
    BY <1>5, <2>1, <2>2 DEF NotifyOne
<1>6. ASSUME NEW p \in Procs, Wait(p)
      PROVE  NoLostWakeup'
  <2>1. CASE op[p] = "pop_wait"
    <3>1. queue' = <<>>
      BY <1>6, <2>1 DEF Wait, Waits
    <3>2. Cardinality(OnTheWay') \in Nat
      <4>1. OnTheWay' = OnTheWay \ {p} /\ p \in OnTheWay
        BY <1>6, <2>1 DEF Wait, OnTheWay
      <4>2. QED
        BY <4>1, OnTheWayFinite, FS_RemoveElement, FS_CardinalityType
    <3>3. QED
      BY <3>1, <3>2 DEF NoLostWakeup
  <2>2. CASE op[p] # "pop_wait"
    <3>1. OnTheWay' = OnTheWay /\ queue' = queue
      BY <1>6, <2>2 DEF Wait, OnTheWay
    <3>2. Waiting' => Waiting
      BY <1>6, <2>2 DEF Wait, Sleepers
    <3>3. QED
      BY <3>1, <3>2 DEF NoLostWakeup
  <2>3. QED
    BY <2>1, <2>2
<1>7. ASSUME NEW p \in Procs, PopFront(p)
      PROVE  NoLostWakeup'
  <2>1. queue # <<>>
    BY <1>7 DEF PopFront, FrontStable
  <2>2. Len(queue') = Len(queue) - 1
    BY <1>7, <2>1 DEF PopFront
  <2>3. OnTheWay' = OnTheWay \ {p} /\ p \in OnTheWay
    BY <1>7 DEF PopFront, OnTheWay
  <2>4. Waiting' => Waiting
    BY <1>7 DEF PopFront, Sleepers
  <2>5. /\ Cardinality(OnTheWay') = Cardinality(OnTheWay) - 1
        /\ Cardinality(OnTheWay) \in Nat
    BY <2>3, OnTheWayCount
  <2>6. Waiting => Len(queue) <= Cardinality(OnTheWay)
    BY DEF NoLostWakeup
  <2>7. Waiting' => Len(queue') <= Cardinality(OnTheWay')
    BY <1>1, <2>2, <2>4, <2>5, <2>6
  <2>8. QED
    BY <2>7 DEF NoLostWakeup
<1>8. ASSUME NEW p \in Procs, FindNothing(p) \/ Clear(p)
      PROVE  NoLostWakeup'
  <2>1. queue' = <<>>
    BY <1>8 DEF FindNothing, Clear
  <2>2. OnTheWay' \in SUBSET OnTheWay
    BY <1>8 DEF FindNothing, Clear, OnTheWay
  <2>3. Cardinality(OnTheWay') \in Nat
    BY <2>2, OnTheWayFinite, FS_Subset, FS_CardinalityType
  <2>4. QED
    BY <2>1, <2>3 DEF NoLostWakeup
<1>9. QED
  BY <1>2, <1>3, <1>4, <1>5, <1>6, <1>7, <1>8 DEF Next, Run

(* While a pop_wait() sleeps, every element in the queue has a process on  *)
(* its way to it or one that was killed on the way, for any number of      *)
(* producers, pollers and waiters, and wherever processes are killed.      *)
THEOREM QueueNoLostWakeup == Spec => []NoLostWakeup
<1>1. Init => NoLostWakeup
  BY DEF Init, NoLostWakeup, Sleepers
<1>2. QueueInv /\ NoLostWakeup /\ [Next]_vars => NoLostWakeup'
  <2>1. CASE UNCHANGED vars
    BY <2>1 DEF vars, NoLostWakeup, OnTheWay, Sleepers
  <2>2. QED
    BY <2>1, WakeupStep
<1>3. QED
  BY <1>1, <1>2, QueueInvariant, PTL DEF Spec

----------------------------------------------------------------------------
(* The queue implements the abstract one. *)

LEMMA QueueMoves ==
  ASSUME QueueInv, Next
  PROVE  Fifo!Next \/ UNCHANGED Fifo!qvars
<1> USE DEF Fifo!qvars
<1>1. ASSUME NEW p \in Procs,
             \/ \E o \in Calls[p] : Call(p, o)
             \/ Acquire(p) \/ NotifyOne(p) \/ Wait(p) \/ Wake(p) \/ Kill(p) \/ Front(p)
             \/ FindNothing(p) \/ IsEmpty(p) \/ Unlock(p)
      PROVE  UNCHANGED Fifo!qvars
  BY <1>1 DEF Call, Acquire, NotifyOne, Wait, Wake, Kill, Front, FindNothing, IsEmpty,
              Unlock
<1>2. ASSUME NEW p \in Procs, PushBack(p)
      PROVE  Fifo!Next
  <2>1. <<p, calls[p]>> \in Elements
    BY <1>2 DEF QueueInv, TypeOK, Begun, PushBack, Goto, Elements
  <2>2. Fifo!Enqueue(<<p, calls[p]>>)
    BY <1>2 DEF PushBack, Fifo!Enqueue
  <2>3. QED
    BY <2>1, <2>2 DEF Fifo!Next
<1>3. ASSUME NEW p \in Procs, PopFront(p)
      PROVE  Fifo!Next
  <2>1. queue # <<>> /\ item[p] = Head(queue)
    BY <1>3 DEF QueueInv, FrontStable, PopFront, Goto
  <2>2. Fifo!Dequeue
    BY <1>3, <2>1 DEF PopFront, Fifo!Dequeue
  <2>3. QED
    BY <2>2 DEF Fifo!Next
<1>4. ASSUME NEW p \in Procs, Clear(p)
      PROVE  Fifo!Next
  BY <1>4 DEF Clear, Fifo!Clear, Fifo!Next
<1>5. QED
  BY <1>1, <1>2, <1>3, <1>4 DEF Next, Run

(* Elements leave in the order they entered, each once, whatever the       *)
(* interleaving of producers and consumers.                                *)
THEOREM QueueImplementsFifo == Spec => ImplementsFifo
<1>1. Init => Fifo!Init
  BY DEF Init, Fifo!Init
<1>2. QueueInv /\ [Next]_vars => [Fifo!Next]_Fifo!qvars
  <2>1. CASE UNCHANGED vars
    BY <2>1 DEF vars, Fifo!qvars
  <2>2. QED
    BY <2>1, QueueMoves
<1>3. QED
  BY <1>1, <1>2, QueueInvariant, PTL DEF Spec, ImplementsFifo, Fifo!Spec
=============================================================================

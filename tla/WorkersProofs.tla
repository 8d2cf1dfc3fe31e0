--------------------------- MODULE WorkersProofs ---------------------------
(***************************************************************************)
(* Theorems about Workers for any number of starts, any arguments, and     *)
(* starts that fail before or after the worker exists.                     *)
(***************************************************************************)
EXTENDS Workers, TLAPS

(* Workers are numbered in the order they were started. *)
Numbered ==
  /\ handle <= started
  /\ \A i \in Ids : i <= started <=> worker[i].pc # "none"
  /\ \A i \in failed : i <= started

(* Where the owner is in start(), and what it has to wait for. *)
OwnerInv ==
  /\ pc = "create" => (joined \/ handle \in failed) /\ started < MaxStarts /\ asked = arg
  /\ pc = "bind" => ~joined
  /\ ~joined => handle \in Ids

(* Until a thread has read its argument nobody replaces it. *)
ArgWaits ==
  \A i \in Ids \ failed : worker[i].pc = "new" => worker[i].given = arg

(* A child is given no argument; only a child goes astray. *)
ChildInv ==
  /\ kind # "thread" =>
       arg = NoArg /\ \A i \in Ids : worker[i].given = NoArg /\ worker[i].got = NoArg
  /\ \A i \in Ids : worker[i].pc = "astray" => kind # "thread"

WInv == /\ TypeOK /\ Numbered /\ OwnerInv /\ ArgWaits /\ ChildInv
        /\ LiveAccounted /\ ArgDelivered

(* The owner's steps: what was live is accounted for by its failed start() *)
(* before the handle moves on to the next worker.                          *)
LEMMA OwnerStep ==
  ASSUME WInv,
         \/ \E a \in IF kind = "thread" THEN Args ELSE {NoArg} : Prepare(a)
         \/ Create \/ CreateFails \/ Bind \/ Term \/ Join
  PROVE  WInv'
<1> USE WorkersAssumption DEF WInv, TypeOK, Numbered, OwnerInv, ArgWaits, ChildInv,
                              LiveAccounted, ArgDelivered, Live, Ids
<1>1. ASSUME NEW a \in IF kind = "thread" THEN Args ELSE {NoArg}, Prepare(a)
      PROVE  WInv'
  BY <1>1 DEF Prepare
<1>2. CASE Create
  <2>1. started + 1 \in Ids
    BY <1>2 DEF Create
  <2> DEFINE w == [NoWorker EXCEPT !.pc = "new", !.given = asked, !.flag = flag]
  <2>a. worker' = [worker EXCEPT ![started + 1] = w] /\ asked = arg
    BY <1>2 DEF Create
  <2>b. w \in Worker /\ w.pc = "new" /\ w.given = asked /\ w.got = NoArg
    BY DEF NoWorker, Worker
  <2> HIDE DEF w
  <2>2. worker' \in [Ids -> Worker]
    BY <2>1, <2>a, <2>b
  <2>3. /\ worker'[started + 1].pc = "new" /\ worker'[started + 1].given = arg
        /\ worker'[started + 1].got = NoArg
        /\ \A i \in Ids : i # started + 1 => worker'[i] = worker[i]
    BY <2>1, <2>a, <2>b
  <2>4. Numbered' /\ OwnerInv'
    BY <1>2, <2>1, <2>3 DEF Create
  <2>5. TypeOK' /\ ArgWaits'
    <3>1. started' \in 0 .. MaxStarts /\ handle' \in 0 .. MaxStarts
      BY <1>2, <2>1 DEF Create
    <3>2. TypeOK'
      BY <1>2, <2>2, <3>1 DEF Create
    <3>3. ArgWaits'
      BY <1>2, <2>3 DEF Create
    <3>4. QED
      BY <3>2, <3>3
  <2>6. ArgDelivered' /\ ChildInv'
    BY <1>2, <2>1, <2>3 DEF Create
  <2>7. LiveAccounted'
    <3>1. \A i \in Ids : i # started + 1 /\ Live(i) => i \in failed
      BY <1>2 DEF Create
    <3>2. handle' = started + 1 /\ ~joined' /\ failed' = failed
      BY <1>2 DEF Create
    <3>3. QED
      BY <2>3, <3>1, <3>2
  <2>8. QED
    BY <2>4, <2>5, <2>6, <2>7
<1>3. CASE CreateFails
  BY <1>3 DEF CreateFails
<1>4. CASE Bind
  BY <1>4 DEF Bind
<1>5. CASE Term
  BY <1>5 DEF Term
<1>6. CASE Join
  BY <1>6 DEF Join
<1>7. QED
  BY <1>1, <1>2, <1>3, <1>4, <1>5, <1>6

(* A worker's step moves that worker only, and never back to life. *)
LEMMA WorkerStep ==
  ASSUME WInv, NEW i \in Ids,
         Enter(i) \/ ChdirFails(i) \/ Leave(i) \/ Exit(i) \/ StrayEnds(i)
  PROVE  WInv'
<1> USE WorkersAssumption DEF WInv, TypeOK, Numbered, OwnerInv, ArgWaits, ChildInv,
                              LiveAccounted, ArgDelivered, Live, Ids
<1>1. CASE Enter(i)
  <2> DEFINE w == [worker[i] EXCEPT !.pc = "main", !.got = arg]
  <2>a. worker[i] \in Worker /\ worker' = [worker EXCEPT ![i] = w]
    BY <1>1 DEF Enter
  <2>b. w \in Worker /\ w.pc = "main" /\ w.got = arg /\ w.given = worker[i].given
    BY <2>a DEF Worker
  <2> HIDE DEF w
  <2>1. worker' \in [Ids -> Worker]
    BY <2>a, <2>b
  <2>2. /\ worker[i].pc = "new" /\ worker'[i].pc = "main"
        /\ worker'[i].got = arg /\ worker'[i].given = worker[i].given
        /\ \A j \in Ids : j # i => worker'[j] = worker[j]
    BY <1>1, <2>a, <2>b DEF Enter
  <2>3. /\ UNCHANGED <<kind, flag, arg, pc, asked, started, handle>>
        /\ UNCHANGED <<joined, failed, told>>
    BY <1>1 DEF Enter
  <2>4. TypeOK' /\ Numbered' /\ OwnerInv' /\ ChildInv'
    BY <2>1, <2>2, <2>3, SMTT(30)
  <2>5. ArgWaits' /\ LiveAccounted'
    BY <2>2, <2>3
  <2>6. ArgDelivered'
    BY <2>2, <2>3
  <2>7. QED
    BY <2>4, <2>5, <2>6
<1>2. CASE ChdirFails(i) \/ Leave(i) \/ Exit(i) \/ StrayEnds(i)
  <2>1. PICK from \in {"new", "main", "astray"}, to \in {"astray", "done"} :
          /\ Move(i, from, to) /\ (from = "new" => to = "astray")
          /\ to = "astray" => kind # "thread"
    BY <1>2 DEF ChdirFails, Leave, Exit, StrayEnds
  <2>2. worker' \in [Ids -> Worker]
    BY <2>1 DEF Move, Worker
  <2>3. /\ worker[i].pc = from /\ worker'[i].pc = to
        /\ worker'[i].given = worker[i].given /\ worker'[i].got = worker[i].got
        /\ \A j \in Ids : j # i => worker'[j] = worker[j]
    BY <2>1 DEF Move, Worker
  <2>4. UNCHANGED <<kind, arg, pc, asked, started, handle, joined, failed, told>>
        /\ flag' \in BOOLEAN
    BY <1>2 DEF ChdirFails, Leave, Exit, StrayEnds
  <2>5. TypeOK' /\ OwnerInv'
    BY <2>2, <2>4
  <2>6. Numbered'
    BY <2>1, <2>3, <2>4
  <2>7. ChildInv'
    BY <2>1, <2>3, <2>4
  <2>8. ArgWaits'
    BY <2>1, <2>3, <2>4
  <2>9. LiveAccounted'
    BY <2>1, <2>3, <2>4
  <2>10. ArgDelivered'
    <3>1. from = "new" => ArgDelivered'
      BY <2>1, <2>3, <2>4
    <3>2. from # "new" => ArgDelivered'
      <4>1. ASSUME from # "new", NEW j \in Ids, j \notin failed, worker'[j].pc \in {"main", "done"}
            PROVE  worker'[j].got = worker'[j].given
        BY <2>1, <2>3, <4>1
      <4>2. QED
        BY <2>4, <4>1
    <3>3. QED
      BY <3>1, <3>2
  <2>11. QED
    BY <2>5, <2>6, <2>7, <2>8, <2>9, <2>10
<1>3. QED
  BY <1>1, <1>2

LEMMA WorkersInvariant == Spec => []WInv
<1>1. Init => WInv
  <2> SUFFICES ASSUME Init
               PROVE  WInv
    OBVIOUS
  <2>1. NoWorker \in Worker
    BY DEF NoWorker, Worker
  <2>2. TypeOK
    <3>1. worker \in [Ids -> Worker] /\ failed \subseteq Ids
      BY <2>1 DEF Init
    <3>2. {started, handle} \subseteq 0 .. MaxStarts
      BY WorkersAssumption DEF Init
    <3>3. QED
      BY <3>1, <3>2 DEF Init, TypeOK
  <2>3. \A i \in Ids : worker[i] = NoWorker /\ ~(i <= 0)
    BY WorkersAssumption DEF Init, Ids
  <2>4. QED
    BY <2>2, <2>3 DEF Init, WInv, Numbered, OwnerInv, ArgWaits, ChildInv,
                      LiveAccounted, ArgDelivered, Live, NoWorker
<1>2. WInv /\ [Next]_vars => WInv'
  <2>1. WInv /\ UNCHANGED vars => WInv'
    BY DEF vars, WInv, TypeOK, Numbered, OwnerInv, ArgWaits, ChildInv, LiveAccounted,
           ArgDelivered, Live
  <2>2. QED
    BY <2>1, OwnerStep, WorkerStep DEF Next
<1>3. QED
  BY <1>1, <1>2, PTL DEF Spec

(* The types of the object and its workers hold for every bound. *)
THEOREM WorkersTypeCorrect == Spec => []TypeOK
BY WorkersInvariant, PTL DEF WInv

(* However starts fail and are repeated, a running worker is the one that  *)
(* the owner waits for or one whose start() returned an error.             *)
THEOREM WorkersAccounted == Spec => []LiveAccounted
BY WorkersInvariant, PTL DEF WInv

(* A worker whose start() succeeded gets the argument of that start().     *)
THEOREM WorkersArgument == Spec => []ArgDelivered
BY WorkersInvariant, PTL DEF WInv
=============================================================================

--------------------------- MODULE ComponentProofs ---------------------------
(***************************************************************************)
(* Theorems about parts of the module Components, for any values of the    *)
(* constants.  The variables of a part have the names that they have in    *)
(* its own module.                                                         *)
(***************************************************************************)
EXTENDS Components, FiniteSetTheorems, WellFoundedInduction, TLAPS

(* A set of natural numbers that is not empty has a least element.         *)
LEMMA LessThanWellFounded ==
  IsWellFoundedOn({p \in Nat \X Nat : p[1] < p[2]}, Nat)
  BY NatLessThanWellFounded DEF OpToRel

LEMMA LeastElement ==
  ASSUME NEW S \in SUBSET Nat, S # {}
  PROVE  \E n \in S : \A m \in S : n <= m
  <1>. DEFINE R == {p \in Nat \X Nat : p[1] < p[2]}
  <1>1. \A m, n \in Nat : <<m, n>> \notin R => n <= m
    OBVIOUS
  <1>2. IsWellFoundedOn(R, Nat)
    BY LessThanWellFounded
  <1>. HIDE DEF R
  <1>3. PICK n \in S : \A m \in S : <<m, n>> \notin R
    BY <1>2, WFMin
  <1>. QED
    BY <1>1, <1>3

----------------------------------------------------------------------------
(* The mt_ types.                                                          *)
value == v1
count == v2
pending == v3
raced == v5
effective == v6
tally == v7
USE DEF value, count, pending, raced, effective, tally

LEMMA AtomicsPart ==
  /\ Init /\ part = "atomics" => Atomics!Init
  /\ [Next]_vars => /\ part' = part
                    /\ part = "atomics" => [Atomics!Next]_Atomics!vars
  BY DEF Init, Next, vars, Atomics!vars

(* A call between its load and its exchange that nobody raced has read the *)
(* present value; without its first part the second is not inductive.      *)
AtomicsInv ==
  /\ pending = [t \in Threads |-> pending[t]]
  /\ Atomics!AddsAccounted

LEMMA AtomicsInit == Atomics!Init => AtomicsInv
  BY DEF Atomics!Init, AtomicsInv, Atomics!AddsAccounted

LEMMA AtomicsStep == AtomicsInv /\ [Atomics!Next]_Atomics!vars => AtomicsInv'
<1> SUFFICES ASSUME AtomicsInv, [Atomics!Next]_Atomics!vars PROVE AtomicsInv'
  OBVIOUS
<1> USE DEF AtomicsInv, Atomics!AddsAccounted
<1>1. ASSUME NEW t \in Threads, NEW o, NEW a, Atomics!Load(t, o, a)
      PROVE AtomicsInv'
  BY <1>1 DEF Atomics!Load
<1>2. ASSUME NEW t \in Threads, NEW o, NEW a, Atomics!Count(t, o, a)
      PROVE AtomicsInv'
  BY <1>2 DEF Atomics!Count
<1>3. ASSUME NEW t \in Threads, Atomics!Exchange(t)
      PROVE AtomicsInv'
  <2>1. (value = effective)'
    BY <1>3 DEF Atomics!Exchange
  <2>2. ASSUME NEW u \in Threads, pending'[u] # Atomics!Idle, u \notin raced'
        PROVE pending'[u].tmp = value'
    <3>1. u # t /\ pending'[u] = pending[u]
      BY <1>3, <2>2 DEF Atomics!Exchange
    <3>2. CASE value' = value
      BY <1>3, <2>2, <3>1, <3>2 DEF Atomics!Exchange, Atomics!Raced
    <3>3. CASE value' # value
      BY <1>3, <2>2, <3>1, <3>3 DEF Atomics!Exchange, Atomics!Raced
    <3> QED BY <3>2, <3>3
  <2>3. (pending = [u \in Threads |-> pending[u]])' /\ (count = tally)'
    BY <1>3 DEF Atomics!Exchange
  <2> QED BY <2>1, <2>2, <2>3
<1>4. CASE UNCHANGED Atomics!vars
  BY <1>4 DEF Atomics!vars
<1> QED BY <1>1, <1>2, <1>3, <1>4 DEF Atomics!Next

(* In any number of threads the mt_ types lose a call only to a change     *)
(* between its load and its exchange, and no call with an effect.          *)
THEOREM AdditionsAccounted == Spec => []AddsAccounted
<1> DEFINE Inv == part = "atomics" => AtomicsInv
<1>1. Init => Inv
  BY AtomicsPart, AtomicsInit
<1>2. Inv /\ [Next]_vars => Inv'
  BY AtomicsPart, AtomicsStep
<1>3. Inv => AddsAccounted
  BY DEF AtomicsInv, AddsAccounted
<1>4. QED
  BY <1>1, <1>2, <1>3, PTL DEF Spec

HIDE DEF value, count, pending, raced, effective, tally

----------------------------------------------------------------------------
(* poisson_queue.                                                          *)
now == v1
op == v2
queue == v3
drawn == v4
mark == v5
idle == v6
USE DEF now, op, queue, drawn, mark, idle

LEMMA PoissonPart ==
  /\ Init /\ part = "poisson" => Poisson!Init
  /\ [Next]_vars => /\ part' = part
                    /\ part = "poisson" => [Poisson!Next]_Poisson!vars
  BY DEF Init, Next, vars, Poisson!vars

(* What is kept of a side with data o, draws d, mark m at time n; the      *)
(* history of the draws bounds what is due from below only together with   *)
(* the last operation, which is not later than the next one.               *)
Kept(o, d, m, n) ==
  /\ o.total_interval_accum = o.last_op_time
  /\ o.interval_accum = o.last_op_time - m
  /\ o.count <= o.total_count
  /\ o.last_op_time <= n
  /\ d <= (IF o.op_set THEN o.next_op_time ELSE o.last_op_time)

Balanced ==
  Len(queue) + op["dequeue"].total_count = op["enqueue"].total_count + idle

SidesKept == \A s \in Poisson!Sides : Kept(op[s], drawn[s], mark[s], now)

PoissonInv == Poisson!TypeOK /\ SidesKept /\ Balanced

LEMMA PoissonInvIs == PoissonInv <=> Poisson!TypeOK /\ Poisson!RatesAccount
  BY DEF PoissonInv, SidesKept, Balanced, Kept, Poisson!RatesAccount

LEMMA PoissonInit == Poisson!Init => PoissonInv
<1> SUFFICES ASSUME Poisson!Init PROVE PoissonInv
  OBVIOUS
<1>1. Poisson!NoOps \in Poisson!OpData
  BY DEF Poisson!NoOps, Poisson!OpData
<1>2. Poisson!TypeOK
  BY <1>1 DEF Poisson!Init, Poisson!TypeOK
<1>3. SidesKept /\ Balanced
  BY DEF Poisson!Init, SidesKept, Balanced, Kept, Poisson!NoOps, Poisson!Sides
<1>4. QED
  BY <1>2, <1>3 DEF PoissonInv

(* The data of a side after an operation, field by field.                  *)
LEMMA CountedIs ==
  ASSUME Poisson!TypeOK, NEW s \in Poisson!Sides, op[s].last_op_time <= now
  PROVE  LET c == Poisson!Counted(s) IN
         /\ c \in Poisson!OpData
         /\ c.count = op[s].count + 1
         /\ c.total_count = op[s].total_count + 1
         /\ c.interval_accum = op[s].interval_accum + (now - op[s].last_op_time)
         /\ c.total_interval_accum =
              op[s].total_interval_accum + (now - op[s].last_op_time)
         /\ c.last_op_time = now /\ c.op_set = FALSE
         /\ c.next_op_time = op[s].next_op_time
<1> DEFINE o == op[s]
           passed == now - o.last_op_time
<1>1. o \in Poisson!OpData /\ now \in Nat
  BY DEF Poisson!TypeOK
<1>2. passed \in Nat
  BY <1>1 DEF Poisson!OpData
<1>3. Poisson!Counted(s) =
        [o EXCEPT !.count = o.count + 1, !.total_count = o.total_count + 1,
                  !.interval_accum = o.interval_accum + passed,
                  !.total_interval_accum = o.total_interval_accum + passed,
                  !.last_op_time = now, !.op_set = FALSE]
  BY DEF Poisson!Counted
<1> HIDE DEF o, passed
<1>4. Poisson!Counted(s) =
        [count |-> o.count + 1, total_count |-> o.total_count + 1,
         interval_accum |-> o.interval_accum + passed,
         total_interval_accum |-> o.total_interval_accum + passed,
         op_set |-> FALSE, last_op_time |-> now,
         next_op_time |-> o.next_op_time]
  BY <1>1, <1>3 DEF Poisson!OpData
<1>5. Poisson!Counted(s) \in Poisson!OpData
  BY <1>1, <1>2, <1>4 DEF Poisson!OpData
<1>6. QED
  BY <1>4, <1>5 DEF o, passed

LEMMA PoissonOperate ==
  ASSUME PoissonInv, NEW s \in Poisson!Sides, Poisson!Operate(s)
  PROVE  /\ now' = now /\ drawn' = drawn /\ mark' = mark
         /\ op' \in [Poisson!Sides -> Poisson!OpData]
         /\ SidesKept'
         /\ op'[s].total_count = op[s].total_count + 1
         /\ \A r \in Poisson!Sides \ {s} : op'[r] = op[r]
<1>1. /\ op \in [Poisson!Sides -> Poisson!OpData]
      /\ now \in Nat /\ drawn[s] \in Nat /\ mark[s] \in Nat
  BY DEF PoissonInv, Poisson!TypeOK
<1>2. /\ op[s].last_op_time <= now
      /\ op[s].total_interval_accum = op[s].last_op_time
      /\ op[s].interval_accum = op[s].last_op_time - mark[s]
      /\ op[s].count <= op[s].total_count
  BY DEF PoissonInv, SidesKept, Kept
<1>3. drawn[s] <= op[s].next_op_time /\ op[s].next_op_time <= now
  BY <1>1 DEF PoissonInv, SidesKept, Kept, Poisson!Operate, Poisson!IsDue,
              Poisson!OpData
<1>4. /\ op' = [op EXCEPT ![s] = Poisson!Counted(s)]
      /\ now' = now /\ drawn' = drawn /\ mark' = mark
  BY DEF Poisson!Operate
<1>5. op'[s] = Poisson!Counted(s) /\ \A r \in Poisson!Sides \ {s} : op'[r] = op[r]
  BY <1>1, <1>4
<1> DEFINE c == Poisson!Counted(s)
<1>6. /\ c \in Poisson!OpData
      /\ c.count = op[s].count + 1
      /\ c.total_count = op[s].total_count + 1
      /\ c.interval_accum = op[s].interval_accum + (now - op[s].last_op_time)
      /\ c.total_interval_accum =
           op[s].total_interval_accum + (now - op[s].last_op_time)
      /\ c.last_op_time = now /\ c.op_set = FALSE
  BY <1>2, CountedIs DEF PoissonInv
<1> HIDE DEF c
<1>7. op' \in [Poisson!Sides -> Poisson!OpData]
  BY <1>1, <1>4, <1>6 DEF c
<1>8. op[s].count \in Nat /\ op[s].total_count \in Nat
      /\ op[s].last_op_time \in Nat /\ op[s].next_op_time \in Nat
  BY <1>1 DEF Poisson!OpData
<1>9. Kept(c, drawn[s], mark[s], now)
  <2>1. c.total_interval_accum = c.last_op_time
    BY <1>1, <1>2, <1>6, <1>8
  <2>2. c.interval_accum = c.last_op_time - mark[s]
    BY <1>1, <1>2, <1>6, <1>8
  <2>3. c.count <= c.total_count /\ c.last_op_time <= now
    BY <1>1, <1>2, <1>6, <1>8
  <2>4. drawn[s] <= c.last_op_time /\ ~c.op_set
    BY <1>1, <1>3, <1>6, <1>8
  <2>5. QED
    BY <2>1, <2>2, <2>3, <2>4 DEF Kept
<1>10. SidesKept'
  <2>1. ASSUME NEW r \in Poisson!Sides
        PROVE  Kept(op'[r], drawn'[r], mark'[r], now')
    BY <1>4, <1>5, <1>9 DEF c, PoissonInv, SidesKept
  <2>2. QED
    BY <2>1 DEF SidesKept
<1>11. QED
  BY <1>4, <1>5, <1>6, <1>7, <1>10 DEF c

LEMMA PoissonStep ==
  PoissonInv /\ [Poisson!Next]_Poisson!vars => PoissonInv'
<1> SUFFICES ASSUME PoissonInv, [Poisson!Next]_Poisson!vars PROVE PoissonInv'
  OBVIOUS
<1>0. /\ now \in Nat /\ queue \in Seq(Items) /\ idle \in Nat
      /\ Len(queue) \in Nat
      /\ op \in [Poisson!Sides -> Poisson!OpData]
      /\ drawn \in [Poisson!Sides -> Nat] /\ mark \in [Poisson!Sides -> Nat]
  BY DEF PoissonInv, Poisson!TypeOK
<1>9. /\ "enqueue" \in Poisson!Sides /\ "dequeue" \in Poisson!Sides
      /\ op["enqueue"].total_count \in Nat /\ op["dequeue"].total_count \in Nat
  BY <1>0 DEF Poisson!Sides, Poisson!OpData
<1>1. CASE Poisson!Tick
  <2>1. /\ now' = now + 1 /\ op' = op /\ queue' = queue /\ drawn' = drawn
        /\ mark' = mark /\ idle' = idle
    BY <1>1 DEF Poisson!Tick
  <2>2. ASSUME NEW s \in Poisson!Sides
        PROVE  Kept(op[s], drawn[s], mark[s], now + 1)
    <3>1. Kept(op[s], drawn[s], mark[s], now) /\ op[s].last_op_time \in Nat
      BY <1>0 DEF PoissonInv, SidesKept, Poisson!OpData
    <3>2. QED
      BY <1>0, <3>1 DEF Kept
  <2>3. SidesKept' /\ Balanced'
    BY <2>1, <2>2 DEF SidesKept, Balanced, PoissonInv
  <2>4. Poisson!TypeOK'
    BY <1>0, <2>1 DEF Poisson!TypeOK
  <2>5. QED
    BY <2>3, <2>4 DEF PoissonInv
<1>2. ASSUME NEW s \in Poisson!Sides, Poisson!Check(s)
      PROVE PoissonInv'
  <2>1. PICK d \in Draws :
          /\ op' = [op EXCEPT ![s].next_op_time = op[s].last_op_time + d,
                              ![s].op_set = TRUE]
          /\ drawn' = [drawn EXCEPT ![s] = drawn[s] + d]
    BY <1>2 DEF Poisson!Check
  <2>2. /\ ~op[s].op_set
        /\ now' = now /\ queue' = queue /\ mark' = mark /\ idle' = idle
    BY <1>2 DEF Poisson!Check
  <2> DEFINE o == op[s]
             c == [o EXCEPT !.next_op_time = o.last_op_time + d, !.op_set = TRUE]
  <2>3. o \in Poisson!OpData /\ d \in Nat /\ drawn[s] \in Nat
    BY <1>0, PoissonAssumption
  <2>4. op' = [op EXCEPT ![s] = c]
    BY <1>0, <2>1, <2>3
  <2>5. c = [count |-> o.count, total_count |-> o.total_count,
             interval_accum |-> o.interval_accum,
             total_interval_accum |-> o.total_interval_accum,
             op_set |-> TRUE, last_op_time |-> o.last_op_time,
             next_op_time |-> o.last_op_time + d]
    <3>1. c = [o EXCEPT !.next_op_time = o.last_op_time + d, !.op_set = TRUE]
      OBVIOUS
    <3> HIDE DEF o, c
    <3>2. QED
      BY <2>3, <3>1 DEF Poisson!OpData
  <2>6. c \in Poisson!OpData
    <3> HIDE DEF o, c
    <3>1. QED
      BY <2>3, <2>5 DEF Poisson!OpData
  <2>7. Kept(c, drawn[s] + d, mark[s], now) /\ c.total_count = o.total_count
    <3>1. Kept(o, drawn[s], mark[s], now) /\ ~o.op_set
      BY <2>2 DEF PoissonInv, SidesKept
    <3>2. o.last_op_time \in Nat
      BY <2>3 DEF Poisson!OpData
    <3>3. drawn[s] + d <= o.last_op_time + d
      BY <2>3, <3>1, <3>2 DEF Kept
    <3> HIDE DEF o, c
    <3>4. QED
      BY <2>5, <3>1, <3>3 DEF Kept
  <2> HIDE DEF c
  <2>8. /\ op'[s] = c /\ drawn'[s] = drawn[s] + d
        /\ \A r \in Poisson!Sides \ {s} : op'[r] = op[r] /\ drawn'[r] = drawn[r]
    BY <1>0, <2>1, <2>4
  <2>9. SidesKept'
    <3>1. ASSUME NEW r \in Poisson!Sides
          PROVE  Kept(op'[r], drawn'[r], mark'[r], now')
      BY <2>2, <2>7, <2>8 DEF PoissonInv, SidesKept
    <3>2. QED
      BY <3>1 DEF SidesKept
  <2>10. \A r \in Poisson!Sides : op'[r].total_count = op[r].total_count
    BY <2>7, <2>8
  <2>11. Balanced'
    BY <1>9, <2>2, <2>10 DEF PoissonInv, Balanced
  <2>12. Poisson!TypeOK'
    <3>1. op' \in [Poisson!Sides -> Poisson!OpData]
      BY <1>0, <2>4, <2>6
    <3>2. drawn[s] + d \in Nat /\ drawn' \in [Poisson!Sides -> Nat]
      BY <1>0, <2>1, <2>3
    <3>3. QED
      BY <1>0, <2>2, <3>1, <3>2 DEF Poisson!TypeOK
  <2>13. QED
    BY <2>9, <2>11, <2>12 DEF PoissonInv
<1>3. CASE Poisson!ResetMetrics
  <2>1. ASSUME NEW s \in Poisson!Sides
        PROVE  op'[s] = [count |-> 0, total_count |-> op[s].total_count,
                         interval_accum |-> 0,
                         total_interval_accum |-> op[s].total_interval_accum,
                         op_set |-> op[s].op_set,
                         last_op_time |-> op[s].last_op_time,
                         next_op_time |-> op[s].next_op_time]
    <3>1. op'[s] = [op[s] EXCEPT !.count = 0, !.interval_accum = 0]
      BY <1>3 DEF Poisson!ResetMetrics
    <3>2. QED
      BY <1>0, <3>1, ZenonT(40) DEF Poisson!OpData
  <2>2. /\ now' = now /\ queue' = queue /\ drawn' = drawn /\ idle' = idle
        /\ mark' = [s \in Poisson!Sides |-> op[s].last_op_time]
        /\ op' = [s \in Poisson!Sides |-> op'[s]]
    BY <1>3 DEF Poisson!ResetMetrics
  <2>3. ASSUME NEW s \in Poisson!Sides
        PROVE  /\ op'[s] \in Poisson!OpData
               /\ op'[s].total_count = op[s].total_count
               /\ mark'[s] \in Nat
               /\ Kept(op'[s], drawn[s], mark'[s], now)
    <3>1. /\ Kept(op[s], drawn[s], mark[s], now) /\ op[s] \in Poisson!OpData
          /\ mark'[s] = op[s].last_op_time
      BY <1>0, <2>2 DEF PoissonInv, SidesKept
    <3>2. op[s].last_op_time \in Nat /\ op[s].total_count \in Nat
      BY <3>1 DEF Poisson!OpData
    <3> DEFINE o == op[s]
               c == op'[s]
    <3>3. c = [count |-> 0, total_count |-> o.total_count,
               interval_accum |-> 0,
               total_interval_accum |-> o.total_interval_accum,
               op_set |-> o.op_set, last_op_time |-> o.last_op_time,
               next_op_time |-> o.next_op_time]
      BY <2>1
    <3>4. /\ Kept(o, drawn[s], mark[s], now) /\ o \in Poisson!OpData
          /\ mark'[s] = o.last_op_time
          /\ o.last_op_time \in Nat /\ o.total_count \in Nat
      BY <3>1, <3>2
    <3>5. /\ c \in Poisson!OpData /\ c.total_count = o.total_count
          /\ Kept(c, drawn[s], mark'[s], now)
      <4> HIDE DEF o, c
      <4>1. c \in Poisson!OpData
        BY <3>3, <3>4 DEF Poisson!OpData
      <4>2. /\ c.count = 0 /\ c.total_count = o.total_count
            /\ c.interval_accum = 0
            /\ c.total_interval_accum = o.total_interval_accum
            /\ c.op_set = o.op_set /\ c.last_op_time = o.last_op_time
            /\ c.next_op_time = o.next_op_time
        BY <3>3
      <4>3. QED
        BY <3>4, <4>1, <4>2 DEF Kept
    <3>6. QED
      BY <3>1, <3>2, <3>5
  <2>4. Poisson!TypeOK'
    BY <1>0, <2>2, <2>3 DEF Poisson!TypeOK
  <2>5. SidesKept'
    BY <2>2, <2>3 DEF SidesKept
  <2>6. Balanced'
    BY <1>9, <2>2, <2>3 DEF PoissonInv, Balanced
  <2>7. QED
    BY <2>4, <2>5, <2>6 DEF PoissonInv
<1>4. ASSUME NEW item \in Items, Poisson!Enqueue(item)
      PROVE  PoissonInv'
  <2>1. /\ now' = now /\ drawn' = drawn /\ mark' = mark
        /\ op' \in [Poisson!Sides -> Poisson!OpData]
        /\ SidesKept'
        /\ op'["enqueue"].total_count = op["enqueue"].total_count + 1
        /\ op'["dequeue"] = op["dequeue"]
    BY <1>4, <1>9, PoissonOperate DEF Poisson!Enqueue
  <2>2. queue' \in Seq(Items) /\ Len(queue') = Len(queue) + 1 /\ idle' = idle
    BY <1>0, <1>4 DEF Poisson!Enqueue
  <2>3. Balanced'
    <3>1. Len(queue) + op["dequeue"].total_count
            = op["enqueue"].total_count + idle
      BY DEF PoissonInv, Balanced
    <3> DEFINE e == op["enqueue"].total_count
               f == op["dequeue"].total_count
    <3>2. op'["enqueue"].total_count = e + 1 /\ op'["dequeue"].total_count = f
      BY <2>1
    <3>3. /\ e \in Nat /\ f \in Nat /\ Len(queue) \in Nat /\ idle \in Nat
          /\ Len(queue) + f = e + idle
      BY <1>0, <1>9, <3>1
    <3> HIDE DEF e, f
    <3>4. Len(queue') + op'["dequeue"].total_count
            = op'["enqueue"].total_count + idle'
      BY <2>2, <3>2, <3>3
    <3>5. QED
      BY <3>4 DEF Balanced
  <2>4. Poisson!TypeOK'
    BY <1>0, <2>1, <2>2 DEF Poisson!TypeOK
  <2>5. QED
    BY <2>1, <2>3, <2>4 DEF PoissonInv
<1>5. ASSUME NEW fake \in BOOLEAN, Poisson!Dequeue(fake)
      PROVE  PoissonInv'
  <2>1. /\ now' = now /\ drawn' = drawn /\ mark' = mark
        /\ op' \in [Poisson!Sides -> Poisson!OpData]
        /\ SidesKept'
        /\ op'["dequeue"].total_count = op["dequeue"].total_count + 1
        /\ op'["enqueue"] = op["enqueue"]
    BY <1>5, <1>9, PoissonOperate DEF Poisson!Dequeue
  <2>2. \/ queue' = queue /\ idle' = idle + 1
        \/ queue # <<>> /\ queue' = Tail(queue) /\ idle' = idle
    BY <1>5 DEF Poisson!Dequeue
  <2>3. /\ queue' \in Seq(Items) /\ idle' \in Nat /\ Len(queue') \in Nat
        /\ Len(queue') + idle + 1 = Len(queue) + idle'
    <3>1. CASE queue' = queue /\ idle' = idle + 1
      BY <1>0, <3>1
    <3>2. CASE queue # <<>> /\ queue' = Tail(queue) /\ idle' = idle
      <4>1. Tail(queue) \in Seq(Items) /\ Len(Tail(queue)) = Len(queue) - 1
            /\ Len(queue) # 0
        BY <1>0, <3>2
      <4>2. QED
        BY <1>0, <3>2, <4>1
    <3>3. QED
      BY <2>2, <3>1, <3>2
  <2>4. Balanced'
    <3>1. Len(queue) + op["dequeue"].total_count
            = op["enqueue"].total_count + idle
      BY DEF PoissonInv, Balanced
    <3> DEFINE e == op["enqueue"].total_count
               f == op["dequeue"].total_count
    <3>2. op'["enqueue"].total_count = e /\ op'["dequeue"].total_count = f + 1
      BY <2>1
    <3>3. /\ e \in Nat /\ f \in Nat /\ Len(queue) \in Nat /\ idle \in Nat
          /\ Len(queue) + f = e + idle
      BY <1>0, <1>9, <3>1
    <3> HIDE DEF e, f
    <3>4. Len(queue') + op'["dequeue"].total_count
            = op'["enqueue"].total_count + idle'
      BY <2>3, <3>2, <3>3
    <3>5. QED
      BY <3>4 DEF Balanced
  <2>5. Poisson!TypeOK'
    BY <1>0, <2>1, <2>3 DEF Poisson!TypeOK
  <2>6. QED
    BY <2>1, <2>4, <2>5 DEF PoissonInv
<1>6. CASE UNCHANGED Poisson!vars
  BY <1>6 DEF Poisson!vars, PoissonInv, SidesKept, Balanced, Poisson!TypeOK
<1>7. QED
  BY <1>1, <1>2, <1>3, <1>4, <1>5, <1>6 DEF Poisson!Next

(* The counts and interval sums of a poisson_queue agree with its          *)
(* operations for any rates, draws, times and resets.                      *)
THEOREM RatesAreAccounted == Spec => []RatesAccount
<1> DEFINE Inv == part = "poisson" => PoissonInv
<1>1. Init => Inv
  BY PoissonPart, PoissonInit
<1>2. Inv /\ [Next]_vars => Inv'
  BY PoissonPart, PoissonStep
<1>3. Inv => RatesAccount
  BY PoissonInvIs DEF RatesAccount
<1>4. QED
  BY <1>1, <1>2, <1>3, PTL DEF Spec

HIDE DEF now, op, queue, drawn, mark, idle

----------------------------------------------------------------------------
(* lockable.                                                               *)
flag == v1
owner == v2
sharers == v3
at == v4
status == v5
kind == v6
locked == v7
crossed == v8
USE DEF flag, owner, sharers, at, kind, locked, crossed, status

LEMMA LocksPart ==
  /\ Init /\ part = "lockable" => Locks!Init
  /\ [Next]_vars => /\ part' = part
                    /\ part = "lockable" => [Locks!Next]_Locks!vars
  BY DEF Init, Next, vars, Locks!vars

LocksType ==
  /\ flag \in BOOLEAN
  /\ owner \in Threads \cup {NoThread}
  /\ sharers \subseteq Threads
  /\ at \in [Threads -> {"out", "wait", "in"}]
  /\ kind \in [Threads -> {"wr", "rd"}]
  /\ locked \subseteq Threads

(* A thread's hold on the mutex is of the kind of its section.             *)
Fits(t) == IF kind[t] = "wr" THEN owner = t /\ t \notin sharers
           ELSE t \in sharers /\ owner # t

(* The sections that locked hold the mutex until their end; as long as the *)
(* condition was the same at both ends of all sections they are all of     *)
(* those under way, and only the condition decides whether they lock.      *)
LocksInv ==
  /\ LocksType
  /\ status = "running" =>
       /\ owner # NoThread => sharers = {}
       /\ \A t \in locked : at[t] = "in" /\ Fits(t)
  /\ ~crossed =>
       /\ status = "running"
       /\ \A t \in Threads : at[t] = "wait" => flag
       /\ \A t \in Threads :
            IF at[t] = "in" /\ flag THEN Fits(t)
            ELSE owner # t /\ t \notin sharers

LEMMA LocksInit ==
  ASSUME Locks!Init
  PROVE  LocksInv
  BY ThreadsAssumption DEF Locks!Init, LocksInv, LocksType

LEMMA LocksStep ==
  ASSUME LocksInv, [Locks!Next]_Locks!vars
  PROVE  LocksInv'
<1> USE ThreadsAssumption DEF LocksInv, LocksType, Fits
<1>1. ASSUME NEW t \in Threads, NEW k \in {"wr", "rd"}, Locks!MaybeLock(t, k)
      PROVE  LocksInv'
  BY <1>1 DEF Locks!MaybeLock, Locks!Holds
<1>2. ASSUME NEW t \in Threads, Locks!Acquire(t)
      PROVE  LocksInv'
  BY <1>2 DEF Locks!Acquire
<1>3. ASSUME NEW t \in Threads, Locks!MaybeUnlock(t)
      PROVE  LocksInv'
  BY <1>3 DEF Locks!MaybeUnlock, Locks!Release
<1>4. CASE Locks!Change
  BY <1>4 DEF Locks!Change
<1>5. CASE UNCHANGED Locks!vars
  BY <1>5 DEF Locks!vars
<1>6. QED
  BY <1>1, <1>2, <1>3, <1>4, <1>5 DEF Locks!Next

(* For any number of threads and whatever happens to the condition, a      *)
(* writer that locked is alone among the sections that locked; and if the  *)
(* condition does not change while a section is under way, the mutex is    *)
(* held by exactly the sections under way and never misused.               *)
THEOREM LockedSectionsExclude == Spec => []SectionsExclude
<1>1. LocksInv => Locks!SectionsExclude
  <2> SUFFICES ASSUME LocksInv PROVE Locks!SectionsExclude
    OBVIOUS
  <2>1. ASSUME status = "running",
               NEW t \in Locks!Inside \cap locked,
               NEW u \in Locks!Inside \cap locked, kind[t] = "wr"
        PROVE  t = u
    BY <2>1, ThreadsAssumption DEF LocksInv, LocksType, Fits, Locks!Inside
  <2>2. ASSUME ~crossed, NEW t \in Threads
        PROVE  status = "running"
                 /\ (Locks!Holds(t) <=> (t \in Locks!Inside /\ flag))
    BY <2>2 DEF LocksInv, LocksType, Fits, Locks!Inside, Locks!Holds
  <2>3. ~crossed => status = "running"
    BY DEF LocksInv
  <2>4. QED
    BY <2>1, <2>2, <2>3 DEF Locks!SectionsExclude
<1> DEFINE Inv == part = "lockable" => LocksInv
<1>2. Init => Inv
  BY LocksPart, LocksInit
<1>3. Inv /\ [Next]_vars => Inv'
  BY LocksPart, LocksStep
<1>4. Inv => SectionsExclude
  BY <1>1 DEF SectionsExclude
<1>5. QED
  BY <1>2, <1>3, <1>4, PTL DEF Spec

HIDE DEF flag, owner, sharers, at, kind, locked, crossed, status

----------------------------------------------------------------------------
(* degrees and radians.                                                    *)
angle == v1
exact == v2
form == v3
USE DEF angle, exact, form

LEMMA AnglePart ==
  /\ Init /\ part = "angle" => Angle!Init
  /\ [Next]_vars => /\ part' = part
                    /\ part = "angle" => [Angle!Next]_Angle!vars
  BY DEF Init, Next, vars, Angle!vars

LEMMA WholeTurns ==
  ASSUME NEW a \in Int, NEW b \in Int
  PROVE  Angle!Congruent(a, b) <=> \E k \in Int : a = b + 360 * k
<1>1. ASSUME Angle!Congruent(a, b) PROVE a = b + 360 * ((a - b) \div 360)
  BY <1>1 DEF Angle!Congruent
<1>2. (a - b) \div 360 \in Int
  OBVIOUS
<1>3. ASSUME NEW k \in Int, a = b + 360 * k PROVE Angle!Congruent(a, b)
  BY <1>3 DEF Angle!Congruent
<1>4. QED
  BY <1>1, <1>2, <1>3

LEMMA CongruentTransitive ==
  ASSUME NEW a \in Int, NEW b \in Int, NEW c \in Int,
         Angle!Congruent(a, b), Angle!Congruent(b, c)
  PROVE  Angle!Congruent(a, c)
  BY DEF Angle!Congruent

LEMMA SignedWraps ==
  ASSUME NEW a \in Int
  PROVE  /\ Angle!Signed!WrapValue(a) \in -180 .. 180
         /\ Angle!Congruent(Angle!Signed!WrapValue(a), a)
<1>1. Angle!Signed!WrapValue(a) \in -180 .. 180
  BY SMTT(30) DEF Angle!Signed!WrapValue, Angle!Signed!Down
<1>2. Angle!Congruent(Angle!Signed!WrapValue(a), a)
  BY SMTT(30) DEF Angle!Signed!WrapValue, Angle!Signed!Down, Angle!Congruent
<1>3. QED
  BY <1>1, <1>2

LEMMA UnsignedWraps ==
  ASSUME NEW a \in Int
  PROVE  /\ Angle!Unsigned!WrapValue(a) \in 0 .. 360
         /\ Angle!Congruent(Angle!Unsigned!WrapValue(a), a)
<1>1. Angle!Unsigned!WrapValue(a) \in 0 .. 360
  BY SMTT(30) DEF Angle!Unsigned!WrapValue, Angle!Unsigned!Down
<1>2. Angle!Congruent(Angle!Unsigned!WrapValue(a), a)
  BY SMTT(30) DEF Angle!Unsigned!WrapValue, Angle!Unsigned!Down, Angle!Congruent
<1>3. QED
  BY <1>1, <1>2

LEMMA Differences ==
  ASSUME NEW a \in Int, NEW b \in Int, NEW v \in Int, Angle!Congruent(a, b)
  PROVE  /\ Angle!NormalizedDiff(a, v) = Angle!NormalizedDiff(b, v)
         /\ Angle!NormalizedDiff(a, v) \in -180 .. 179
         /\ Angle!Congruent(Angle!NormalizedDiff(a, v), a - v)
         /\ Angle!NormalizedDiff(a, v) # -180 =>
              Angle!NormalizedDiff(v, a) = -Angle!NormalizedDiff(a, v)
<1>1. /\ Angle!NormalizedDiff(a, v) = ((a - v + 180) % 360) - 180
      /\ Angle!NormalizedDiff(b, v) = ((b - v + 180) % 360) - 180
      /\ Angle!NormalizedDiff(v, a) = ((v - a + 180) % 360) - 180
  BY DEF Angle!NormalizedDiff, Angle!Fmod
<1>2. (a - v + 180) % 360 = (b - v + 180) % 360
  BY DEF Angle!Congruent
<1>3. ((a - v + 180) % 360) - 180 \in -180 .. 179
  OBVIOUS
<1>4. Angle!Congruent(((a - v + 180) % 360) - 180, a - v)
  BY DEF Angle!Congruent
<1>5. ((a - v + 180) % 360) - 180 # -180 =>
        ((v - a + 180) % 360) - 180 = -(((a - v + 180) % 360) - 180)
  OBVIOUS
<1>6. QED
  <2> DEFINE forth == ((a - v + 180) % 360) - 180
             back == ((v - a + 180) % 360) - 180
  <2>1. /\ Angle!NormalizedDiff(a, v) = forth
        /\ Angle!NormalizedDiff(b, v) = forth
        /\ Angle!NormalizedDiff(v, a) = back
    BY <1>1, <1>2
  <2>2. /\ forth \in -180 .. 179
        /\ Angle!Congruent(forth, a - v)
        /\ forth # -180 => back = -forth
    BY <1>3, <1>4, <1>5
  <2> HIDE DEF forth, back
  <2>3. QED
    BY <2>1, <2>2

AngleInv ==
  /\ angle \in Int /\ exact \in Int
  /\ Angle!Congruent(angle, exact)
  /\ form \in {"raw", "signed", "unsigned"}
  /\ form = "signed" => angle \in -180 .. 180
  /\ form = "unsigned" => angle \in 0 .. 360

LEMMA AngleStep ==
  ASSUME AngleInv, [Angle!Next]_Angle!vars
  PROVE  AngleInv'
<1> USE AngleAssumption DEF AngleInv
<1>1. ASSUME NEW v \in AngleValues, Angle!SetTo(v) \/ Angle!Add(v) \/ Angle!Subtract(v)
      PROVE  AngleInv'
  BY <1>1 DEF Angle!SetTo, Angle!Add, Angle!Subtract, Angle!Becomes, Angle!Congruent
<1>2. ASSUME NEW f \in Factors, Angle!Scale(f)
      PROVE  AngleInv'
  <2>1. PICK k \in Int : angle = exact + 360 * k
    BY WholeTurns
  <2>2. /\ angle * f = exact * f + 360 * (k * f)
        /\ angle * f \in Int /\ exact * f \in Int /\ k * f \in Int
    BY <2>1
  <2>4. Angle!Congruent(angle * f, exact * f)
    <3> DEFINE m == angle * f
               n == exact * f
               q == k * f
    <3>1. m = n + 360 * q /\ m \in Int /\ n \in Int /\ q \in Int
      BY <2>2
    <3> HIDE DEF m, n, q
    <3>2. m - n = 360 * q
      BY <3>1
    <3>3. Angle!Congruent(m, n)
      BY <3>1, <3>2 DEF Angle!Congruent
    <3>4. QED
      BY <3>3 DEF m, n
  <2>5. angle' = angle * f /\ exact' = exact * f /\ form' = "raw"
    BY <1>2 DEF Angle!Scale, Angle!Becomes
  <2>6. Angle!Congruent(angle, exact)'
    BY <2>4, <2>5 DEF Angle!Congruent
  <2>7. QED
    BY <2>2, <2>5, <2>6
<1>3. CASE Angle!Negate
  BY <1>3 DEF Angle!Negate, Angle!Becomes, Angle!Congruent
<1>4. CASE Angle!SignedNormalize
  <2>1. angle' \in -180 .. 180 /\ Angle!Congruent(angle', angle)
          /\ exact' = exact /\ form' = "signed"
    BY <1>4, SignedWraps DEF Angle!SignedNormalize
  <2>2. angle' \in Int
    BY <2>1
  <2>3. Angle!Congruent(angle', exact)
    BY <2>1, <2>2, CongruentTransitive
  <2>4. Angle!Congruent(angle, exact)'
    BY <2>1, <2>3 DEF Angle!Congruent
  <2>5. QED
    BY <2>1, <2>2, <2>4
<1>5. CASE Angle!UnsignedNormalize
  <2>1. angle' \in 0 .. 360 /\ Angle!Congruent(angle', angle)
          /\ exact' = exact /\ form' = "unsigned"
    BY <1>5, UnsignedWraps DEF Angle!UnsignedNormalize
  <2>2. angle' \in Int
    BY <2>1
  <2>3. Angle!Congruent(angle', exact)
    BY <2>1, <2>2, CongruentTransitive
  <2>4. Angle!Congruent(angle, exact)'
    BY <2>1, <2>3 DEF Angle!Congruent
  <2>5. QED
    BY <2>1, <2>2, <2>4
<1>6. CASE UNCHANGED Angle!vars
  BY <1>6 DEF Angle!vars, Angle!Congruent
<1>7. QED
  BY <1>1, <1>2, <1>3, <1>4, <1>5, <1>6 DEF Angle!Next

(* For all whole angles and factors, and any sequence of operations: an    *)
(* angle differs from the one computed without normalization by whole      *)
(* turns, normalized angles are in their range, and the difference to any  *)
(* other angle does not depend on normalization.                           *)
THEOREM AnglesTrack == Spec => []AngleTracks
<1>1. AngleInv => Angle!AngleTracks
  <2> SUFFICES ASSUME AngleInv PROVE Angle!AngleTracks
    OBVIOUS
  <2>1. (form = "signed" => Angle!Signed!Contains(angle))
          /\ (form = "unsigned" => Angle!Unsigned!Contains(angle))
    BY DEF AngleInv, Angle!Signed!Contains, Angle!Unsigned!Contains
  <2>2. QED
    BY <2>1, Differences, AngleAssumption DEF AngleInv, Angle!AngleTracks
<1> DEFINE Inv == part = "angle" => AngleInv
<1>2. Init => Inv
  BY AnglePart DEF Angle!Init, AngleInv, Angle!Congruent
<1>3. Inv /\ [Next]_vars => Inv'
  BY AnglePart, AngleStep
<1>4. Inv => AngleTracks
  BY <1>1 DEF AngleTracks
<1>5. QED
  BY <1>2, <1>3, <1>4, PTL DEF Spec

HIDE DEF angle, exact, form

----------------------------------------------------------------------------
(* range.                                                                  *)
initialized == v1
lb == v2
ub == v3
span == v4
USE DEF initialized, lb, ub, span

LEMMA RangePart ==
  /\ Init /\ part = "range" => Interval!Init
  /\ [Next]_vars => /\ part' = part
                    /\ part = "range" => [Interval!Next]_Interval!vars
  BY DEF Init, Next, vars, Interval!vars

RangeInv ==
  /\ lb \in Int /\ ub \in Int /\ span \in Int
  /\ initialized => span = ub - lb

LEMMA HalfIsInt == ASSUME NEW a \in Int PROVE Interval!HalfOf(a) \in Int
  BY DEF Interval!HalfOf

LEMMA MakeKeepsSpan ==
  ASSUME NEW low \in Int, NEW high \in Int, Interval!Make(low, high)
  PROVE  RangeInv'
  BY DEF Interval!Make, RangeInv

LEMMA RangeStep ==
  ASSUME RangeInv, [Interval!Next]_Interval!vars
  PROVE  RangeInv'
<1>1. CASE UNCHANGED <<initialized, lb, ub, span>>
  BY <1>1 DEF RangeInv
<1>2. ASSUME NEW v \in RangeValues, NEW w \in RangeValues,
             Interval!Construct(v, w) \/ Interval!Set(v, w)
      PROVE  RangeInv'
  BY <1>1, <1>2, RangeAssumption, MakeKeepsSpan
  DEF Interval!Construct, Interval!Set, Interval!Halt
<1>3. ASSUME NEW v \in RangeValues, Interval!SetLb(v) \/ Interval!SetUb(v)
      PROVE  RangeInv'
  BY <1>1, <1>3, RangeAssumption, MakeKeepsSpan
  DEF Interval!SetLb, Interval!SetUb, Interval!Halt, RangeInv
<1>4. ASSUME NEW v \in RangeValues,
             Interval!Translate(v) \/ Interval!Shrink(v) \/ Interval!Recenter(v)
      PROVE  RangeInv'
  <2>1. /\ lb + v \in Int /\ ub + v \in Int /\ ub - v \in Int
        /\ Interval!HalfOf(2 * v - span) \in Int
        /\ Interval!HalfOf(2 * v + span) \in Int
    BY RangeAssumption, HalfIsInt DEF RangeInv
  <2>2. QED
    BY <1>4, <2>1, MakeKeepsSpan
    DEF Interval!Translate, Interval!Shrink, Interval!Recenter
<1>5. ASSUME NEW v \in RangeValues, Interval!CallWrap(v)
      PROVE  RangeInv'
  BY <1>1, <1>5 DEF Interval!CallWrap, Interval!Halt
<1>6. QED
  BY <1>1, <1>2, <1>3, <1>4, <1>5 DEF Interval!Next, Interval!vars

(* The least multiple of s that is at least d, for the two loops of        *)
(* wrap_value().                                                           *)
LEMMA RoundedUp ==
  ASSUME NEW s \in Int, s > 0, NEW d \in Int
  PROVE  /\ (d + s - 1) \div s \in Int
         /\ s * ((d + s - 1) \div s) \in d .. d + s - 1
<1> DEFINE q == (d + s - 1) \div s
           r == (d + s - 1) % s
<1>1. /\ q \in Int /\ r \in 0 .. s - 1
      /\ d + s - 1 = s * q + r
  OBVIOUS
<1> HIDE DEF q, r
<1>2. s * q = d + s - 1 - r
  BY <1>1
<1>3. s * q \in d .. d + s - 1
  BY <1>1, <1>2
<1>4. QED
  BY <1>1, <1>3 DEF q

LEMMA MultipleOf ==
  ASSUME NEW s \in Int, s > 0, NEW k \in Int
  PROVE  (s * k) % s = 0 /\ (-(s * k)) % s = 0
  OBVIOUS

LEMMA WrapsIntoRange ==
  ASSUME NEW v \in Int, RangeInv, initialized, lb < ub
  PROVE  /\ Interval!Contains(Interval!WrapValue(v))
         /\ (Interval!WrapValue(v) - v) % (ub - lb) = 0
         /\ Interval!Contains(v) => Interval!WrapValue(v) = v
<1> DEFINE down == (v - ub + span - 1) \div span
           up == (lb - v + span - 1) \div span
<1>1. span = ub - lb /\ span \in Int /\ span > 0 /\ lb \in Int /\ ub \in Int
  BY DEF RangeInv
<1>2. /\ down \in Int /\ up \in Int
      /\ span * down \in v - ub .. v - ub + span - 1
      /\ span * up \in lb - v .. lb - v + span - 1
  BY <1>1, RoundedUp
<1>3. /\ (span * up) % span = 0 /\ (-(span * down)) % span = 0
  BY <1>1, <1>2, MultipleOf
<1>4. Interval!WrapValue(v) = IF v > ub THEN v - span * down
                              ELSE IF v >= lb THEN v ELSE v + span * up
  BY <1>1, <1>2 DEF Interval!WrapValue, Interval!Down
<1> HIDE DEF down, up
<1>5. PICK m \in Int, n \in Int : m = span * down /\ n = span * up
  BY <1>2
<1>6. CASE v > ub
  BY <1>1, <1>2, <1>3, <1>4, <1>5, <1>6 DEF Interval!Contains
<1>7. CASE v < lb
  BY <1>1, <1>2, <1>3, <1>4, <1>5, <1>7 DEF Interval!Contains
<1>8. CASE lb <= v /\ v <= ub
  BY <1>1, <1>4, <1>8 DEF Interval!Contains
<1>9. QED
  BY <1>1, <1>6, <1>7, <1>8

(* For any bounds and arguments, and after any operations: the span that   *)
(* is kept is that of the bounds, so that wrap_value() ends in the range,  *)
(* whole spans away, and overlaps_with() is right.                         *)
THEOREM RangesWrapValues == Spec => []RangesWrap
<1> DEFINE Inv == part = "range" => RangeInv
<1>1. Init => Inv
  BY RangePart DEF Interval!Init, RangeInv
<1>2. Inv /\ [Next]_vars => Inv'
  BY RangePart, RangeStep
<1>3. RangeInv => Interval!RangesWrap
  <2> SUFFICES ASSUME RangeInv, initialized, lb < ub
               PROVE  Interval!RangesWrap
    BY DEF Interval!RangesWrap
  <2>1. span > 0 /\ lb \in Int /\ ub \in Int
    BY DEF RangeInv
  <2>2. ASSUME NEW v \in RangeValues
        PROVE  /\ Interval!Contains(Interval!WrapValue(v))
               /\ (Interval!WrapValue(v) - v) % (ub - lb) = 0
               /\ Interval!Contains(v) => Interval!WrapValue(v) = v
    BY <2>2, WrapsIntoRange, RangeAssumption
  <2>3. ASSUME NEW v \in Int, NEW w \in Int, v <= w
        PROVE  Interval!OverlapsWith(v, w)
                 <=> \E x \in v .. w : Interval!Contains(x)
    BY <2>1, <2>3 DEF Interval!OverlapsWith, Interval!Contains
  <2>4. \A v \in RangeValues : v \in Int
    BY RangeAssumption
  <2>5. QED
    BY <2>1, <2>2, <2>3, <2>4, Zenon DEF Interval!RangesWrap
<1>4. Inv => RangesWrap
  BY <1>3 DEF RangesWrap
<1>5. QED
  BY <1>1, <1>2, <1>4, PTL DEF Spec

HIDE DEF initialized, lb, ub, span

----------------------------------------------------------------------------
(* Grids.                                                                  *)
size == v1
dims == v2
res == v3
view == v4
asked == v5
USE DEF size, dims, res, view, asked

LEMMA GridPart ==
  /\ Init /\ part = "grid" => Grid!Init
  /\ [Next]_vars => /\ part' = part
                    /\ part = "grid" => [Grid!Next]_Grid!vars
  BY DEF Init, Next, vars, Grid!vars

Triples == [x : Nat, y : Nat, z : Nat]

Cells == (0 .. size.x - 1) \X (0 .. size.y - 1) \X (0 .. size.z - 1)
Circle(c, radius) ==
  {p \in (0 .. size.x - 1) \X (0 .. size.y - 1) \X {c.z} :
     /\ p[1] \in c.x - radius .. c.x + radius
     /\ p[2] \in c.y - radius .. c.y + radius}

GridInv == size \in Triples /\ Grid!ViewsCropped

(* The centre is a cell, and a subcircle is of its layer.                  *)
LEMMA CircleInGrid ==
  ASSUME size \in Triples, NEW c \in Triples, Grid!Contains(c), NEW radius
  PROVE  Circle(c, radius) \subseteq Cells
<1>1. c.z \in 0 .. size.z - 1
  BY DEF Triples, Grid!Contains
<1>2. QED
  BY <1>1 DEF Circle, Cells

LEMMA GridInit == Grid!Init => GridInv
<1> SUFFICES ASSUME Grid!Init PROVE GridInv
  OBVIOUS
<1>1. ASSUME NEW d \in Triples, NEW r \in Nat \ {0}
      PROVE  Grid!Discrete(d, r) \in Triples
  <2>1. \A n \in Nat : n \div r \in Nat
    OBVIOUS
  <2>2. QED
    BY <2>1 DEF Grid!Discrete, Triples
<1>2. size \in Triples
  <2>1. CASE size \in Sizes
    BY <2>1, GridAssumption DEF Triples
  <2>2. ASSUME NEW flat \in BOOLEAN, Grid!Overlay(flat)
        PROVE  size \in Triples
    <3>1. dims \in Triples /\ res \in Nat \ {0}
      BY <2>2, GridAssumption DEF Grid!Overlay, Triples
    <3>2. Grid!Discrete(dims, res) \in Triples
      BY <1>1, <3>1
    <3>3. size = [Grid!Discrete(dims, res) EXCEPT !.z = IF flat THEN 1 ELSE @]
      BY <2>2 DEF Grid!Overlay
    <3>4. QED
      BY <3>2, <3>3 DEF Triples
  <2>3. QED
    BY <2>1, <2>2 DEF Grid!Init
<1>3. view = {} /\ asked.kind = "none"
  BY DEF Grid!Init
<1>4. QED
  BY <1>2, <1>3 DEF GridInv, Grid!ViewsCropped

(* The cells of a part of the columns and a part of the rows.              *)
LEMMA ProductOfParts ==
  ASSUME NEW A, NEW B, NEW C, NEW S, NEW T
  PROVE  {i \in A : i \in S} \X {j \in B : j \in T} \X C =
           {p \in A \X B \X C : p[1] \in S /\ p[2] \in T}
  OBVIOUS

LEMMA GridStep == GridInv /\ [Grid!Next]_Grid!vars => GridInv'
<1> SUFFICES ASSUME GridInv, [Grid!Next]_Grid!vars PROVE GridInv'
  OBVIOUS
<1>1. ASSUME NEW c \in Coords, NEW r \in Radii, Grid!Contains(c),
             Grid!Subcircle(c, r)
      PROVE  GridInv'
  <2>0. c \in Triples /\ size \in Triples /\ r \in Nat
    BY GridAssumption DEF GridInv, Triples
  <2>1. view' = Circle(c, r)
    <3>1. /\ c.x \in Nat /\ c.y \in Nat /\ size.x \in Nat /\ size.y \in Nat
          /\ c.z \in Nat
      BY <2>0 DEF Triples
    <3>. DEFINE ll == [x |-> Grid!Lower(c.x, r), y |-> Grid!Lower(c.y, r),
                       z |-> c.z]
                ur == [x |-> Grid!Upper(c.x, r, size.x),
                       y |-> Grid!Upper(c.y, r, size.y), z |-> c.z + 1]
                near(a) == a - r .. a + r
                columns == {i \in 0 .. size.x - 1 : i \in near(c.x)}
                rows == {j \in 0 .. size.y - 1 : j \in near(c.y)}
    <3>2. view' = Grid!HalfOpen(ll, ur)
      BY <1>1 DEF Grid!Subcircle, Grid!Subgrid, Grid!LowerLeft
    <3>3. ll.x .. ur.x - 1 = columns /\ ll.y .. ur.y - 1 = rows
      <4>1. ll.x .. ur.x - 1 = columns
        BY <2>0, <3>1
        DEF Grid!Lower, Grid!Upper, Grid!Maximum, Grid!Minimum
      <4>2. ll.y .. ur.y - 1 = rows
        BY <2>0, <3>1
        DEF Grid!Lower, Grid!Upper, Grid!Maximum, Grid!Minimum
      <4>3. QED
        BY <4>1, <4>2
    <3>4. ll.z .. ur.z - 1 = {c.z}
      BY <3>1
    <3>. HIDE DEF ll, ur, columns, rows
    <3>. view' = columns \X rows \X {c.z}
      BY <3>2, <3>3, <3>4 DEF Grid!HalfOpen
    <3>5. QED
      BY ProductOfParts DEF columns, rows, Circle
  <2>2. size' = size /\ asked' = [kind |-> "cropped", c |-> c, radius |-> r]
    BY <1>1 DEF Grid!Subcircle
  <2>3. view' \subseteq Cells
    BY <1>1, <2>0, <2>1, CircleInGrid
  <2>4. QED
    BY <2>1, <2>2, <2>3 DEF GridInv, Grid!ViewsCropped, Circle, Cells
<1>2. ASSUME NEW c \in Coords, NEW r \in Radii, Grid!Contains(c),
             Grid!SubcircleMutable(c, r)
      PROVE  GridInv'
  <2>0. c \in Triples /\ size \in Triples /\ r \in Nat
    BY GridAssumption DEF GridInv, Triples
  <2>1. view' \subseteq Cells /\ Circle(c, r) \subseteq view'
    <3>1. /\ c.x \in Nat /\ c.y \in Nat /\ size.x \in Nat /\ size.y \in Nat
          /\ c.z \in Nat
      BY <2>0 DEF Triples
    <3>. DEFINE ll == [x |-> Grid!Lower(c.x, r), y |-> Grid!Lower(c.y, r),
                       z |-> c.z]
                ur == [x |-> Grid!Upper(c.x, r, size.x - 1) + 1,
                       y |-> Grid!Upper(c.y, r, size.y - 1) + 1, z |-> c.z + 1]
                near(a) == a - r .. a + r
                columns == {i \in 0 .. size.x - 1 : i \in near(c.x)}
                rows == {j \in 0 .. size.y - 1 : j \in near(c.y)}
                xs == ll.x .. ur.x - 1
                ys == ll.y .. ur.y - 1
    <3>2. view' = Grid!HalfOpen(ll, ur)
      BY <1>2 DEF Grid!SubcircleMutable, Grid!SubgridClosed, Grid!LowerLeft
    <3>3. columns \subseteq xs /\ xs \subseteq 0 .. size.x - 1
      BY <2>0, <3>1 DEF Grid!Lower, Grid!Upper, Grid!Maximum, Grid!Minimum
    <3>4. rows \subseteq ys /\ ys \subseteq 0 .. size.y - 1
      BY <2>0, <3>1 DEF Grid!Lower, Grid!Upper, Grid!Maximum, Grid!Minimum
    <3>5. ll.z .. ur.z - 1 = {c.z} /\ c.z \in 0 .. size.z - 1
      BY <1>2, <2>0, <3>1 DEF Grid!Contains, Triples
    <3>. HIDE DEF ll, ur, columns, rows
    <3>6. view' = xs \X ys \X {c.z}
      BY <3>2, <3>5 DEF Grid!HalfOpen
    <3>. HIDE DEF xs, ys
    <3>7. Circle(c, r) = columns \X rows \X {c.z}
      BY ProductOfParts DEF columns, rows, Circle
    <3>8. QED
      BY <3>3, <3>4, <3>5, <3>6, <3>7 DEF Cells
  <2>2. size' = size /\ asked' = [kind |-> "mutable", c |-> c, radius |-> r]
    BY <1>2 DEF Grid!SubcircleMutable
  <2>3. QED
    BY <2>1, <2>2 DEF GridInv, Grid!ViewsCropped, Circle, Cells
<1>3. ASSUME NEW z \in 0 .. size.z - 1, Grid!Layer(z)
      PROVE  GridInv'
  <2>1. view' = {}
    BY <1>3 DEF Grid!Layer, Grid!Subgrid, Grid!HalfOpen, GridInv, Triples
  <2>2. size' = size /\ asked' = [kind |-> "layer"]
    BY <1>3 DEF Grid!Layer
  <2>3. QED
    BY <2>1, <2>2 DEF GridInv, Grid!ViewsCropped
<1>4. CASE UNCHANGED Grid!vars
  BY <1>4 DEF Grid!vars, GridInv, Grid!ViewsCropped
<1>5. QED
  BY <1>1, <1>2, <1>3, <1>4 DEF Grid!Next

(* For a grid of any size, any centre in it and any radius: no view goes   *)
(* beyond the edges, a subcircle of a const or a 3D grid has the cells at  *)
(* most the radius away and no other, and that of a 2D grid that is not    *)
(* const has them at least.  What a layer has is not said.                 *)
THEOREM ViewsAreCropped == Spec => []ViewsCropped
<1> DEFINE Inv == part = "grid" => GridInv
<1>1. Init => Inv
  BY GridPart, GridInit
<1>2. Inv /\ [Next]_vars => Inv'
  BY GridPart, GridStep
<1>3. Inv => ViewsCropped
  BY DEF GridInv, ViewsCropped
<1>4. QED
  BY <1>1, <1>2, <1>3, PTL DEF Spec

HIDE DEF size, dims, res, view, asked

----------------------------------------------------------------------------
(* Event horizon clustering.                                               *)
data == v1
round == v2
membership == v3
copy == v4
todo == v5
next == v6
phase == v7
USE DEF data, round, membership, copy, todo, next, phase

LEMMA HorizonPart ==
  /\ Init /\ part = "horizon" => Horizon!Init
  /\ [Next]_vars => /\ part' = part
                    /\ part = "horizon" => [Horizon!Next]_Horizon!vars
  BY DEF Init, Next, vars, Horizon!vars

Points == DOMAIN data
Around(i) == Horizon!Ball(i, Horizons[round])

HorizonType ==
  /\ data \in Seq(Int)
  /\ round \in DOMAIN Horizons
  /\ membership \in [Points -> SUBSET Points]
  /\ copy \in Seq(SUBSET Points)
  /\ todo \subseteq Points
  /\ next \in Nat \ {0}
  /\ phase \in {"iterate", "dedup", "done"}

(* A cluster that was not gathered again is one of a smaller horizon.      *)
Gathered ==
  /\ \A i \in Points : membership[i] \subseteq Around(i)
  /\ \A i \in Points \ todo : membership[i] = Around(i)
  /\ phase # "iterate" => todo = {}

(* The clusters are those around the points g, in their order, which are   *)
(* the first ones to have them.                                            *)
FromPoints(g) ==
  /\ g \in [DOMAIN copy -> Points]
  /\ \A m, n \in DOMAIN copy : m < n => g[m] < g[n]
  /\ \A n \in DOMAIN copy : copy[n] = Around(g[n])
  /\ \A i \in Points : \E n \in DOMAIN copy : copy[n] = Around(i) /\ g[n] <= i

(* Those that were gone through have no duplicates, before or behind them. *)
Deduplicated(n) ==
  \A i, j \in DOMAIN copy : i < n /\ i # j => copy[i] # copy[j]

HorizonInv ==
  /\ HorizonType
  /\ Gathered
  /\ phase = "dedup" => /\ \E g : FromPoints(g)
                        /\ Deduplicated(next)

LEMMA BallsGrow ==
  ASSUME data \in Seq(Int), NEW i \in Points,
         NEW m \in DOMAIN Horizons, NEW n \in DOMAIN Horizons, m <= n
  PROVE  Horizon!Ball(i, Horizons[m]) \subseteq Horizon!Ball(i, Horizons[n])
<1>1. Horizons[m] \in Int /\ Horizons[n] \in Int /\ Horizons[m] <= Horizons[n]
  BY HorizonAssumption
<1>2. \A j \in Points : Horizon!Dist(i, j) \in Int
  BY DEF Horizon!Dist, Points
<1>3. QED
  BY <1>1, <1>2 DEF Horizon!Ball, Horizon!Points, Points

LEMMA HorizonInit == Horizon!Init => HorizonInv
<1> SUFFICES ASSUME Horizon!Init PROVE HorizonInv
  OBVIOUS
<1>1. data \in Seq(Int) /\ round \in DOMAIN Horizons
  BY HorizonAssumption DEF Horizon!Init
<1>2. QED
  BY <1>1 DEF Horizon!Init, Horizon!Points, Points, HorizonInv, HorizonType,
              Gathered

LEMMA GatherStep ==
  ASSUME HorizonInv, NEW i \in Horizon!Points, Horizon!Gather(i)
  PROVE  HorizonInv'
<1>1. i \in Points
  BY DEF Horizon!Points, Points
<1>2. Around(i) \subseteq Points
  BY DEF Around, Horizon!Ball, Horizon!Points, Points
<1>3. membership' = [membership EXCEPT ![i] = Around(i)]
  BY <1>1 DEF Horizon!Gather, HorizonInv, HorizonType, Gathered, Around
<1>4. \A j : Around(j)' = Around(j)
  BY DEF Horizon!Gather, Around, Horizon!Ball, Horizon!Points, Horizon!Dist
<1>5. HorizonType'
  BY <1>1, <1>2, <1>3 DEF Horizon!Gather, HorizonInv, HorizonType, Points
<1>6. Gathered'
  BY <1>1, <1>3, <1>4
  DEF Horizon!Gather, HorizonInv, HorizonType, Gathered, Points
<1>7. QED
  BY <1>5, <1>6 DEF HorizonInv, Horizon!Gather

LEMMA EndIterateStep ==
  ASSUME HorizonInv, Horizon!EndIterate
  PROVE  HorizonInv'
<1>1. /\ phase = "iterate" /\ todo = {} /\ copy' = membership
      /\ next' = 1 /\ phase' = "dedup"
      /\ UNCHANGED <<data, round, membership, todo>>
  BY DEF Horizon!EndIterate
<1>2. /\ DOMAIN copy' = Points /\ Points' = Points
      /\ \A i \in Points : copy'[i] = Around(i)
  BY <1>1 DEF HorizonInv, HorizonType, Gathered, Points
<1>3. \A j : Around(j)' = Around(j)
  BY <1>1 DEF Around, Horizon!Ball, Horizon!Points, Horizon!Dist
<1>4. Points = 1 .. Len(data) /\ Len(data) \in Nat
  BY DEF HorizonInv, HorizonType, Points
<1>5. membership \in Seq(SUBSET Points)
  BY <1>4 DEF HorizonInv, HorizonType
<1>6. HorizonType'
  BY <1>1, <1>2, <1>5 DEF HorizonInv, HorizonType
<1>7. Gathered'
  BY <1>1, <1>2, <1>3 DEF HorizonInv, Gathered
<1>8. FromPoints([i \in Points |-> i])'
  BY <1>2, <1>3, <1>4 DEF FromPoints
<1>9. Deduplicated(next)'
  BY <1>1, <1>2, <1>4 DEF Deduplicated
<1>10. QED
  BY <1>6, <1>7, <1>8, <1>9 DEF HorizonInv

LEMMA NextHorizonStep ==
  ASSUME HorizonInv, Horizon!NextHorizon
  PROVE  HorizonInv'
<1>1. /\ phase = "dedup" /\ todo = {}
      /\ UNCHANGED <<data, membership, copy, next>>
  BY DEF Horizon!NextHorizon, HorizonInv, Gathered
<1>2. CASE round < Len(Horizons)
  <2>1. round' = round + 1 /\ todo' = Points /\ phase' = "iterate"
    BY <1>2 DEF Horizon!NextHorizon, Horizon!Points, Points
  <2>2. round \in DOMAIN Horizons /\ round + 1 \in DOMAIN Horizons
          /\ round <= round + 1
    BY <1>2, HorizonAssumption DEF HorizonInv, HorizonType
  <2>3. \A i \in Points : Around(i)' = Horizon!Ball(i, Horizons[round + 1])
    BY <1>1, <2>1 DEF Around, Horizon!Ball, Horizon!Points, Horizon!Dist
  <2>4. data \in Seq(Int)
    BY DEF HorizonInv, HorizonType
  <2>5. \A i \in Points : Around(i) \subseteq Around(i)'
    BY <2>2, <2>3, <2>4, BallsGrow DEF Around
  <2>6. Points' = Points
    BY <1>1 DEF Points
  <2>7. Gathered'
    BY <1>1, <2>1, <2>5, <2>6 DEF Gathered, HorizonInv
  <2>8. HorizonType'
    BY <1>1, <2>1, <2>2, <2>6 DEF HorizonInv, HorizonType
  <2>9. QED
    BY <2>1, <2>7, <2>8 DEF HorizonInv
<1>3. CASE ~(round < Len(Horizons))
  <2>1. phase' = "done" /\ UNCHANGED <<round, todo>>
    BY <1>3 DEF Horizon!NextHorizon
  <2>2. \A i : Around(i)' = Around(i)
    BY <1>1, <2>1 DEF Around, Horizon!Ball, Horizon!Points, Horizon!Dist
  <2>3. HorizonType' /\ Gathered'
    BY <1>1, <2>1, <2>2 DEF HorizonInv, HorizonType, Gathered, Points
  <2>4. QED
    BY <2>1, <2>3 DEF HorizonInv
<1>4. QED
  BY <1>2, <1>3

(* Of the numbers in order those up to p stay in their places, when they   *)
(* are all there.                                                          *)
LEMMA FirstInPlace ==
  ASSUME NEW D \in SUBSET (Nat \ {0}), NEW N \in Nat, NEW s \in [1 .. N -> D],
         \A x \in D : \E n \in 1 .. N : s[n] = x,
         \A m, n \in 1 .. N : m < n => s[m] < s[n],
         NEW p \in Nat, 1 .. p \subseteq D
  PROVE  \A m \in 1 .. N : m <= p => s[m] = m
<1> DEFINE Wrong == {m \in 1 .. N : m <= p /\ s[m] # m}
<1> SUFFICES ASSUME Wrong # {} PROVE FALSE
  OBVIOUS
<1>1. Wrong \in SUBSET Nat
  OBVIOUS
<1>2. PICK m \in Wrong : \A n \in Wrong : m <= n
  BY <1>1, LeastElement
<1>3. m \in 1 .. N /\ m \in Nat /\ m <= p /\ s[m] # m
  BY <1>2
<1>4. \A n \in 1 .. N : n < m => s[n] = n
  BY <1>2, <1>3
<1> HIDE DEF Wrong
<1>5. m \in D
  BY <1>3
<1>6. PICK q \in 1 .. N : s[q] = m
  BY <1>5
<1>7. s[m] \in Nat \ {0}
  BY <1>3
<1>8. CASE s[m] < m
  <2>1. s[m] \in 1 .. N
    BY <1>3, <1>7, <1>8
  <2>2. s[s[m]] = s[m] /\ s[s[m]] < s[m]
    BY <1>3, <1>4, <1>8, <2>1
  <2>3. QED
    BY <1>7, <2>2
<1>9. CASE s[m] > m
  <2>1. CASE q < m
    BY <1>3, <1>4, <1>6, <2>1
  <2>2. CASE q > m
    <3>1. s[m] < s[q]
      BY <1>3, <2>2
    <3>2. QED
      BY <1>3, <1>6, <1>7, <1>9, <3>1
  <2>3. QED
    BY <1>3, <1>6, <2>1, <2>2
<1>10. QED
  BY <1>3, <1>7, <1>8, <1>9

LEMMA HorizonCardinalityIs == \A S : Horizon!Cardinality(S) = Cardinality(S)
  BY DEF Horizon!Cardinality, Cardinality

(* Removing the duplicates of a cluster with none before it leaves the     *)
(* others, those up to it in their places.                                 *)
LEMMA DuplicatesRemoved ==
  ASSUME HorizonType, NEW g, FromPoints(g), Deduplicated(next),
         Horizon!RemoveDuplicates
  PROVE  /\ copy' \in Seq(SUBSET Points)
         /\ \E h : FromPoints(h)'
         /\ Deduplicated(next)'
<1> DEFINE D == DOMAIN copy \ Horizon!Duplicates(next)
           N == Cardinality(D)
<1>1. /\ next <= Len(copy) /\ next' = next + 1
      /\ UNCHANGED <<data, round, membership, todo, phase>>
  BY DEF Horizon!RemoveDuplicates
<1>2. PICK s \in [1 .. N -> D] :
        /\ \A x \in D : \E n \in 1 .. N : s[n] = x
        /\ \A m, n \in 1 .. N : m < n => s[m] < s[n]
        /\ copy' = [n \in 1 .. N |-> copy[s[n]]]
  <2>1. PICK s \in Horizon!InOrder(D) : copy' = [n \in DOMAIN s |-> copy[s[n]]]
    BY DEF Horizon!RemoveDuplicates
  <2> HIDE DEF D
  <2>2. /\ s \in [1 .. N -> D]
        /\ \A x \in D : \E n \in DOMAIN s : s[n] = x
        /\ \A m, n \in DOMAIN s : m < n => s[m] < s[n]
    BY HorizonCardinalityIs DEF Horizon!InOrder
  <2> HIDE DEF N
  <2>3. QED
    BY <2>1, <2>2
<1>3. /\ DOMAIN copy = 1 .. Len(copy) /\ Len(copy) \in Nat
      /\ next \in DOMAIN copy /\ next \in Nat \ {0}
      /\ \A n \in DOMAIN copy : copy[n] \in SUBSET Points
  BY <1>1 DEF HorizonType
<1>4. N \in Nat
  <2>1. IsFiniteSet(DOMAIN copy)
    BY <1>3, FS_Interval
  <2>2. D \in SUBSET DOMAIN copy
    OBVIOUS
  <2>3. QED
    BY <2>1, <2>2, FS_Subset, FS_CardinalityType
<1>5. /\ D \in SUBSET (Nat \ {0})
      /\ D = {n \in DOMAIN copy : copy[n] # copy[next] \/ n = next}
      /\ 1 .. next \subseteq D
  BY <1>3 DEF Horizon!Duplicates, Deduplicated
<1> HIDE DEF D, N
<1>6. \A m \in 1 .. N : m <= next => s[m] = m
  BY <1>2, <1>3, <1>4, <1>5, FirstInPlace, ZenonT(40)
<1>7. /\ DOMAIN copy' = 1 .. N
      /\ \A n \in 1 .. N : s[n] \in D /\ s[n] \in DOMAIN copy
                            /\ copy'[n] = copy[s[n]]
  BY <1>2, <1>5
<1>8. copy' \in Seq(SUBSET Points)
  BY <1>2, <1>3, <1>4, <1>7, SMTT(30)
<1>9. Deduplicated(next)'
  <2> SUFFICES ASSUME NEW i \in 1 .. N, NEW j \in 1 .. N, i < next + 1, i # j
               PROVE  copy'[i] # copy'[j]
    BY <1>1, <1>7 DEF Deduplicated
  <2>1. s[i] = i
    BY <1>3, <1>4, <1>6
  <2>2. s[j] # i
    <3>1. s[i] < s[j] \/ s[j] < s[i]
      BY <1>2, <1>4
    <3>2. QED
      BY <1>5, <1>7, <2>1, <3>1
  <2>3. CASE i < next
    BY <1>7, <2>1, <2>2, <2>3 DEF Deduplicated
  <2>4. CASE i = next
    BY <1>5, <1>7, <2>1, <2>2, <2>4
  <2>5. QED
    BY <1>3, <2>3, <2>4
<1>10. \A i : Around(i)' = Around(i)
  BY <1>1 DEF Around, Horizon!Ball, Horizon!Points, Horizon!Dist
<1>11. Points' = Points /\ Points \subseteq Nat
  BY <1>1 DEF Points, HorizonType
<1>12. ASSUME NEW h, h = [n \in 1 .. N |-> g[s[n]]]
       PROVE  FromPoints(h)'
  <2>1. h \in [1 .. N -> Points]
    BY <1>7, <1>12 DEF FromPoints
  <2>2. \A m, n \in 1 .. N : m < n => h[m] < h[n]
    BY <1>2, <1>7, <1>12 DEF FromPoints
  <2>3. \A n \in 1 .. N : copy'[n] = Around(h[n])
    BY <1>7, <1>12 DEF FromPoints
  <2>4. ASSUME NEW i \in Points
        PROVE  \E n \in 1 .. N : copy'[n] = Around(i) /\ h[n] <= i
    <3>1. PICK m \in DOMAIN copy : copy[m] = Around(i) /\ g[m] <= i
      BY DEF FromPoints
    <3>2. \E x \in D : copy[x] = Around(i) /\ g[x] <= i
      <4>1. CASE m \in D
        BY <3>1, <4>1
      <4>2. CASE m \notin D
        <5>1. copy[m] = copy[next] /\ m # next
          BY <1>5, <4>2
        <5>2. next < m
          BY <1>3, <1>5, <4>2
        <5>3. g[next] < g[m] /\ g[next] \in Nat /\ g[m] \in Nat
          BY <1>3, <1>11, <5>2 DEF FromPoints
        <5>4. g[next] <= i
          BY <1>11, <3>1, <5>3
        <5>5. next \in D
          BY <1>3, <1>5
        <5>6. QED
          BY <3>1, <5>1, <5>4, <5>5
      <4>3. QED
        BY <4>1, <4>2
    <3>3. PICK x \in D : copy[x] = Around(i) /\ g[x] <= i
      BY <3>2
    <3>4. PICK n \in 1 .. N : s[n] = x
      BY <1>2
    <3>5. QED
      BY <1>7, <1>12, <3>3, <3>4
  <2>5. QED
    BY <1>7, <1>10, <1>11, <2>1, <2>2, <2>3, <2>4 DEF FromPoints
<1>13. QED
  BY <1>8, <1>9, <1>12

LEMMA HorizonStep == HorizonInv /\ [Horizon!Next]_Horizon!vars => HorizonInv'
<1> SUFFICES ASSUME HorizonInv, [Horizon!Next]_Horizon!vars PROVE HorizonInv'
  OBVIOUS
<1>1. CASE Horizon!RemoveDuplicates
  <2>1. /\ phase = "dedup" /\ next' = next + 1
        /\ UNCHANGED <<data, round, membership, todo, phase>>
    BY <1>1 DEF Horizon!RemoveDuplicates
  <2>2. PICK g : FromPoints(g)
    BY <2>1 DEF HorizonInv
  <2>3. HorizonType /\ Gathered /\ Deduplicated(next)
    BY <2>1 DEF HorizonInv
  <2>4. /\ copy' \in Seq(SUBSET Points) /\ (\E h : FromPoints(h)')
        /\ Deduplicated(next)'
    BY <1>1, <2>2, <2>3, DuplicatesRemoved
  <2>5. HorizonType'
    BY <2>1, <2>3, <2>4 DEF HorizonType, Points
  <2>6. Gathered'
    BY <2>1, <2>3
    DEF Gathered, Points, Around, Horizon!Ball, Horizon!Points, Horizon!Dist
  <2>7. QED
    BY <2>4, <2>5, <2>6 DEF HorizonInv
<1>2. CASE UNCHANGED Horizon!vars
  <2>1. UNCHANGED <<data, round, membership, copy, todo, next, phase>>
    BY <1>2 DEF Horizon!vars
  <2>2. \A i : Around(i)' = Around(i)
    BY <2>1 DEF Around, Horizon!Ball, Horizon!Points, Horizon!Dist
  <2>3. HorizonType' /\ Gathered'
    BY <2>1, <2>2 DEF HorizonInv, HorizonType, Gathered, Points
  <2>4. ASSUME NEW g, FromPoints(g) PROVE FromPoints(g)'
    BY <2>1, <2>2, <2>4 DEF FromPoints, Points
  <2>5. Deduplicated(next) => Deduplicated(next)'
    BY <2>1 DEF Deduplicated
  <2>6. QED
    BY <2>1, <2>3, <2>4, <2>5 DEF HorizonInv
<1>3. QED
  BY <1>1, <1>2, GatherStep, EndIterateStep, NextHorizonStep DEF Horizon!Next

(* For any points and any growing horizons: the clusters that the entropy  *)
(* of a horizon is computed from are the distinct neighbourhoods, each of  *)
(* them once, in the order of the first points that have them.             *)
THEOREM ClustersAreDistinct == Spec => []ClustersDistinct
<1> DEFINE Inv == part = "horizon" => HorizonInv
<1>1. Init => Inv
  BY HorizonPart, HorizonInit
<1>2. Inv /\ [Next]_vars => Inv'
  BY HorizonPart, HorizonStep
<1>3. HorizonInv => Horizon!ClustersDistinct
  <2> SUFFICES ASSUME HorizonInv, phase = "dedup", next > Len(copy)
               PROVE  Horizon!ClustersDistinct
    BY DEF Horizon!ClustersDistinct
  <2>1. PICK g : FromPoints(g)
    BY DEF HorizonInv
  <2>2. /\ DOMAIN copy = 1 .. Len(copy) /\ Len(copy) \in Nat /\ next \in Nat
        /\ Points \subseteq Nat
    BY DEF HorizonInv, HorizonType, Points
  <2>3. \A m, n \in DOMAIN copy : m # n => copy[m] # copy[n]
    BY <2>2 DEF HorizonInv, Deduplicated
  <2>4. Horizon!ToSet(copy) = {Around(i) : i \in Points}
    BY <2>1 DEF FromPoints, Horizon!ToSet
  <2>5. ASSUME NEW m \in DOMAIN copy, NEW n \in DOMAIN copy, m < n
        PROVE  /\ g[m] \in Points /\ Around(g[m]) = copy[m]
               /\ \A j \in Points : Around(j) = copy[n] => g[m] < j
    <3>1. g[m] \in Points /\ g[n] \in Points /\ g[m] < g[n]
      BY <2>1, <2>5 DEF FromPoints
    <3>2. ASSUME NEW j \in Points, Around(j) = copy[n]
          PROVE  g[m] < j
      <4>1. PICK p \in DOMAIN copy : copy[p] = Around(j) /\ g[p] <= j
        BY <2>1 DEF FromPoints
      <4>2. p = n
        BY <2>3, <3>2, <4>1
      <4>3. g[m] \in Nat /\ g[n] \in Nat /\ j \in Nat
        BY <2>2, <3>1
      <4>4. QED
        BY <3>1, <4>1, <4>2, <4>3
    <3>3. QED
      BY <2>1, <3>1, <3>2 DEF FromPoints
  <2>6. Horizon!Points = Points
    BY DEF Horizon!Points, Points
  <2>7. QED
    BY <2>3, <2>4, <2>5, <2>6 DEF Horizon!ClustersDistinct, Around
<1>4. Inv => ClustersDistinct
  BY <1>3 DEF ClustersDistinct
<1>5. QED
  BY <1>1, <1>2, <1>4, PTL DEF Spec

HIDE DEF data, round, membership, copy, todo, next, phase

----------------------------------------------------------------------------
(* ConvexHull.                                                             *)

(* Twice the area of the triangle of o, u and v, with the sign of its turn.*)
Plane == [x : Int, y : Int]
Cross(o, u, v) == (u.x - o.x) * (v.y - o.y) - (u.y - o.y) * (v.x - o.x)

LEMMA CrossType ==
  ASSUME NEW o \in Plane, NEW u \in Plane, NEW v \in Plane
  PROVE  /\ Cross(o, u, v) \in Int
         /\ Cross(o, v, u) = -Cross(o, u, v)
         /\ Cross(o, u, u) = 0 /\ Cross(o, o, u) = 0 /\ Cross(o, u, o) = 0
<1>1. /\ o.x \in Int /\ o.y \in Int /\ u.x \in Int /\ u.y \in Int
      /\ v.x \in Int /\ v.y \in Int
  BY DEF Plane
<1>2. QED
  BY <1>1 DEF Cross

LEMMA TurnIs ==
  ASSUME NEW o \in Plane, NEW p \in Plane, NEW q \in Plane, NEW r \in Plane
  PROVE  Hull!Orientation(p, q, r) =
           Cross(o, p, r) - Cross(o, p, q) - Cross(o, q, r)
<1>1. /\ o.x \in Int /\ o.y \in Int /\ p.x \in Int /\ p.y \in Int
      /\ q.x \in Int /\ q.y \in Int /\ r.x \in Int /\ r.y \in Int
  BY DEF Plane
<1>2. QED
  BY <1>1 DEF Cross, Hull!Orientation

LEMMA CrossesOfFour ==
  ASSUME NEW o \in Plane, NEW a \in Plane, NEW b \in Plane,
         NEW c \in Plane, NEW d \in Plane
  PROVE  Cross(o, a, b) * Cross(o, c, d) + Cross(o, a, d) * Cross(o, b, c)
           = Cross(o, a, c) * Cross(o, b, d)
<1> DEFINE ax == a.x - o.x
           ay == a.y - o.y
           bx == b.x - o.x
           by == b.y - o.y
           cx == c.x - o.x
           cy == c.y - o.y
           dx == d.x - o.x
           dy == d.y - o.y
<1>1. /\ ax \in Int /\ ay \in Int /\ bx \in Int /\ by \in Int
      /\ cx \in Int /\ cy \in Int /\ dx \in Int /\ dy \in Int
  BY DEF Plane
<1> HIDE DEF ax, ay, bx, by, cx, cy, dx, dy
<1>2. (ax * by - ay * bx) * (cx * dy - cy * dx)
        + (ax * dy - ay * dx) * (bx * cy - by * cx)
        = (ax * cy - ay * cx) * (bx * dy - by * dx)
  BY <1>1
<1>3. QED
  BY <1>2 DEF Cross, ax, ay, bx, by, cx, cy, dx, dy

LEMMA PositiveProduct ==
  ASSUME NEW u \in Int, NEW v \in Int, u > 0
  PROVE  /\ u * v > 0 => v > 0
         /\ u * v >= 0 => v >= 0
         /\ v >= 0 => u * v >= 0
  OBVIOUS

LEMMA NonnegativeProduct ==
  ASSUME NEW u \in Int, NEW v \in Int, u >= 0, v >= 0
  PROVE  u * v >= 0
  OBVIOUS

(* A chain that turns left at b and at c has p to the left of its edge     *)
(* from a to b.  (Products of two letters are crosses: ab is Cross(o, a, b)*)
(* for the first point o.)                                                 *)
LEMMA ChainTurnsLeft ==
  ASSUME NEW ab \in Int, NEW ac \in Int, NEW ap \in Int, NEW bc \in Int,
         NEW bp \in Int, NEW cp \in Int,
         ab * cp + ap * bc = ac * bp,
         ab > 0, bc > 0, bp > 0, ab + bc > ac, bc + cp > bp
  PROVE  ab + bp > ap
<1>1. bc * (ab + bp - ap) = ab * (bc + cp - bp) + bp * (ab + bc - ac)
  <2>1. bc * (ab + bp - ap) = ab * bc + bc * bp - ap * bc
    OBVIOUS
  <2>2. ab * (bc + cp - bp) = ab * bc + ab * cp - ab * bp
    OBVIOUS
  <2>3. bp * (ab + bc - ac) = ab * bp + bc * bp - ac * bp
    OBVIOUS
  <2>4. QED
    BY <2>1, <2>2, <2>3
<1>2. ab * (bc + cp - bp) > 0
  <2>1. bc + cp - bp > 0 /\ bc + cp - bp \in Int
    OBVIOUS
  <2>2. \A u, v \in Int : u > 0 /\ v > 0 => u * v > 0
    OBVIOUS
  <2>3. QED
    BY <2>1, <2>2
<1>3. bp * (ab + bc - ac) > 0
  <2>1. ab + bc - ac > 0 /\ ab + bc - ac \in Int
    OBVIOUS
  <2>2. \A u, v \in Int : u > 0 /\ v > 0 => u * v > 0
    OBVIOUS
  <2>3. QED
    BY <2>1, <2>2
<1>4. bc * (ab + bp - ap) > 0
  BY <1>1, <1>2, <1>3
<1>5. ab + bp - ap > 0
  BY <1>4, PositiveProduct
<1>6. QED
  BY <1>5

(* A point z that is not past b, and to the left of the edge from a to b,  *)
(* is to the left of one that turns left at b.                             *)
LEMMA LeftOfNextEdge ==
  ASSUME NEW ab \in Int, NEW ap \in Int, NEW az \in Int, NEW bp \in Int,
         NEW zb \in Int, NEW zp \in Int,
         zp * ab = zb * ap + az * bp,
         ab > 0, bp > 0, zb >= 0, ab - zb - az >= 0, ab + bp > ap
  PROVE  bp - zp + zb >= 0
<1>1. ab * (bp - zp + zb) = bp * (ab - zb - az) + zb * (ab + bp - ap)
  <2>1. ab * (bp - zp + zb) = ab * bp - zp * ab + zb * ab
    OBVIOUS
  <2>2. bp * (ab - zb - az) = ab * bp - zb * bp - az * bp
    OBVIOUS
  <2>3. zb * (ab + bp - ap) = zb * ab + zb * bp - zb * ap
    OBVIOUS
  <2>4. QED
    BY <2>1, <2>2, <2>3
<1>2. bp * (ab - zb - az) >= 0
  BY NonnegativeProduct
<1>3. zb * (ab + bp - ap) >= 0
  BY NonnegativeProduct
<1>4. ab * (bp - zp + zb) >= 0
  BY <1>1, <1>2, <1>3
<1>5. QED
  BY <1>4, PositiveProduct

(* When b is dropped because it is not a left turn to p, the points that   *)
(* were between a and b, or between b and p, are to the left of the edge   *)
(* from a to p.                                                            *)
LEMMA LeftOfShortcutBefore ==
  ASSUME NEW ab \in Int, NEW ap \in Int, NEW az \in Int, NEW bp \in Int,
         NEW zb \in Int, NEW zp \in Int,
         zp * ab = zb * ap + az * bp,
         ab > 0, ap > 0, az >= 0, ab - zb - az >= 0, ab + bp <= ap
  PROVE  ap - zp - az >= 0
<1>1. ab * (ap - zp - az) = ap * (ab - zb - az) + az * (ap - ab - bp)
  <2>1. ab * (ap - zp - az) = ab * ap - zp * ab - az * ab
    OBVIOUS
  <2>2. ap * (ab - zb - az) = ab * ap - zb * ap - az * ap
    OBVIOUS
  <2>3. az * (ap - ab - bp) = az * ap - az * ab - az * bp
    OBVIOUS
  <2>4. QED
    BY <2>1, <2>2, <2>3
<1>2. ap * (ab - zb - az) >= 0
  BY NonnegativeProduct
<1>3. az * (ap - ab - bp) >= 0
  BY NonnegativeProduct
<1>4. ab * (ap - zp - az) >= 0
  BY <1>1, <1>2, <1>3
<1>5. QED
  BY <1>4, PositiveProduct

LEMMA LeftOfShortcutBehind ==
  ASSUME NEW ab \in Int, NEW ap \in Int, NEW az \in Int, NEW bp \in Int,
         NEW bz \in Int, NEW zp \in Int,
         ab * zp + ap * bz = az * bp,
         bp > 0, ap > 0, zp >= 0, bp - zp - bz >= 0, ab + bp <= ap
  PROVE  ap - zp - az >= 0
<1>1. bp * (ap - zp - az) = ap * (bp - zp - bz) + zp * (ap - ab - bp)
  <2>1. bp * (ap - zp - az) = ap * bp - zp * bp - az * bp
    OBVIOUS
  <2>2. ap * (bp - zp - bz) = ap * bp - ap * zp - ap * bz
    OBVIOUS
  <2>3. zp * (ap - ab - bp) = ap * zp - ab * zp - zp * bp
    OBVIOUS
  <2>4. QED
    BY <2>1, <2>2, <2>3
<1>2. ap * (bp - zp - bz) >= 0
  BY NonnegativeProduct
<1>3. zp * (ap - ab - bp) >= 0
  BY NonnegativeProduct
<1>4. bp * (ap - zp - az) >= 0
  BY <1>1, <1>2, <1>3
<1>5. QED
  BY <1>4, PositiveProduct

(* The half-plane above o, its right edge included.                        *)
Above(o, p) == o.y < p.y \/ (o.y = p.y /\ o.x <= p.x)

LEMMA ParallelTransitive ==
  ASSUME NEW ux \in Int, NEW uy \in Int, NEW vx \in Int, NEW vy \in Int,
         NEW wx \in Int, NEW wy \in Int, vx # 0 \/ vy # 0,
         ux * vy = uy * vx, vx * wy = vy * wx
  PROVE  ux * wy = uy * wx
<1>1. vx * (ux * wy - uy * wx) = 0
  <2>1. vx * (ux * wy - uy * wx) = ux * (vx * wy) - (uy * vx) * wx
    OBVIOUS
  <2>2. ux * (vx * wy) = ux * (vy * wx)
    OBVIOUS
  <2>3. ux * (vy * wx) = (ux * vy) * wx
    OBVIOUS
  <2>4. QED
    BY <2>1, <2>2, <2>3
<1>2. vy * (ux * wy - uy * wx) = 0
  <2>1. vy * (ux * wy - uy * wx) = (ux * vy) * wy - uy * (vy * wx)
    OBVIOUS
  <2>2. uy * (vy * wx) = uy * (vx * wy)
    OBVIOUS
  <2>3. uy * (vx * wy) = (uy * vx) * wy
    OBVIOUS
  <2>4. QED
    BY <2>1, <2>2, <2>3
<1>3. ASSUME NEW s \in Int, NEW t \in Int, s # 0, s * t = 0
      PROVE  t = 0
  BY <1>3
<1>4. ux * wy - uy * wx = 0
  BY <1>1, <1>2, <1>3
<1>5. QED
  BY <1>4

LEMMA CollinearTransitive ==
  ASSUME NEW o \in Plane, NEW u \in Plane, NEW v \in Plane, NEW w \in Plane,
         v # o, Cross(o, u, v) = 0, Cross(o, v, w) = 0
  PROVE  Cross(o, u, w) = 0
<1> DEFINE ux == u.x - o.x
           uy == u.y - o.y
           vx == v.x - o.x
           vy == v.y - o.y
           wx == w.x - o.x
           wy == w.y - o.y
<1>1. /\ ux \in Int /\ uy \in Int /\ vx \in Int /\ vy \in Int
      /\ wx \in Int /\ wy \in Int
  BY DEF Plane
<1>2. vx # 0 \/ vy # 0
  BY DEF Plane
<1>3. ux * vy - uy * vx = 0 /\ vx * wy - vy * wx = 0
  BY DEF Cross
<1> HIDE DEF ux, uy, vx, vy, wx, wy
<1>4. ux * vy = uy * vx /\ vx * wy = vy * wx
  BY <1>1, <1>3
<1>5. ux * wy = uy * wx
  BY <1>1, <1>2, <1>4, ParallelTransitive
<1>6. ux * wy - uy * wx = 0
  BY <1>1, <1>5
<1>7. QED
  BY <1>6 DEF Cross, ux, uy, wx, wy

(* Of three points in the half-plane, each not before the one ahead, the   *)
(* first and the last are at one angle only if the one between is.         *)
LEMMA StrictlyBefore ==
  ASSUME NEW o \in Plane, NEW u \in Plane, NEW v \in Plane, NEW w \in Plane,
         Above(o, u), Above(o, w), u # o, w # o,
         Cross(o, u, v) > 0, Cross(o, v, w) >= 0, Cross(o, u, w) >= 0
  PROVE  Cross(o, u, w) > 0
<1> SUFFICES ASSUME Cross(o, u, w) = 0 PROVE FALSE
  BY CrossType
<1> DEFINE ux == u.x - o.x
           uy == u.y - o.y
           vx == v.x - o.x
           vy == v.y - o.y
           wx == w.x - o.x
           wy == w.y - o.y
<1>1. /\ ux \in Int /\ uy \in Int /\ vx \in Int /\ vy \in Int
      /\ wx \in Int /\ wy \in Int
  BY DEF Plane
<1>2. /\ uy > 0 \/ (uy = 0 /\ ux > 0)
      /\ wy > 0 \/ (wy = 0 /\ wx > 0)
  BY DEF Plane, Above
<1>3. /\ ux * wy - uy * wx = 0
      /\ ux * vy - uy * vx > 0
      /\ vx * wy - vy * wx >= 0
  BY DEF Cross
<1> HIDE DEF ux, uy, vx, vy, wx, wy
<1>4. ux * wy = uy * wx
  BY <1>1, <1>3
<1>5. CASE uy > 0
  <2>1. wy > 0
    BY <1>1, <1>2, <1>4, <1>5
  <2>2. uy * (vx * wy - vy * wx) = -(wy * (ux * vy - uy * vx))
    <3>1. uy * (vx * wy - vy * wx) = uy * vx * wy - vy * (uy * wx)
      BY <1>1
    <3>2. wy * (ux * vy - uy * vx) = vy * (ux * wy) - uy * vx * wy
      BY <1>1
    <3>3. vy * (ux * wy) = vy * (uy * wx)
      BY <1>4
    <3>4. QED
      BY <1>1, <3>1, <3>2, <3>3
  <2>3. wy * (ux * vy - uy * vx) > 0
    BY <1>1, <1>3, <2>1
  <2>4. uy * (vx * wy - vy * wx) >= 0
    BY <1>1, <1>3, <1>5, NonnegativeProduct
  <2>5. QED
    BY <1>1, <2>2, <2>3, <2>4
<1>6. CASE uy = 0
  <2>1. ux > 0 /\ ux * wy = 0
    BY <1>1, <1>2, <1>4, <1>6
  <2>2. wy = 0
    BY <1>1, <2>1
  <2>3. wx > 0
    BY <1>1, <1>2, <2>2
  <2>4. ux * vy > 0 /\ -(vy * wx) >= 0
    BY <1>1, <1>3, <1>6, <2>2
  <2>5. vy > 0
    BY <1>1, <2>1, <2>4
  <2>6. vy * wx > 0
    BY <1>1, <2>3, <2>5
  <2>7. QED
    BY <1>1, <2>4, <2>6
<1>7. QED
  BY <1>1, <1>2, <1>5, <1>6

(* On a ray: the point d is between o and k, dk / kk of the way.           *)
LEMMA OnSegment ==
  ASSUME NEW dx \in Int, NEW dy \in Int, NEW kx \in Int, NEW ky \in Int,
         dx * ky = dy * kx,
         dy > 0 \/ (dy = 0 /\ dx >= 0), ky > 0 \/ (ky = 0 /\ kx > 0),
         dx * dx + dy * dy <= kx * kx + ky * ky,
         NEW dk \in Int, dk = dx * kx + dy * ky,
         NEW kk \in Int, kk = kx * kx + ky * ky
  PROVE  /\ kk > 0 /\ dk >= 0 /\ dk <= kk
         /\ kk * dx = dk * kx /\ kk * dy = dk * ky
<1>1. kk > 0
  <2>1. kx * kx >= 0 /\ ky * ky >= 0
    OBVIOUS
  <2>2. CASE ky > 0
    <3>1. ky * ky > 0
      BY <2>2
    <3>2. QED
      BY <2>1, <3>1
  <2>3. CASE ky = 0 /\ kx > 0
    <3>1. kx * kx > 0
      BY <2>3
    <3>2. QED
      BY <2>1, <3>1
  <2>4. QED
    BY <2>2, <2>3
<1>2. kk * dx = dk * kx
  <2>1. kk * dx = kx * kx * dx + ky * (dx * ky)
    OBVIOUS
  <2>2. dk * kx = kx * kx * dx + ky * (dy * kx)
    OBVIOUS
  <2>3. ky * (dx * ky) = ky * (dy * kx)
    OBVIOUS
  <2>4. QED
    BY <2>1, <2>2, <2>3
<1>3. kk * dy = dk * ky
  <2>1. kk * dy = kx * (dy * kx) + ky * ky * dy
    OBVIOUS
  <2>2. dk * ky = kx * (dx * ky) + ky * ky * dy
    OBVIOUS
  <2>3. kx * (dx * ky) = kx * (dy * kx)
    OBVIOUS
  <2>4. QED
    BY <2>1, <2>2, <2>3
<1>4. dk >= 0
  <2>1. CASE ky > 0
    <3>1. kk * dy >= 0
      BY <1>1
    <3>2. ky * dk >= 0
      BY <1>3, <3>1
    <3>3. QED
      BY <2>1, <3>2, PositiveProduct
  <2>2. CASE ky = 0 /\ kx > 0
    <3>1. dy * kx = 0
      BY <2>2
    <3>2. dy = 0
      BY <2>2, <3>1
    <3>3. dx * kx >= 0
      BY <2>2, <3>2
    <3>4. QED
      BY <2>2, <3>2, <3>3
  <2>3. QED
    BY <2>1, <2>2
<1>5. dk <= kk
  <2> DEFINE dd == dx * dx + dy * dy
  <2>1. kk * dd = dk * dk
    <3>1. kk * dd = (kk * dx) * dx + (kk * dy) * dy
      OBVIOUS
    <3>2. (kk * dx) * dx + (kk * dy) * dy = (dk * kx) * dx + (dk * ky) * dy
      BY <1>2, <1>3
    <3>3. (dk * kx) * dx + (dk * ky) * dy = dk * (dx * kx + dy * ky)
      OBVIOUS
    <3>4. QED
      BY <3>1, <3>2, <3>3
  <2>2. dd \in Int /\ dd <= kk
    OBVIOUS
  <2> HIDE DEF dd
  <2>3. kk * (kk - dd) >= 0
    BY <1>1, <2>2, NonnegativeProduct
  <2>4. kk * (kk - dd) = kk * kk - kk * dd
    BY <2>2
  <2>5. dk * dk <= kk * kk
    BY <2>1, <2>2, <2>3, <2>4
  <2>6. SUFFICES ASSUME dk > kk PROVE FALSE
    OBVIOUS
  <2>7. dk * dk > kk * kk
    <3>1. dk * (dk - kk) > 0 /\ kk * (dk - kk) > 0
      BY <1>1, <2>6
    <3>2. dk * (dk - kk) = dk * dk - dk * kk /\ kk * (dk - kk) = kk * dk - kk * kk
      OBVIOUS
    <3>3. QED
      BY <3>1, <3>2
  <2>8. QED
    BY <2>5, <2>7
<1>6. QED
  BY <1>1, <1>2, <1>3, <1>4, <1>5

(* Such a point is to the left of every line that o and k are left of.     *)
LEMMA SegmentIsLeft ==
  ASSUME NEW o \in Plane, NEW d \in Plane, NEW p \in Plane,
         NEW e \in Plane, NEW f \in Plane,
         Above(o, d), Above(o, p), p # o, Cross(o, d, p) = 0,
         Hull!SquareDist(o, d) <= Hull!SquareDist(o, p),
         Hull!Orientation(e, f, o) <= 0, Hull!Orientation(e, f, p) <= 0
  PROVE  Hull!Orientation(e, f, d) <= 0
<1> DEFINE dx == d.x - o.x
           dy == d.y - o.y
           kx == p.x - o.x
           ky == p.y - o.y
           dk == dx * kx + dy * ky
           kk == kx * kx + ky * ky
           fx == f.x - e.x
           fy == f.y - e.y
           To(q) == Hull!Orientation(e, f, q)
<1>1. /\ dx \in Int /\ dy \in Int /\ kx \in Int /\ ky \in Int
      /\ fx \in Int /\ fy \in Int
      /\ To(o) \in Int /\ To(d) \in Int /\ To(p) \in Int
  BY DEF Plane, Hull!Orientation
<1>2. /\ dy > 0 \/ (dy = 0 /\ dx >= 0)
      /\ ky > 0 \/ (ky = 0 /\ kx > 0)
  BY DEF Plane, Above
<1>3. dx * ky - dy * kx = 0
  BY DEF Cross
<1>4. dx * dx + dy * dy <= kx * kx + ky * ky
  <2>1. /\ Hull!SquareDist(o, d) = dx * dx + dy * dy
        /\ Hull!SquareDist(o, p) = kx * kx + ky * ky
    BY DEF Plane, Hull!SquareDist
  <2>2. QED
    BY <2>1
<1>5. /\ To(d) = To(o) + (fy * dx - fx * dy)
      /\ To(p) = To(o) + (fy * kx - fx * ky)
  BY DEF Plane, Hull!Orientation
<1> HIDE DEF dx, dy, kx, ky, fx, fy
<1>6. dk \in Int /\ kk \in Int
  BY <1>1
<1>7. /\ kk > 0 /\ dk >= 0 /\ dk <= kk
      /\ kk * dx = dk * kx /\ kk * dy = dk * ky
  BY <1>1, <1>2, <1>3, <1>4, <1>6, OnSegment
<1> DEFINE s == To(o)
           t == To(d)
           u == To(p)
<1>8. s \in Int /\ t \in Int /\ u \in Int /\ s <= 0 /\ u <= 0
  BY <1>1
<1>9. t = s + (fy * dx - fx * dy) /\ u = s + (fy * kx - fx * ky)
  BY <1>5
<1> HIDE DEF dk, kk, s, t, u
<1>10. kk * t = (kk - dk) * s + dk * u
  <2>1. kk * t = kk * s + (fy * (kk * dx) - fx * (kk * dy))
    BY <1>1, <1>6, <1>8, <1>9
  <2>2. dk * u = dk * s + (fy * (dk * kx) - fx * (dk * ky))
    BY <1>1, <1>6, <1>8, <1>9
  <2>3. fy * (kk * dx) = fy * (dk * kx) /\ fx * (kk * dy) = fx * (dk * ky)
    BY <1>7
  <2>4. (kk - dk) * s = kk * s - dk * s
    BY <1>6, <1>8
  <2>5. QED
    BY <1>1, <1>6, <1>8, <2>1, <2>2, <2>3, <2>4
<1>11. (kk - dk) * (-s) >= 0 /\ dk * (-u) >= 0
  BY <1>6, <1>7, <1>8, NonnegativeProduct
<1>12. kk * (-t) = (kk - dk) * (-s) + dk * (-u)
  BY <1>6, <1>8, <1>10
<1>13. kk * (-t) >= 0
  BY <1>6, <1>8, <1>11, <1>12
<1>14. -t >= 0
  BY <1>6, <1>7, <1>8, <1>13, PositiveProduct
<1>15. QED
  BY <1>8, <1>14 DEF t

points == v2
hull == v3
USE DEF data, points, hull, next, phase

LEMMA HullPart ==
  /\ Init /\ part = "hull" => Hull!Init
  /\ [Next]_vars => /\ part' = part
                    /\ part = "hull" => [Hull!Next]_Hull!vars
  BY DEF Init, Next, vars, Hull!vars

LEMMA HullCardinalityIs == \A S : Hull!Cardinality(S) = Cardinality(S)
  BY DEF Hull!Cardinality, Cardinality

HullData == IsFiniteSet(data) /\ data # {} /\ data \subseteq Plane

(* The point d is on the segment from o to p.                              *)
Ray(o, p, d) ==
  /\ Above(o, d) /\ Above(o, p) /\ Cross(o, d, p) = 0
  /\ Hull!SquareDist(o, d) <= Hull!SquareDist(o, p)
  /\ p = o => d = o

(* The points after the first are in the order of their angles, no two of  *)
(* them at the same.                                                       *)
Fan(s) == \A i, j \in 2 .. Len(s) : i < j => Cross(s[1], s[i], s[j]) > 0

LEMMA FansAre ==
  ASSUME HullData, NEW s \in Hull!Fans
  PROVE  /\ s \in Seq(data) /\ Len(s) \in Nat \ {0} /\ DOMAIN s = 1 .. Len(s)
         /\ \A p \in data : \E i \in 1 .. Len(s) : s[i] = p
         /\ \A p \in data : Above(s[1], p)
         /\ \A i \in 2 .. Len(s) : s[i] # s[1]
         /\ \A i, j \in 2 .. Len(s) :
              i < j => /\ Cross(s[1], s[i], s[j]) >= 0
                       /\ Cross(s[1], s[i], s[j]) = 0 =>
                            Hull!SquareDist(s[1], s[i])
                              <= Hull!SquareDist(s[1], s[j])
<1> DEFINE N == Cardinality(data)
<1>1. N \in Nat \ {0}
  BY FS_CardinalityType, FS_EmptySet DEF HullData
<1>2. /\ s \in [1 .. N -> data]
      /\ Hull!IsInjective(s) /\ Hull!ToSet(s) = data /\ Hull!Lowest(s[1])
      /\ \A m, n \in DOMAIN s \ {1} :
           m < n => Hull!Before(s[1], s[m], s[n])
  BY HullCardinalityIs DEF Hull!Fans
<1> HIDE DEF N
<1>3. s \in Seq(data) /\ Len(s) = N /\ DOMAIN s = 1 .. N
  BY <1>1, <1>2
<1>4. \A p \in data : \E i \in 1 .. N : s[i] = p
  BY <1>2, <1>3 DEF Hull!ToSet
<1>5. \A p \in data : Above(s[1], p)
  BY <1>2 DEF Hull!Lowest, Above
<1>6. \A i \in 2 .. N : s[i] # s[1]
  BY <1>1, <1>2, <1>3 DEF Hull!IsInjective
<1>7. ASSUME NEW i \in 2 .. N, NEW j \in 2 .. N, i < j
      PROVE  /\ Cross(s[1], s[i], s[j]) >= 0
             /\ Cross(s[1], s[i], s[j]) = 0 =>
                  Hull!SquareDist(s[1], s[i]) <= Hull!SquareDist(s[1], s[j])
  <2>1. Hull!Before(s[1], s[i], s[j])
    BY <1>1, <1>2, <1>3, <1>7
  <2>2. /\ s[1] \in Plane /\ s[i] \in Plane /\ s[j] \in Plane
    BY <1>1, <1>2, <1>7 DEF HullData
  <2>3. Hull!Orientation(s[1], s[i], s[j]) = -Cross(s[1], s[i], s[j])
    BY <2>2, TurnIs, CrossType
  <2>4. /\ Cross(s[1], s[i], s[j]) \in Int
        /\ Hull!SquareDist(s[1], s[i]) \in Int
        /\ Hull!SquareDist(s[1], s[j]) \in Int
    BY <2>2 DEF Plane, Cross, Hull!SquareDist
  <2>5. QED
    BY <2>1, <2>3, <2>4 DEF Hull!Before, Hull!IsCCW, Hull!IsCollinear
<1>8. QED
  BY <1>1, <1>3, <1>4, <1>5, <1>6, <1>7

(* The last of the points at one angle is kept, and nothing else is.       *)
LEMMA FilterKeeps ==
  ASSUME HullData, points \in Hull!Fans, NEW s \in Hull!Kept,
         NEW kept, kept = [m \in DOMAIN s |-> points[s[m]]]
  PROVE  /\ kept \in Seq(data) /\ Len(kept) \in Nat \ {0}
         /\ DOMAIN kept = 1 .. Len(kept)
         /\ Fan(kept)
         /\ \A d \in data : \E m \in 1 .. Len(kept) : Ray(kept[1], kept[m], d)
<1> DEFINE N == Len(points)
           o == points[1]
           Outer == {i \in DOMAIN points : Hull!Outermost(i)}
           K == Cardinality(Outer)
<1>1. /\ points \in Seq(data) /\ N \in Nat \ {0} /\ DOMAIN points = 1 .. N
      /\ \A p \in data : \E i \in 1 .. N : points[i] = p
      /\ \A p \in data : Above(o, p)
      /\ \A i \in 2 .. N : points[i] # o
      /\ \A i, j \in 2 .. N :
           i < j => /\ Cross(o, points[i], points[j]) >= 0
                    /\ Cross(o, points[i], points[j]) = 0 =>
                         Hull!SquareDist(o, points[i])
                           <= Hull!SquareDist(o, points[j])
  BY FansAre
<1> HIDE DEF N
<1>2. \A i \in 1 .. N : points[i] \in data /\ points[i] \in Plane
  BY <1>1 DEF HullData
<1>3. o \in data /\ o \in Plane
  BY <1>1, <1>2
<1>4. ASSUME NEW i \in 1 .. N
      PROVE  i \in Outer <=>
               i = 1 \/ i = N \/ Cross(o, points[i], points[i + 1]) # 0
  <2> DEFINE Same == Hull!IsCollinear(o, points[i], points[i + 1])
  <2>0. i \in Outer <=> i = 1 \/ i = N \/ ~Same
    <3>1. i \in DOMAIN points
      BY <1>1
    <3>2. QED
      BY <3>1 DEF Hull!Outermost, N
  <2> HIDE DEF Same, Outer
  <2>1. CASE i = 1 \/ i = N
    BY <2>0, <2>1
  <2>2. CASE i # 1 /\ i # N
    <3>1. i + 1 \in 1 .. N
      BY <1>1, <2>2
    <3>2. /\ Hull!Orientation(o, points[i], points[i + 1])
               = -Cross(o, points[i], points[i + 1])
          /\ Cross(o, points[i], points[i + 1]) \in Int
      BY <1>2, <1>3, <3>1, TurnIs, CrossType
    <3>3. Same <=> Cross(o, points[i], points[i + 1]) = 0
      BY <3>2 DEF Same, Hull!IsCollinear
    <3>4. QED
      BY <2>0, <2>2, <3>3
  <2>3. QED
    BY <2>1, <2>2
<1>5. Outer \subseteq 1 .. N /\ 1 \in Outer /\ N \in Outer
  BY <1>1, <1>4
<1>6. K \in Nat
  <2>1. IsFiniteSet(1 .. N)
    BY <1>1, FS_Interval
  <2>2. QED
    BY <1>5, <2>1, FS_Subset, FS_CardinalityType
<1>7. /\ s \in [1 .. K -> Outer]
      /\ \A x \in Outer : \E m \in 1 .. K : s[m] = x
      /\ \A m, n \in 1 .. K : m < n => s[m] < s[n]
  <2> HIDE DEF Outer
  <2>1. /\ s \in [1 .. K -> Outer]
        /\ Hull!ToSet(s) = Outer
        /\ \A m, n \in DOMAIN s : m < n => s[m] < s[n]
    BY HullCardinalityIs DEF Hull!Kept, Outer
  <2> HIDE DEF K
  <2>2. QED
    BY <2>1 DEF Hull!ToSet
<1> HIDE DEF Outer, K
<1>8. \A m \in 1 .. K : s[m] \in Outer /\ s[m] \in 1 .. N /\ s[m] \in Nat
  <2>1. \A m \in 1 .. K : s[m] \in Outer
    BY <1>7
  <2>2. \A x \in 1 .. N : x \in Nat
    BY <1>1
  <2>3. \A x \in Outer : x \in 1 .. N
    BY <1>5
  <2>4. QED
    BY <2>1, <2>2, <2>3
<1>9. K > 0 /\ s[1] = 1
  <2>1. PICK m \in 1 .. K : s[m] = 1
    BY <1>5, <1>7
  <2>2. 1 \in 1 .. K
    BY <1>6, <2>1
  <2>3. m > 1 => s[1] < 1
    BY <1>7, <2>1, <2>2
  <2>4. s[1] \in 1 .. N
    BY <1>8, <2>2
  <2>5. QED
    BY <1>1, <1>6, <2>1, <2>2, <2>3, <2>4
<1>10. /\ DOMAIN kept = 1 .. K
       /\ \A m \in 1 .. K : kept[m] = points[s[m]] /\ kept[m] \in data
  BY <1>2, <1>7, <1>8
<1>11. kept \in Seq(data) /\ Len(kept) = K /\ kept[1] = o
  <2>1. kept = [m \in 1 .. K |-> points[s[m]]]
    BY <1>7
  <2>2. QED
    BY <1>6, <1>9, <1>10, <2>1
<1>12. ASSUME NEW i \in 2 .. K, NEW j \in 2 .. K, i < j
       PROVE  Cross(o, kept[i], kept[j]) > 0
  <2> DEFINE a == s[i]
             b == s[j]
  <2>1. a \in 2 .. N /\ b \in 2 .. N /\ a < b /\ a \in Outer
    <3>1. 1 \in 1 .. K /\ i \in 1 .. K /\ j \in 1 .. K /\ 1 < i
      BY <1>6, <1>9
    <3>2. s[1] < s[i] /\ s[i] < s[j]
      BY <1>7, <1>12, <3>1
    <3>3. QED
      BY <1>1, <1>8, <1>9, <3>1, <3>2
  <2>2. kept[i] = points[a] /\ kept[j] = points[b]
    BY <1>6, <1>10
  <2> HIDE DEF a, b
  <2>3. a + 1 \in 2 .. N /\ a < a + 1 /\ a # 1 /\ a # N
    BY <1>1, <2>1
  <2>4. Cross(o, points[a], points[a + 1]) # 0
    BY <1>1, <1>4, <2>1, <2>3
  <2>5. Cross(o, points[a], points[a + 1]) >= 0
    BY <1>1, <2>1, <2>3
  <2>6. /\ points[a] \in Plane /\ points[a + 1] \in Plane
        /\ points[b] \in Plane
        /\ Above(o, points[a]) /\ Above(o, points[b])
        /\ points[a] # o /\ points[b] # o
    BY <1>1, <1>2, <2>1, <2>3
  <2>7. /\ Cross(o, points[a], points[a + 1]) \in Int
        /\ Cross(o, points[a], points[a + 1]) > 0
    BY <1>3, <2>4, <2>5, <2>6, CrossType
  <2>8. CASE b = a + 1
    BY <2>2, <2>7, <2>8
  <2>9. CASE b # a + 1
    <3>1. a + 1 < b
      BY <1>1, <2>1, <2>9
    <3>2. /\ Cross(o, points[a + 1], points[b]) >= 0
          /\ Cross(o, points[a], points[b]) >= 0
      BY <1>1, <2>1, <2>3, <3>1
    <3>3. QED
      BY <1>3, <2>2, <2>6, <2>7, <3>2, StrictlyBefore
  <2>10. QED
    BY <2>8, <2>9
<1>13. ASSUME NEW d \in data
       PROVE  \E m \in 1 .. K : Ray(o, kept[m], d)
  <2>1. PICK i \in 1 .. N : points[i] = d
    BY <1>1
  <2>2. d \in Plane /\ Above(o, d) /\ Above(o, o)
    BY <1>1, <1>3 DEF HullData
  <2>3. CASE i = 1
    <3>1. Cross(o, d, o) = 0
      BY <1>3, <2>2, CrossType
    <3>2. Hull!SquareDist(o, o) <= Hull!SquareDist(o, o)
      <4>1. Hull!SquareDist(o, o) \in Int
        BY <1>3 DEF Plane, Hull!SquareDist
      <4>2. QED
        BY <4>1
    <3>3. Ray(o, o, d)
      BY <2>1, <2>2, <2>3, <3>1, <3>2 DEF Ray
    <3>4. QED
      BY <1>6, <1>9, <1>11, <3>3
  <2>4. CASE i # 1
    <3> DEFINE J == {l \in i .. N : Cross(o, d, points[l]) = 0}
               Back == {N - l : l \in J}
    <3>1. i \in 2 .. N
      BY <1>1, <2>4
    <3>2. i \in J
      BY <1>1, <1>3, <2>1, <2>2, CrossType
    <3>3. Back \in SUBSET Nat /\ Back # {}
      BY <1>1, <3>2
    <3>4. PICK n \in Back : \A m \in Back : n <= m
      BY <3>3, LeastElement
    <3>5. PICK j \in J : n = N - j
      BY <3>4
    <3>6. j \in i .. N /\ Cross(o, d, points[j]) = 0 /\ j \in 2 .. N
      BY <1>1, <3>1, <3>5
    <3>7. j < N => Cross(o, d, points[j + 1]) # 0
      <4> SUFFICES ASSUME j < N, Cross(o, d, points[j + 1]) = 0 PROVE FALSE
        OBVIOUS
      <4>1. j + 1 \in J
        BY <1>1, <3>1, <3>6, SMTT(30)
      <4>2. N - (j + 1) \in Back
        BY <4>1
      <4>3. n <= N - (j + 1)
        BY <3>4, <4>2
      <4>4. QED
        BY <1>1, <3>5, <3>6, <4>3
    <3> HIDE DEF J, Back
    <3>8. j \in Outer
      <4> SUFFICES ASSUME j # N, Cross(o, points[j], points[j + 1]) = 0
                   PROVE  FALSE
        BY <1>1, <1>4, <3>6
      <4>1. j < N /\ j + 1 \in 1 .. N
        BY <1>1, <3>6
      <4>2. Cross(o, d, points[j + 1]) = 0
        BY <1>1, <1>2, <1>3, <2>2, <3>6, <4>1, CollinearTransitive
      <4>3. QED
        BY <3>7, <4>1, <4>2
    <3>9. Hull!SquareDist(o, d) <= Hull!SquareDist(o, points[j])
      <4>1. CASE i = j
        <5>1. Hull!SquareDist(o, d) \in Int
          BY <1>3, <2>2 DEF Plane, Hull!SquareDist
        <5>2. QED
          BY <2>1, <4>1, <5>1
      <4>2. CASE i # j
        <5>1. i < j
          BY <1>1, <3>1, <3>6, <4>2
        <5>2. QED
          BY <1>1, <2>1, <3>1, <3>6, <5>1
      <4>3. QED
        BY <4>1, <4>2
    <3>10. Ray(o, points[j], d)
      BY <1>1, <1>2, <2>2, <3>6, <3>9 DEF Ray
    <3>11. PICK m \in 1 .. K : s[m] = j
      BY <1>7, <3>8
    <3>12. QED
      BY <1>10, <3>10, <3>11
  <2>5. QED
    BY <2>3, <2>4
<1>14. Fan(kept)
  <2>1. Len(kept) = K /\ kept[1] = o
    BY <1>11
  <2>2. QED
    BY <1>12, <2>1 DEF Fan
<1>15. QED
  <2>1. /\ kept \in Seq(data) /\ DOMAIN kept = 1 .. Len(kept)
        /\ Len(kept) = K /\ K \in Nat \ {0}
    BY <1>6, <1>9, <1>10, <1>11
  <2>2. \A d \in data : \E m \in 1 .. Len(kept) : Ray(kept[1], kept[m], d)
    BY <1>11, <1>13
  <2>3. QED
    BY <1>14, <2>1, <2>2

LeftOf(e, f, p) == Hull!Orientation(e, f, p) <= 0

(* All points are in every half-plane that those that were kept are in.    *)
Covered ==
  \A d \in data : \A e, f \in Plane :
    (\A i \in 1 .. Len(points) : LeftOf(e, f, points[i])) => LeftOf(e, f, d)

(* The stack is a chain of points, numbered g, that turns left at each of  *)
(* them.  The points before the one that is next are to the left of its    *)
(* edges, and of the edge from its end to that one.                        *)
Chain(g) ==
  /\ hull \in Seq(data) /\ Len(hull) >= 2
  /\ next \in Nat /\ next <= Len(points) + 1
  /\ g \in [1 .. Len(hull) -> 1 .. next - 1]
  /\ g[1] = 1 /\ g[2] = 2
  /\ \A i, j \in 1 .. Len(hull) : i < j => g[i] < g[j]
  /\ \A i \in 1 .. Len(hull) : hull[i] = points[g[i]]
  /\ \A i \in 1 .. Len(hull) - 2 : Hull!IsCCW(hull[i], hull[i + 1], hull[i + 2])
  /\ \A i \in 1 .. Len(hull) - 1 : \A j \in 1 .. next - 1 :
       LeftOf(hull[i], hull[i + 1], points[j])
  /\ \A j \in 1 .. next - 1 :
       j > g[Len(hull)] => /\ next <= Len(points)
                           /\ LeftOf(hull[Len(hull)], points[next], points[j])

ScanInv ==
  /\ points \in Seq(data) /\ Len(points) >= 3
  /\ Fan(points)
  /\ Covered
  /\ \E g : Chain(g)

HullInv ==
  /\ HullData
  /\ phase \in {"initialize", "filter", "scan", "some", "none"}
  /\ phase = "filter" => points \in Hull!Fans
  /\ phase = "none" => \A p, q, r \in data : Hull!IsCollinear(p, q, r)
  /\ phase \in {"scan", "some"} => ScanInv
  /\ phase = "some" => next > Len(points)

LEMMA HullInit == Hull!Init => HullInv
  BY HullAssumption DEF Hull!Init, HullInv, HullData, Plane

LEMMA InitializeStep ==
  ASSUME HullInv, Hull!Initialize
  PROVE  HullInv'
<1>1. /\ phase = "initialize" /\ phase' = "filter" /\ UNCHANGED data
      /\ points' \in Hull!Fans
  BY DEF Hull!Initialize
<1>2. Hull!Fans' = Hull!Fans
  BY <1>1 DEF Hull!Fans, Hull!Lowest
<1>3. QED
  BY <1>1, <1>2 DEF HullInv, HullData

(* What is on a ray is to the left of what its ends are left of.           *)
LEMMA RaysAreLeft ==
  ASSUME NEW o \in Plane, NEW p \in Plane, NEW d \in Plane, Ray(o, p, d),
         NEW e \in Plane, NEW f \in Plane, LeftOf(e, f, o), LeftOf(e, f, p)
  PROVE  LeftOf(e, f, d)
<1>1. CASE p = o
  BY <1>1 DEF Ray
<1>2. CASE p # o
  BY <1>2, SegmentIsLeft DEF Ray, LeftOf
<1>3. QED
  BY <1>1, <1>2

LEMMA FilterStep ==
  ASSUME HullInv, Hull!Filter
  PROVE  HullInv'
<1>1. /\ phase = "filter" /\ UNCHANGED data /\ points \in Hull!Fans
      /\ HullData /\ HullData'
  BY DEF Hull!Filter, HullInv, HullData
<1>2. PICK s \in Hull!Kept : points' = [m \in DOMAIN s |-> points[s[m]]]
  BY DEF Hull!Filter
<1>3. /\ points' \in Seq(data) /\ Len(points') \in Nat \ {0}
      /\ DOMAIN points' = 1 .. Len(points')
      /\ Fan(points')
      /\ \A d \in data :
           \E m \in 1 .. Len(points') : Ray(points'[1], points'[m], d)
  BY <1>1, <1>2, FilterKeeps
<1> DEFINE N == Len(points')
           o == points'[1]
<1>4. \A i \in 1 .. N : points'[i] \in data /\ points'[i] \in Plane
  BY <1>1, <1>3 DEF HullData
<1>5. o \in Plane /\ N \in Nat \ {0}
  BY <1>3, <1>4
<1>6. CASE N < 3
  <2>1. phase' = "none"
    BY <1>6 DEF Hull!Filter
  <2> DEFINE w == points'[N]
  <2>2. w \in Plane
    BY <1>4, <1>5
  <2>3. ASSUME NEW d \in data PROVE d = o \/ (w # o /\ Cross(o, d, w) = 0)
    <3>1. PICK m \in 1 .. N : Ray(o, points'[m], d)
      BY <1>3
    <3>2. m = 1 \/ m = N
      BY <1>5, <1>6
    <3>3. CASE points'[m] = o
      BY <3>1, <3>3 DEF Ray
    <3>4. CASE points'[m] # o
      BY <3>1, <3>2, <3>4 DEF Ray
    <3>5. QED
      BY <3>3, <3>4
  <2> HIDE DEF o, w, N
  <2>4. \A d \in data : d \in Plane
    BY <1>1 DEF HullData
  <2>5. ASSUME NEW p \in data, NEW q \in data PROVE Cross(o, p, q) = 0
    <3>1. p \in Plane /\ q \in Plane
      BY <2>4
    <3>2. CASE p = o \/ q = o
      BY <1>5, <3>1, <3>2, CrossType
    <3>3. CASE p # o /\ q # o
      <4>1. w # o /\ Cross(o, p, w) = 0 /\ Cross(o, q, w) = 0
        BY <2>3, <3>3
      <4>2. /\ Cross(o, q, w) = -Cross(o, w, q)
            /\ Cross(o, w, q) \in Int
        BY <1>5, <2>2, <3>1, CrossType
      <4>3. Cross(o, w, q) = 0
        BY <4>1, <4>2
      <4>4. QED
        BY <1>5, <2>2, <3>1, <4>1, <4>3, CollinearTransitive
    <3>4. QED
      BY <3>2, <3>3
  <2>6. \A p, q, r \in data : Hull!IsCollinear(p, q, r)
    <3> SUFFICES ASSUME NEW p \in data, NEW q \in data, NEW r \in data
                 PROVE  Hull!IsCollinear(p, q, r)
      OBVIOUS
    <3>1. Hull!Orientation(p, q, r)
            = Cross(o, p, r) - Cross(o, p, q) - Cross(o, q, r)
      BY <1>5, <2>4, TurnIs
    <3>2. QED
      BY <2>5, <3>1 DEF Hull!IsCollinear
  <2>7. QED
    BY <1>1, <2>1, <2>6 DEF HullInv, Hull!IsCollinear, Hull!Orientation
<1>7. CASE N >= 3
  <2>1. /\ phase' = "scan" /\ next' = 4
        /\ hull' = <<points'[1], points'[2], points'[3]>>
    BY <1>5, <1>7 DEF Hull!Filter
  <2> DEFINE a == points'[2]
             b == points'[3]
             g == [i \in 1 .. 3 |-> i]
  <2>2. o \in data /\ a \in data /\ b \in data /\ a \in Plane /\ b \in Plane
    BY <1>4, <1>5, <1>7
  <2>3. Cross(o, a, b) > 0
    BY <1>3, <1>5, <1>7 DEF Fan
  <2>4. /\ hull' \in Seq(data) /\ Len(hull') = 3
        /\ hull'[1] = o /\ hull'[2] = a /\ hull'[3] = b
    BY <2>1, <2>2
  <2>5. Covered'
    <3> SUFFICES ASSUME NEW d \in data, NEW e \in Plane, NEW f \in Plane,
                        \A i \in 1 .. N : LeftOf(e, f, points'[i])
                 PROVE  LeftOf(e, f, d)
      BY <1>1 DEF Covered, LeftOf, Hull!Orientation
    <3>1. PICK m \in 1 .. N : Ray(o, points'[m], d)
      BY <1>3
    <3>2. LeftOf(e, f, o) /\ LeftOf(e, f, points'[m])
      BY <1>5
    <3>3. d \in Plane /\ points'[m] \in Plane
      BY <1>1, <1>4 DEF HullData
    <3>4. QED
      BY <1>5, <3>1, <3>2, <3>3, RaysAreLeft
  <2>6. /\ Hull!Orientation(o, a, b) < 0
        /\ \A q \in {o, a, b} : LeftOf(o, a, q) /\ LeftOf(a, b, q)
    <3>1. Cross(o, a, b) \in Int
      BY <1>5, <2>2, CrossType
    <3>2. /\ Hull!Orientation(o, a, o) = 0 /\ Hull!Orientation(o, a, a) = 0
          /\ Hull!Orientation(o, a, b) = -Cross(o, a, b)
          /\ Hull!Orientation(a, b, o) = -Cross(o, a, b)
          /\ Hull!Orientation(a, b, a) = 0 /\ Hull!Orientation(a, b, b) = 0
      BY <1>5, <2>2, <3>1, TurnIs, CrossType, SMTT(30)
    <3>3. QED
      BY <2>3, <3>1, <3>2 DEF LeftOf
  <2> HIDE DEF o, a, b, N
  <2>7. Chain(g)'
    <3>1. g' = g /\ g \in [1 .. 3 -> 1 .. 3] /\ g[1] = 1 /\ g[2] = 2 /\ g[3] = 3
      OBVIOUS
    <3>2. /\ points'[1] = o /\ points'[2] = a /\ points'[3] = b
          /\ Len(points') = N
      BY DEF o, a, b, N
    <3>3. \A i \in 1 .. 3 : i = 1 \/ i = 2 \/ i = 3
      OBVIOUS
    <3>4. \A i \in 1 .. 3 : hull'[i] = points'[g[i]]
      BY <2>4, <3>2, <3>3
    <3>5. ASSUME NEW i \in 1 .. 2, NEW j \in 1 .. 3
          PROVE  LeftOf(hull'[i], hull'[i + 1], points'[j])
      <4>1. points'[j] \in {o, a, b}
        BY <3>2, <3>3
      <4>2. (hull'[i] = o /\ hull'[i + 1] = a) \/ (hull'[i] = a /\ hull'[i + 1] = b)
        BY <2>4
      <4>3. QED
        BY <2>6, <4>1, <4>2
    <3>6. Hull!IsCCW(o, a, b)
      BY <2>6 DEF Hull!IsCCW
    <3>7. QED
      BY <1>1, <1>5, <1>7, <2>1, <2>4, <3>1, <3>2, <3>4, <3>5, <3>6
      DEF Chain, LeftOf, Hull!Orientation, Hull!IsCCW
  <2>8. Fan(points)'
    BY <1>3 DEF Fan, Cross
  <2>9. ScanInv'
    BY <1>1, <1>3, <1>7, <2>5, <2>7, <2>8 DEF ScanInv, N
  <2>10. QED
    BY <1>1, <2>1, <2>9 DEF HullInv
<1>8. QED
  BY <1>5, <1>6, <1>7

(* Crosses of the points and of the one that is next, as Fan has them.     *)
LEMMA FanCrosses ==
  ASSUME HullData, points \in Seq(data), Len(points) >= 3, Fan(points)
  PROVE  /\ Len(points) \in Nat /\ DOMAIN points = 1 .. Len(points)
         /\ points[1] \in Plane
         /\ \A i \in 1 .. Len(points) : points[i] \in data /\ points[i] \in Plane
         /\ \A i, j \in 1 .. Len(points) :
              /\ Cross(points[1], points[i], points[j]) \in Int
              /\ i < j /\ i > 1 => Cross(points[1], points[i], points[j]) > 0
              /\ i <= j => Cross(points[1], points[i], points[j]) >= 0
<1>1. /\ Len(points) \in Nat /\ DOMAIN points = 1 .. Len(points)
      /\ \A i \in 1 .. Len(points) : points[i] \in data
  OBVIOUS
<1>2. \A i \in 1 .. Len(points) : points[i] \in Plane
  BY <1>1 DEF HullData
<1>3. points[1] \in Plane
  BY <1>1, <1>2
<1>4. ASSUME NEW i \in 1 .. Len(points), NEW j \in 1 .. Len(points)
      PROVE  /\ Cross(points[1], points[i], points[j]) \in Int
             /\ i < j /\ i > 1 => Cross(points[1], points[i], points[j]) > 0
             /\ i <= j => Cross(points[1], points[i], points[j]) >= 0
  <2>1. Cross(points[1], points[i], points[j]) \in Int
    BY <1>2, <1>3, CrossType
  <2>2. i < j /\ i > 1 => Cross(points[1], points[i], points[j]) > 0
    BY <1>1 DEF Fan
  <2>3. i = 1 \/ i = j => Cross(points[1], points[i], points[j]) = 0
    BY <1>2, <1>3, CrossType
  <2>4. QED
    BY <1>1, <2>1, <2>2, <2>3
<1>5. QED
  BY <1>1, <1>2, <1>3, <1>4

(* What Chain says of a turn, in crosses.                                  *)
LEMMA TurnsAre ==
  ASSUME NEW o \in Plane, NEW p \in Plane, NEW q \in Plane, NEW r \in Plane
  PROVE  /\ Hull!IsCCW(p, q, r) <=>
              Cross(o, p, q) + Cross(o, q, r) > Cross(o, p, r)
         /\ LeftOf(p, q, r) <=>
              Cross(o, p, q) + Cross(o, q, r) >= Cross(o, p, r)
         /\ Cross(o, p, q) \in Int /\ Cross(o, q, r) \in Int
         /\ Cross(o, p, r) \in Int
<1>1. /\ Cross(o, p, q) \in Int /\ Cross(o, q, r) \in Int
      /\ Cross(o, p, r) \in Int
  BY CrossType
<1>2. Hull!Orientation(p, q, r)
        = Cross(o, p, r) - Cross(o, p, q) - Cross(o, q, r)
  BY TurnIs
<1>3. QED
  BY <1>1, <1>2 DEF Hull!IsCCW, LeftOf

LEMMA PopStep ==
  ASSUME HullInv, Hull!Pop
  PROVE  HullInv'
<1>1. /\ phase = "scan" /\ phase' = phase /\ next <= Len(points)
      /\ UNCHANGED <<data, points, next>>
      /\ Hull!Backtracks /\ hull' = SubSeq(hull, 1, Len(hull) - 1)
  BY DEF Hull!Pop, Hull!Front
<1>2. HullData /\ ScanInv
  BY <1>1 DEF HullInv
<1>3. PICK g : Chain(g)
  BY <1>2 DEF ScanInv
<1> DEFINE N == Len(points)
           M == Len(hull)
           n == next
           o == points[1]
<1>4. /\ N \in Nat /\ DOMAIN points = 1 .. N /\ o \in Plane
      /\ \A i \in 1 .. N : points[i] \in data /\ points[i] \in Plane
      /\ \A i, j \in 1 .. N :
              /\ Cross(o, points[i], points[j]) \in Int
              /\ i < j /\ i > 1 => Cross(o, points[i], points[j]) > 0
              /\ i <= j => Cross(o, points[i], points[j]) >= 0
  BY <1>2, FanCrosses DEF ScanInv
<1>5. /\ hull \in Seq(data) /\ M \in Nat /\ M >= 2 /\ n \in Nat /\ n <= N
      /\ g \in [1 .. M -> 1 .. n - 1]
      /\ g[1] = 1 /\ g[2] = 2
      /\ \A i, j \in 1 .. M : i < j => g[i] < g[j]
      /\ \A i \in 1 .. M : hull[i] = points[g[i]]
      /\ \A i \in 1 .. M - 1 : \A j \in 1 .. n - 1 :
           LeftOf(hull[i], hull[i + 1], points[j])
      /\ \A j \in 1 .. n - 1 :
           j > g[M] => LeftOf(hull[M], points[n], points[j])
  BY <1>1, <1>3 DEF Chain
<1>6. \A i \in 1 .. M - 2 : Hull!IsCCW(hull[i], hull[i + 1], hull[i + 2])
  BY <1>3 DEF Chain
<1>7. ~Hull!IsCCW(hull[M - 1], hull[M], points[n])
  BY <1>1 DEF Hull!Backtracks, Hull!Last
<1> HIDE DEF N, M, n, o
<1>8. M # 2
  <2> SUFFICES ASSUME M = 2 PROVE FALSE
    OBVIOUS
  <2>1. hull[M - 1] = o /\ hull[M] = points[2] /\ g[2] \in 1 .. n - 1
    BY <1>5 DEF o
  <2>2. 2 \in 1 .. N /\ n \in 1 .. N /\ 2 < n
    BY <1>4, <1>5, <2>1
  <2>3. Cross(o, points[2], points[n]) > 0
    BY <1>4, <2>2
  <2>4. /\ points[2] \in Plane /\ points[n] \in Plane
        /\ Cross(o, points[2], points[n]) \in Int
    BY <1>4, <2>2
  <2>5. Cross(o, o, points[2]) = 0 /\ Cross(o, o, points[n]) = 0
    BY <1>4, <2>4, CrossType
  <2>6. Hull!IsCCW(o, points[2], points[n])
    <3>1. Hull!IsCCW(o, points[2], points[n]) <=>
            Cross(o, o, points[2]) + Cross(o, points[2], points[n])
              > Cross(o, o, points[n])
      BY <1>4, <2>4, TurnsAre
    <3>2. QED
      BY <2>3, <2>4, <2>5, <3>1
  <2>7. QED
    BY <1>7, <2>1, <2>6
<1>9. /\ M - 1 \in 1 .. M /\ M \in 1 .. M /\ 2 \in 1 .. M
      /\ M - 1 \in 1 .. M - 1 /\ M - 1 >= 2 /\ M - 1 \in Nat
  BY <1>5, <1>8
<1> DEFINE ga == g[M - 1]
           gb == g[M]
           a == hull[M - 1]
           b == hull[M]
           p == points[n]
<1>10. /\ ga \in 2 .. n - 1 /\ gb \in 2 .. n - 1 /\ ga < gb /\ n \in 1 .. N
       /\ ga \in 1 .. N /\ gb \in 1 .. N
       /\ a = points[ga] /\ b = points[gb]
  <2>1. ga \in 1 .. n - 1 /\ gb \in 1 .. n - 1 /\ ga < gb
    BY <1>5, <1>9
  <2>2. ga >= 2
    <3>1. M - 1 = 2 => ga = 2
      BY <1>5
    <3>2. M - 1 > 2 => 2 < ga
      <4>1. \A i, j \in 1 .. M : i < j => g[i] < g[j]
        BY <1>5
      <4>2. 2 < M - 1 => g[2] < ga
        BY <1>9, <4>1
      <4>3. QED
        BY <1>5, <1>9, <4>2
    <3>3. M - 1 = 2 \/ M - 1 > 2
      BY <1>9
    <3>4. ga \in Nat
      BY <1>5, <2>1
    <3> HIDE DEF ga
    <3>5. QED
      BY <3>1, <3>2, <3>3, <3>4
  <2>3. a = points[ga] /\ b = points[gb]
    BY <1>5, <1>9
  <2> HIDE DEF ga, gb, a, b
  <2>4. QED
    BY <1>4, <1>5, <2>1, <2>2, <2>3
<1> HIDE DEF ga, gb, a, b, p
<1>11. /\ a \in Plane /\ b \in Plane /\ p \in Plane
       /\ Cross(o, a, b) > 0 /\ Cross(o, a, p) > 0 /\ Cross(o, b, p) > 0
       /\ Cross(o, a, b) \in Int /\ Cross(o, a, p) \in Int
       /\ Cross(o, b, p) \in Int
  <2>1. p = points[n]
    BY DEF p
  <2>2. a \in Plane /\ b \in Plane /\ p \in Plane
    BY <1>4, <1>10, <2>1
  <2>3. ga > 1 /\ gb > 1 /\ ga < gb /\ gb < n /\ ga < n
    BY <1>5, <1>10
  <2>4. QED
    BY <1>4, <1>10, <2>1, <2>2, <2>3
<1>12. Cross(o, a, b) + Cross(o, b, p) <= Cross(o, a, p)
  <2>1. Hull!IsCCW(a, b, p) <=>
          Cross(o, a, b) + Cross(o, b, p) > Cross(o, a, p)
    BY <1>4, <1>11, TurnsAre
  <2>2. ~Hull!IsCCW(a, b, p)
    BY <1>7 DEF a, b, p
  <2>3. QED
    BY <1>11, <2>1, <2>2
<1>13. ASSUME NEW j \in 1 .. n - 1, j > ga
       PROVE  LeftOf(a, p, points[j])
  <2> DEFINE z == points[j]
  <2>1. j \in 1 .. N /\ j \in Nat /\ z \in Plane
    BY <1>4, <1>5
  <2>2. /\ Cross(o, a, z) \in Int /\ Cross(o, z, b) \in Int
        /\ Cross(o, z, p) \in Int /\ Cross(o, b, z) \in Int
        /\ Cross(o, p, z) \in Int
        /\ Cross(o, b, z) = -Cross(o, z, b) /\ Cross(o, p, z) = -Cross(o, z, p)
    BY <1>4, <1>11, <2>1, CrossType
  <2>3. Cross(o, a, z) >= 0 /\ Cross(o, z, p) >= 0
    BY <1>4, <1>5, <1>10, <1>13, <2>1 DEF p
  <2>4. SUFFICES Cross(o, a, p) - Cross(o, z, p) - Cross(o, a, z) >= 0
    <3>1. LeftOf(a, p, z) <=>
            Cross(o, a, p) + Cross(o, p, z) >= Cross(o, a, z)
      BY <1>4, <1>11, <2>1, TurnsAre
    <3> HIDE DEF z
    <3>2. QED
      BY <1>11, <2>2, <3>1 DEF z
  <2>5. CASE j <= gb
    <3>1. LeftOf(a, b, z)
      BY <1>5, <1>9 DEF a, b
    <3>2. Cross(o, a, b) - Cross(o, z, b) - Cross(o, a, z) >= 0
      <4>1. LeftOf(a, b, z) <=>
              Cross(o, a, b) + Cross(o, b, z) >= Cross(o, a, z)
        BY <1>4, <1>11, <2>1, TurnsAre
      <4> HIDE DEF z
      <4>2. QED
        BY <1>11, <2>2, <3>1, <4>1
    <3>3. Cross(o, z, p) * Cross(o, a, b)
            = Cross(o, z, b) * Cross(o, a, p) + Cross(o, a, z) * Cross(o, b, p)
      <4>1. Cross(o, a, z) * Cross(o, b, p) + Cross(o, a, p) * Cross(o, z, b)
              = Cross(o, a, b) * Cross(o, z, p)
        BY <1>4, <1>11, <2>1, CrossesOfFour
      <4>2. QED
        BY <1>11, <2>2, <4>1
    <3> HIDE DEF z
    <3>4. QED
      BY <1>11, <1>12, <2>2, <2>3, <3>2, <3>3, LeftOfShortcutBefore
  <2>6. CASE j > gb
    <3>1. LeftOf(b, p, z)
      BY <1>5, <2>6 DEF b, p, gb
    <3>2. Cross(o, b, p) - Cross(o, z, p) - Cross(o, b, z) >= 0
      <4>1. LeftOf(b, p, z) <=>
              Cross(o, b, p) + Cross(o, p, z) >= Cross(o, b, z)
        BY <1>4, <1>11, <2>1, TurnsAre
      <4> HIDE DEF z
      <4>2. QED
        BY <1>11, <2>2, <3>1, <4>1
    <3>3. Cross(o, a, b) * Cross(o, z, p) + Cross(o, a, p) * Cross(o, b, z)
            = Cross(o, a, z) * Cross(o, b, p)
      BY <1>4, <1>11, <2>1, CrossesOfFour
    <3> HIDE DEF z
    <3>4. QED
      BY <1>11, <1>12, <2>2, <2>3, <3>2, <3>3, LeftOfShortcutBehind
  <2>7. QED
    BY <1>10, <2>1, <2>5, <2>6
<1>14. /\ hull' \in Seq(data) /\ Len(hull') = M - 1
       /\ \A i \in 1 .. M - 1 : hull'[i] = hull[i]
  BY <1>1, <1>5, <1>9 DEF M
<1>15. \E f : Chain(f)'
  <2>1. ASSUME NEW f, f = [i \in 1 .. M - 1 |-> g[i]]
        PROVE  Chain(f)'
    <3>1. /\ f \in [1 .. M - 1 -> 1 .. n - 1]
          /\ \A i \in 1 .. M - 1 : f[i] = g[i] /\ i \in 1 .. M
          /\ f[1] = 1 /\ f[2] = 2 /\ f[M - 1] = ga
      BY <1>5, <1>9, <2>1 DEF ga
    <3>2. \A i, j \in 1 .. M - 1 : i < j => f[i] < f[j]
      BY <1>5, <3>1
    <3>3. \A i \in 1 .. M - 1 : hull'[i] = points[f[i]]
      BY <1>5, <1>14, <3>1
    <3>4. \A i \in 1 .. M - 3 :
            Hull!IsCCW(hull'[i], hull'[i + 1], hull'[i + 2])
      BY <1>6, <1>9, <1>14
    <3>5. \A i \in 1 .. M - 2 : \A j \in 1 .. n - 1 :
            LeftOf(hull'[i], hull'[i + 1], points[j])
      BY <1>5, <1>9, <1>14
    <3>6. \A j \in 1 .. n - 1 :
            j > f[M - 1] => LeftOf(hull'[M - 1], points[n], points[j])
      BY <1>9, <1>13, <1>14, <3>1 DEF a, p
    <3>7. M - 1 - 2 = M - 3 /\ M - 1 - 1 = M - 2
      BY <1>5
    <3>8. /\ next' = n /\ next' \in Nat /\ next' <= Len(points')
          /\ points' = points
      BY <1>1, <1>5 DEF n, N
    <3>9. /\ hull' \in Seq(data') /\ Len(hull') >= 2
          /\ next' \in Nat /\ next' <= Len(points') + 1
      BY <1>1, <1>9, <1>14, <3>8
    <3>10. /\ f \in [1 .. Len(hull') -> 1 .. next' - 1]
           /\ \A i, j \in 1 .. Len(hull') : i < j => f[i] < f[j]
           /\ \A i \in 1 .. Len(hull') : hull'[i] = points'[f[i]]
      BY <1>14, <3>1, <3>2, <3>3, <3>8
    <3>11. \A i \in 1 .. Len(hull') - 2 :
             Hull!IsCCW(hull'[i], hull'[i + 1], hull'[i + 2])
      BY <1>14, <3>4, <3>7
    <3>12. \A i \in 1 .. Len(hull') - 1 : \A j \in 1 .. next' - 1 :
             LeftOf(hull'[i], hull'[i + 1], points'[j])
      BY <1>14, <3>5, <3>7, <3>8
    <3>13. \A j \in 1 .. next' - 1 :
             j > f[Len(hull')] =>
               /\ next' <= Len(points')
               /\ LeftOf(hull'[Len(hull')], points'[next'], points'[j])
      BY <1>14, <3>6, <3>8
    <3>14. QED
      BY <3>1, <3>9, <3>10, <3>11, <3>12, <3>13
      DEF Chain, LeftOf, Hull!IsCCW, Hull!Orientation
  <2>2. QED
    BY <2>1
<1>16. Fan(points)' /\ Covered'
  BY <1>1, <1>2 DEF ScanInv, Fan, Cross, Covered, LeftOf, Hull!Orientation
<1>17. QED
  BY <1>1, <1>2, <1>15, <1>16 DEF HullInv, HullData, ScanInv


(* What the proofs of the scan use of a chain.                             *)
LEMMA ChainFacts ==
  ASSUME HullData, ScanInv, NEW g, Chain(g)
  PROVE  /\ Len(hull) \in Nat /\ Len(hull) >= 2
         /\ hull[1] = points[1] /\ hull[2] = points[2]
         /\ \A i \in 1 .. Len(hull) :
              /\ g[i] \in 1 .. next - 1 /\ g[i] \in 1 .. Len(points)
              /\ hull[i] = points[g[i]]
              /\ hull[i] \in data /\ hull[i] \in Plane
         /\ \A i \in 2 .. Len(hull) : g[i] \in 2 .. Len(points)
<1> DEFINE N == Len(points)
           M == Len(hull)
<1>1. /\ M \in Nat /\ M >= 2 /\ next \in Nat /\ next <= N + 1
      /\ g \in [1 .. M -> 1 .. next - 1]
      /\ g[1] = 1 /\ g[2] = 2
      /\ \A i, j \in 1 .. M : i < j => g[i] < g[j]
      /\ \A i \in 1 .. M : hull[i] = points[g[i]]
  BY DEF Chain
<1>2. /\ N \in Nat
      /\ \A i \in 1 .. N : points[i] \in data /\ points[i] \in Plane
  BY FanCrosses DEF ScanInv
<1> HIDE DEF N, M
<1>3. \A i \in 1 .. M : g[i] \in 1 .. next - 1
  BY <1>1
<1>4. \A j \in 1 .. next - 1 : j \in 1 .. N
  BY <1>1, <1>2
<1>5. ASSUME NEW i \in 2 .. M PROVE g[i] \in 2 .. N
  <2>1. i \in 1 .. M /\ 1 \in 1 .. M /\ 1 < i
    BY <1>1
  <2>2. g[1] < g[i]
    BY <1>1, <2>1
  <2>3. g[i] \in 1 .. N
    BY <1>3, <1>4, <2>1
  <2>4. QED
    BY <1>1, <1>2, <2>2, <2>3
<1>6. hull[1] = points[1] /\ hull[2] = points[2]
  BY <1>1
<1>7. QED
  BY <1>1, <1>2, <1>3, <1>4, <1>5, <1>6 DEF N, M

(* The order of three turns around the first point decides them.           *)
LEMMA LeftTurnBack ==
  ASSUME NEW o \in Plane, NEW a \in Plane, NEW b \in Plane, NEW c \in Plane,
         NEW p \in Plane,
         Cross(o, a, b) > 0, Cross(o, b, c) > 0, Cross(o, b, p) > 0,
         Hull!IsCCW(a, b, c), Hull!IsCCW(b, c, p)
  PROVE  Hull!IsCCW(a, b, p)
<1> DEFINE ab == Cross(o, a, b)
           ac == Cross(o, a, c)
           ap == Cross(o, a, p)
           bc == Cross(o, b, c)
           bp == Cross(o, b, p)
           cp == Cross(o, c, p)
<1>1. /\ ab \in Int /\ ac \in Int /\ ap \in Int /\ bc \in Int
      /\ bp \in Int /\ cp \in Int
  BY CrossType
<1>2. ab + bc > ac
  BY TurnsAre
<1>3. bc + cp > bp
  BY TurnsAre
<1>4. Hull!IsCCW(a, b, p) <=> ab + bp > ap
  BY TurnsAre
<1>5. ab * cp + ap * bc = ac * bp
  BY CrossesOfFour
<1>6. ab > 0 /\ bc > 0 /\ bp > 0
  OBVIOUS
<1> HIDE DEF ab, ac, ap, bc, bp, cp
<1>7. ab + bp > ap
  BY <1>1, <1>2, <1>3, <1>5, <1>6, ChainTurnsLeft
<1>8. QED
  BY <1>4, <1>7

LEMMA LeftOfLeftTurn ==
  ASSUME NEW o \in Plane, NEW a \in Plane, NEW b \in Plane, NEW z \in Plane,
         NEW p \in Plane,
         Cross(o, a, b) > 0, Cross(o, b, p) > 0, Cross(o, z, b) >= 0,
         LeftOf(a, b, z), Hull!IsCCW(a, b, p)
  PROVE  LeftOf(b, p, z)
<1> DEFINE ab == Cross(o, a, b)
           ap == Cross(o, a, p)
           az == Cross(o, a, z)
           bp == Cross(o, b, p)
           bz == Cross(o, b, z)
           pz == Cross(o, p, z)
           zb == Cross(o, z, b)
           zp == Cross(o, z, p)
<1>1. /\ ab \in Int /\ ap \in Int /\ az \in Int /\ bp \in Int
      /\ bz \in Int /\ pz \in Int /\ zb \in Int /\ zp \in Int
      /\ bz = -zb /\ pz = -zp
  BY CrossType
<1>2. ab + bz >= az
  BY TurnsAre
<1>3. ab + bp > ap
  BY TurnsAre
<1>4. LeftOf(b, p, z) <=> bp + pz >= bz
  BY TurnsAre
<1>5. az * bp + ap * zb = ab * zp
  BY CrossesOfFour
<1>6. ab > 0 /\ bp > 0 /\ zb >= 0
  OBVIOUS
<1> HIDE DEF ab, ap, az, bp, bz, pz, zb, zp
<1>7. zp * ab = zb * ap + az * bp
  BY <1>1, <1>5
<1>8. ab - zb - az >= 0
  BY <1>1, <1>2
<1>9. bp - zp + zb >= 0
  BY <1>1, <1>3, <1>6, <1>7, <1>8, LeftOfNextEdge
<1>10. QED
  BY <1>1, <1>4, <1>9

LEMMA PushStep ==
  ASSUME HullInv, Hull!Push
  PROVE  HullInv'
<1>1. /\ phase = "scan" /\ phase' = phase /\ next <= Len(points)
      /\ next' = next + 1
      /\ UNCHANGED <<data, points>>
      /\ ~Hull!Backtracks /\ hull' = Append(hull, points[next])
  BY DEF Hull!Push
<1>2. HullData /\ ScanInv
  BY <1>1 DEF HullInv
<1>3. PICK g : Chain(g)
  BY <1>2 DEF ScanInv
<1> DEFINE N == Len(points)
           M == Len(hull)
           n == next
           o == points[1]
           p == points[next]
<1>4. /\ N \in Nat /\ DOMAIN points = 1 .. N /\ o \in Plane
      /\ \A i \in 1 .. N : points[i] \in data /\ points[i] \in Plane
      /\ \A i, j \in 1 .. N :
              /\ Cross(o, points[i], points[j]) \in Int
              /\ i < j /\ i > 1 => Cross(o, points[i], points[j]) > 0
              /\ i <= j => Cross(o, points[i], points[j]) >= 0
  BY <1>2, FanCrosses DEF ScanInv
<1>5. /\ hull \in Seq(data) /\ n \in Nat /\ n <= N
      /\ g \in [1 .. M -> 1 .. n - 1]
      /\ g[1] = 1 /\ g[2] = 2
      /\ \A i, j \in 1 .. M : i < j => g[i] < g[j]
      /\ \A i \in 1 .. M - 1 : \A j \in 1 .. n - 1 :
           LeftOf(hull[i], hull[i + 1], points[j])
      /\ \A j \in 1 .. n - 1 : j > g[M] => LeftOf(hull[M], p, points[j])
      /\ \A i \in 1 .. M - 2 : Hull!IsCCW(hull[i], hull[i + 1], hull[i + 2])
  BY <1>1, <1>3 DEF Chain
<1>6. /\ M \in Nat /\ M >= 2 /\ hull[1] = o /\ hull[2] = points[2]
      /\ \A i \in 1 .. M :
           /\ g[i] \in 1 .. n - 1 /\ g[i] \in 1 .. N
           /\ hull[i] = points[g[i]]
           /\ hull[i] \in data /\ hull[i] \in Plane
      /\ \A i \in 2 .. M : g[i] \in 2 .. N
  BY <1>2, <1>3, ChainFacts
<1>7. Hull!IsCCW(hull[M - 1], hull[M], p)
  BY <1>1, <1>6 DEF Hull!Backtracks, Hull!Last
<1> HIDE DEF N, M, n, o
<1>8. n \in 1 .. N
  <2>1. g[1] \in 1 .. n - 1
    BY <1>6
  <2>2. QED
    BY <1>4, <1>5, <2>1
<1>9. p \in data /\ p \in Plane /\ p = points[n]
  BY <1>4, <1>8 DEF n
<1> HIDE DEF p
<1>10. \A i \in 1 .. M : g[i] < n
  BY <1>5, <1>6
<1>11. ASSUME NEW i \in 2 .. M PROVE Cross(o, hull[i], p) > 0
  <2>0. i \in 1 .. M /\ g[i] \in 1 .. N /\ g[i] \in 2 .. N
    BY <1>6
  <2>1. i \in 1 .. M /\ g[i] \in 1 .. N /\ g[i] > 1 /\ g[i] < n
    BY <1>4, <1>10, <2>0
  <2>2. hull[i] = points[g[i]]
    BY <1>6, <2>1
  <2>3. QED
    BY <1>4, <1>8, <1>9, <2>1, <2>2
<1>12. ASSUME NEW i \in 2 .. M, NEW j \in 1 .. M, i < j
       PROVE  Cross(o, hull[i], hull[j]) > 0
  <2>0. /\ i \in 1 .. M
        /\ \A l \in 1 .. M : g[l] \in 1 .. N
        /\ g[i] \in 2 .. N
    BY <1>6
  <2>1. /\ i \in 1 .. M /\ g[i] \in 1 .. N /\ g[i] > 1 /\ g[j] \in 1 .. N
    BY <1>4, <2>0
  <2>2. g[i] < g[j]
    BY <1>5, <1>12, <2>1
  <2>3. hull[i] = points[g[i]] /\ hull[j] = points[g[j]]
    BY <1>6, <2>1
  <2>4. QED
    BY <1>4, <2>1, <2>2, <2>3
(* The edges of the chain have the new point to their left, from the last  *)
(* one back to the first.                                                  *)
<1>13. \A i \in 1 .. M - 1 : Hull!IsCCW(hull[i], hull[i + 1], p)
  <2> SUFFICES ASSUME NEW i0 \in 1 .. M - 1,
                      ~Hull!IsCCW(hull[i0], hull[i0 + 1], p)
               PROVE  FALSE
    OBVIOUS
  <2> DEFINE Wrong == {i \in 1 .. M - 1 : ~Hull!IsCCW(hull[i], hull[i + 1], p)}
             Back == {M - i : i \in Wrong}
  <2>1. Back \in SUBSET Nat /\ Back # {}
    BY <1>6
  <2>2. PICK m \in Back : \A l \in Back : m <= l
    BY <2>1, LeastElement
  <2>3. PICK i \in Wrong : m = M - i
    BY <2>2
  <2>4. i \in 1 .. M - 1 /\ ~Hull!IsCCW(hull[i], hull[i + 1], p)
    BY <2>3
  <2>5. i + 1 \in 1 .. M - 1 => Hull!IsCCW(hull[i + 1], hull[i + 2], p)
    <3> SUFFICES ASSUME i + 1 \in 1 .. M - 1,
                        ~Hull!IsCCW(hull[i + 1], hull[i + 2], p)
                 PROVE  FALSE
      OBVIOUS
    <3>1. i + 1 + 1 = i + 2
      BY <2>4
    <3>2. i + 1 \in Wrong
      BY <3>1
    <3>3. M - (i + 1) \in Back
      BY <3>2
    <3>4. m <= M - (i + 1)
      BY <2>2, <3>3
    <3>5. QED
      BY <1>6, <2>3, <2>4, <3>4
  <2> HIDE DEF Wrong, Back
  <2>6. i # M - 1
    <3> SUFFICES ASSUME i = M - 1 PROVE FALSE
      OBVIOUS
    <3>1. i + 1 = M
      BY <1>6
    <3>2. QED
      BY <1>7, <2>4, <3>1
  <2>7. /\ i \in 1 .. M /\ i + 1 \in 2 .. M /\ i + 1 \in 1 .. M
        /\ i + 2 \in 1 .. M /\ i + 1 < i + 2
        /\ i + 1 \in 1 .. M - 1 /\ i \in 1 .. M - 2 /\ i < i + 1
    BY <1>6, <2>4, <2>6
  <2> DEFINE a == hull[i]
             b == hull[i + 1]
             c == hull[i + 2]
  <2>8. /\ a \in Plane /\ b \in Plane /\ c \in Plane
        /\ Hull!IsCCW(a, b, c) /\ Hull!IsCCW(b, c, p)
        /\ Cross(o, b, p) > 0 /\ Cross(o, b, c) > 0
    BY <1>5, <1>6, <1>11, <1>12, <2>5, <2>7
  <2>9. CASE i = 1
    <3>1. a = o
      BY <1>6, <2>9
    <3>2. /\ Cross(o, a, b) = 0 /\ Cross(o, a, p) = 0
          /\ Cross(o, b, p) \in Int
      BY <1>4, <1>9, <2>8, <3>1, CrossType
    <3>3. Hull!IsCCW(a, b, p) <=>
            Cross(o, a, b) + Cross(o, b, p) > Cross(o, a, p)
      BY <1>4, <1>9, <2>8, TurnsAre
    <3> HIDE DEF a, b, c
    <3>4. Hull!IsCCW(a, b, p)
      BY <2>8, <3>2, <3>3
    <3>5. QED
      BY <2>4, <3>4 DEF a, b
  <2>10. CASE i # 1
    <3>1. i \in 2 .. M
      BY <1>6, <2>7, <2>10
    <3>2. Cross(o, a, b) > 0
      BY <1>12, <2>7, <3>1
    <3> HIDE DEF a, b, c
    <3>3. Hull!IsCCW(a, b, p)
      BY <1>4, <1>9, <2>8, <3>2, LeftTurnBack
    <3>4. QED
      BY <2>4, <3>3 DEF a, b
  <2>11. QED
    BY <2>9, <2>10
<1>14. ASSUME NEW j \in 1 .. n - 1 PROVE LeftOf(hull[M], p, points[j])
  <2> DEFINE b == hull[M]
             z == points[j]
  <2>1. /\ j \in 1 .. N /\ z \in Plane /\ M \in 2 .. M /\ M \in 1 .. M
        /\ j \in Nat /\ j < n /\ j >= 1
    BY <1>4, <1>5, <1>6
  <2>2. /\ b \in Plane /\ g[M] \in 2 .. N /\ b = points[g[M]]
        /\ Cross(o, b, p) > 0
    BY <1>6, <1>11, <2>1
  <2>3. CASE j > g[M]
    BY <1>5, <2>3
  <2>4. CASE j <= g[M]
    <3>1. Cross(o, z, b) >= 0
      BY <1>4, <1>6, <2>1, <2>2, <2>4
    <3>2. CASE M = 2
      <4>1. g[M] = 2 /\ (j = 1 \/ j = 2)
        BY <1>5, <2>1, <2>4, <3>2
      <4>2. z = o \/ z = b
        BY <1>6, <3>2, <4>1 DEF o
      <4>3. /\ LeftOf(b, p, z) <=>
                 Cross(o, b, p) + Cross(o, p, z) >= Cross(o, b, z)
            /\ Cross(o, b, p) \in Int /\ Cross(o, p, z) \in Int
        BY <1>4, <1>9, <2>1, <2>2, TurnsAre
      <4>4. /\ Cross(o, p, b) = -Cross(o, b, p)
            /\ Cross(o, b, b) = 0
            /\ Cross(o, p, o) = 0 /\ Cross(o, b, o) = 0
        BY <1>4, <1>9, <2>2, CrossType
      <4> HIDE DEF b, z
      <4>5. z = o => LeftOf(b, p, z)
        BY <2>2, <4>3, <4>4
      <4>6. z = b => LeftOf(b, p, z)
        BY <2>2, <4>3, <4>4
      <4>7. LeftOf(b, p, z)
        BY <4>2, <4>5, <4>6
      <4>8. QED
        BY <4>7 DEF b, z
    <3>3. CASE M # 2
      <4> DEFINE a == hull[M - 1]
      <4>1. /\ M - 1 \in 2 .. M /\ M - 1 \in 1 .. M /\ M - 1 \in 1 .. M - 1
            /\ M - 1 < M /\ M - 1 + 1 = M
        BY <1>6, <3>3
      <4>2. Cross(o, a, b) > 0
        BY <1>12, <2>1, <4>1
      <4>3. a \in Plane
        BY <1>6, <4>1
      <4>4. LeftOf(a, b, z)
        BY <1>5, <4>1
      <4>5. Hull!IsCCW(a, b, p)
        BY <1>7
      <4>6. QED
        BY <1>4, <1>9, <2>1, <2>2, <3>1, <4>2, <4>3, <4>4, <4>5,
           LeftOfLeftTurn
    <3>4. QED
      BY <3>2, <3>3
  <2>5. g[M] \in Nat /\ j \in Nat
    BY <2>1, <2>2
  <2>6. QED
    BY <2>3, <2>4, <2>5
<1>15. ASSUME NEW i \in 1 .. M - 1 PROVE LeftOf(hull[i], hull[i + 1], p)
  <2>1. /\ i \in 1 .. M /\ i + 1 \in 1 .. M
        /\ Hull!IsCCW(hull[i], hull[i + 1], p)
    BY <1>6, <1>13
  <2>2. hull[i] \in Plane /\ hull[i + 1] \in Plane
    BY <1>6, <2>1
  <2>3. Hull!Orientation(hull[i], hull[i + 1], p) \in Int
    BY <1>9, <2>2 DEF Hull!Orientation, Plane
  <2>4. QED
    BY <2>1, <2>3 DEF Hull!IsCCW, LeftOf
<1>16. LeftOf(hull[M], p, p)
  <2>1. hull[M] \in Plane
    BY <1>6
  <2>2. Hull!Orientation(hull[M], p, p) = 0
    BY <1>9, <2>1 DEF Hull!Orientation, Plane
  <2>3. QED
    BY <2>2 DEF LeftOf
<1>17. /\ hull' \in Seq(data) /\ Len(hull') = M + 1
       /\ \A i \in 1 .. M : hull'[i] = hull[i]
       /\ hull'[M + 1] = p
  BY <1>1, <1>5, <1>6, <1>9 DEF M, p
<1>18. \E f : Chain(f)'
  <2>1. ASSUME NEW f, f = [i \in 1 .. M + 1 |-> IF i <= M THEN g[i] ELSE n]
        PROVE  Chain(f)'
    <3>1. /\ f \in [1 .. M + 1 -> 1 .. n]
          /\ \A i \in 1 .. M : f[i] = g[i]
          /\ f[1] = 1 /\ f[2] = 2 /\ f[M + 1] = n
      BY <1>5, <1>6, <1>8, <2>1
    <3>2. ASSUME NEW i \in 1 .. M + 1, NEW j \in 1 .. M + 1, i < j
          PROVE  f[i] < f[j]
      <4>1. i \in 1 .. M /\ (j \in 1 .. M \/ j = M + 1)
        BY <1>6, <3>2
      <4>2. QED
        BY <1>5, <1>10, <3>1, <3>2, <4>1
    <3>3. \A i \in 1 .. M + 1 : i \in 1 .. M \/ i = M + 1
      BY <1>6
    <3>4. \A i \in 1 .. M + 1 : hull'[i] = points[f[i]]
      BY <1>6, <1>9, <1>17, <3>1, <3>3
    <3>5. ASSUME NEW i \in 1 .. M - 1
          PROVE  Hull!IsCCW(hull'[i], hull'[i + 1], hull'[i + 2])
      <4>1. i \in 1 .. M /\ i + 1 \in 1 .. M
        BY <1>6
      <4>2. CASE i = M - 1
        <5>1. i + 1 = M /\ i + 2 = M + 1
          BY <1>6, <4>2
        <5>2. QED
          BY <1>7, <1>17, <4>1, <4>2, <5>1
      <4>3. CASE i # M - 1
        <5>1. i \in 1 .. M - 2 /\ i + 2 \in 1 .. M
          BY <1>6, <4>3
        <5>2. QED
          BY <1>5, <1>17, <4>1, <5>1
      <4>4. QED
        BY <4>2, <4>3
    <3>6. ASSUME NEW i \in 1 .. M, NEW j \in 1 .. n
          PROVE  LeftOf(hull'[i], hull'[i + 1], points[j])
      <4>1. j \in 1 .. n - 1 \/ (j = n /\ points[j] = p)
        BY <1>8, <1>9
      <4>2. CASE i = M
        BY <1>14, <1>16, <1>17, <4>1, <4>2
      <4>3. CASE i # M
        <5>1. i \in 1 .. M - 1 /\ i + 1 \in 1 .. M
          BY <1>6, <4>3
        <5>2. QED
          BY <1>5, <1>15, <1>17, <4>1, <5>1
      <4>4. QED
        BY <4>2, <4>3
    <3>7. Len(hull') = M + 1 /\ Len(hull') - 2 = M - 1 /\ Len(hull') - 1 = M
      BY <1>6, <1>17
    <3>8. /\ next' = n + 1 /\ n + 1 \in Nat /\ n + 1 <= Len(points') + 1
          /\ next' - 1 = n /\ points' = points
      BY <1>1, <1>4, <1>5 DEF n, N
    <3>9. \A j \in 1 .. n : ~(j > f[M + 1])
      BY <1>5, <3>1
    <3>10. /\ hull' \in Seq(data') /\ Len(hull') >= 2
           /\ next' \in Nat /\ next' <= Len(points') + 1
      BY <1>1, <1>6, <1>17, <3>8
    <3>11. /\ f \in [1 .. Len(hull') -> 1 .. next' - 1]
           /\ \A i, j \in 1 .. Len(hull') : i < j => f[i] < f[j]
           /\ \A i \in 1 .. Len(hull') : hull'[i] = points'[f[i]]
      BY <3>1, <3>2, <3>4, <3>7, <3>8
    <3>12. \A i \in 1 .. Len(hull') - 2 :
             Hull!IsCCW(hull'[i], hull'[i + 1], hull'[i + 2])
      BY <3>5, <3>7
    <3>13. \A i \in 1 .. Len(hull') - 1 : \A j \in 1 .. next' - 1 :
             LeftOf(hull'[i], hull'[i + 1], points'[j])
      BY <3>6, <3>7, <3>8
    <3>14. \A j \in 1 .. next' - 1 :
             j > f[Len(hull')] =>
               /\ next' <= Len(points')
               /\ LeftOf(hull'[Len(hull')], points'[next'], points'[j])
      BY <3>7, <3>8, <3>9
    <3>15. QED
      BY <3>1, <3>10, <3>11, <3>12, <3>13, <3>14
      DEF Chain, LeftOf, Hull!IsCCW, Hull!Orientation
  <2>2. QED
    BY <2>1
<1>19. Fan(points)' /\ Covered'
  BY <1>1, <1>2 DEF ScanInv, Fan, Cross, Covered, LeftOf, Hull!Orientation
<1>20. QED
  BY <1>1, <1>2, <1>18, <1>19 DEF HullInv, HullData, ScanInv

LEMMA ScanUnchanged ==
  ASSUME ScanInv, UNCHANGED <<data, points, hull, next>>
  PROVE  ScanInv'
<1>1. PICK g : Chain(g)
  BY DEF ScanInv
<1>2. Chain(g)'
  BY <1>1 DEF Chain, LeftOf, Hull!Orientation, Hull!IsCCW
<1>3. Fan(points)' /\ Covered'
  BY DEF ScanInv, Fan, Cross, Covered, LeftOf, Hull!Orientation
<1>4. QED
  BY <1>2, <1>3 DEF ScanInv

LEMMA ReturnStep ==
  ASSUME HullInv, Hull!Return
  PROVE  HullInv'
<1>1. /\ phase = "scan" /\ phase' = "some" /\ next > Len(points)
      /\ UNCHANGED <<data, points, hull, next>>
  BY DEF Hull!Return
<1>2. HullData' /\ ScanInv'
  BY <1>1, ScanUnchanged DEF HullInv, HullData
<1>3. QED
  BY <1>1, <1>2 DEF HullInv

LEMMA HullStep ==
  ASSUME HullInv, [Hull!Next]_Hull!vars
  PROVE  HullInv'
<1>1. CASE UNCHANGED Hull!vars
  <2>1. UNCHANGED <<data, points, hull, next, phase>>
    BY <1>1 DEF Hull!vars
  <2>2. Hull!Fans' = Hull!Fans
    BY <2>1 DEF Hull!Fans, Hull!Lowest
  <2>3. ScanInv => ScanInv'
    BY <2>1, ScanUnchanged
  <2>4. QED
    BY <2>1, <2>2, <2>3
    DEF HullInv, HullData, Hull!IsCollinear, Hull!Orientation
<1>2. QED
  BY <1>1, InitializeStep, FilterStep, PopStep, PushStep, ReturnStep
  DEF Hull!Next

(* The whole chain, from the first point to the last: a hull.              *)
LEMMA ChainEncloses ==
  ASSUME HullInv, phase = "some"
  PROVE  Hull!HullEncloses
<1> DEFINE N == Len(points)
           M == Len(hull)
           o == points[1]
           After(i) == IF i = M THEN 1 ELSE i + 1
<1>1. HullData /\ ScanInv /\ next > N
  BY DEF HullInv
<1>2. PICK g : Chain(g)
  BY <1>1 DEF ScanInv
<1>3. /\ N \in Nat /\ N >= 3 /\ o \in Plane
      /\ \A i \in 1 .. N : points[i] \in data /\ points[i] \in Plane
      /\ \A i, j \in 1 .. N :
              /\ Cross(o, points[i], points[j]) \in Int
              /\ i < j /\ i > 1 => Cross(o, points[i], points[j]) > 0
              /\ i <= j => Cross(o, points[i], points[j]) >= 0
  BY <1>1, FanCrosses DEF ScanInv
<1>4. /\ next \in Nat /\ next <= N + 1 /\ g[2] = 2
      /\ \A i, j \in 1 .. M : i < j => g[i] < g[j]
      /\ \A i \in 1 .. M - 1 : \A j \in 1 .. next - 1 :
           LeftOf(hull[i], hull[i + 1], points[j])
      /\ \A j \in 1 .. next - 1 : j > g[M] => next <= N
      /\ \A i \in 1 .. M - 2 : Hull!IsCCW(hull[i], hull[i + 1], hull[i + 2])
  BY <1>2 DEF Chain
<1>5. /\ M \in Nat /\ M >= 2 /\ hull[1] = o /\ DOMAIN hull = 1 .. M
      /\ \A i \in 1 .. M :
           /\ g[i] \in 1 .. next - 1 /\ g[i] \in 1 .. N
           /\ hull[i] = points[g[i]]
           /\ hull[i] \in data /\ hull[i] \in Plane
      /\ \A i \in 2 .. M : g[i] \in 2 .. N
  <2>1. DOMAIN hull = 1 .. M
    BY <1>2 DEF Chain
  <2>2. QED
    BY <1>1, <1>2, <2>1, ChainFacts
<1>6. next - 1 = N
  BY <1>1, <1>3, <1>4
<1> HIDE DEF N, M, o
<1>7. g[M] = N /\ M >= 3
  <2>1. M \in 1 .. M /\ N \in 1 .. next - 1
    BY <1>3, <1>5, <1>6
  <2>2. ~(N > g[M])
    <3>1. N > g[M] => next <= N
      BY <1>4, <2>1
    <3>2. QED
      BY <1>1, <1>3, <1>4, <3>1
  <2>3. g[M] \in 1 .. N
    BY <1>5, <2>1
  <2>4. g[M] = N
    BY <1>3, <2>2, <2>3
  <2>5. QED
    BY <1>3, <1>4, <1>5, <2>4
<1>8. /\ \A i \in 2 .. M : i \in 1 .. M
      /\ M \in 2 .. M /\ M - 1 \in 2 .. M /\ 2 \in 2 .. M /\ 1 \in 1 .. M
      /\ M - 1 < M /\ 2 < M /\ M - 1 + 1 = M
  BY <1>5, <1>7
<1>9. ASSUME NEW i \in 2 .. M, NEW j \in 2 .. M, i < j
      PROVE  Cross(o, hull[i], hull[j]) > 0
  <2>1. g[i] < g[j] /\ g[i] \in 2 .. N /\ g[j] \in 2 .. N
    BY <1>4, <1>5, <1>8, <1>9
  <2>2. hull[i] = points[g[i]] /\ hull[j] = points[g[j]]
    BY <1>5, <1>8
  <2>3. g[i] \in 1 .. N /\ g[j] \in 1 .. N /\ g[i] > 1
    BY <1>3, <2>1
  <2>4. QED
    BY <1>3, <2>1, <2>2, <2>3
<1>10. ASSUME NEW i \in 1 .. M, NEW j \in 1 .. M, i < j
       PROVE  hull[i] # hull[j]
  <2>1. j \in 2 .. M /\ hull[j] \in Plane
    BY <1>5, <1>10
  <2>2. Cross(o, hull[j], hull[j]) = 0
    BY <1>3, <2>1, CrossType
  <2>3. CASE i # 1
    <3>1. i \in 2 .. M
      BY <1>5, <2>3
    <3>2. Cross(o, hull[i], hull[j]) > 0
      BY <1>9, <1>10, <2>1, <3>1
    <3>3. QED
      BY <2>2, <3>2
  <2>4. CASE i = 1
    <3> SUFFICES ASSUME hull[j] = o PROVE FALSE
      BY <1>5, <2>4
    <3>1. CASE j = 2
      <4>1. Cross(o, hull[2], hull[M]) > 0
        BY <1>8, <1>9
      <4>2. hull[M] \in Plane
        BY <1>5, <1>8
      <4>3. Cross(o, o, hull[M]) = 0
        BY <1>3, <4>2, CrossType
      <4>4. QED
        BY <3>1, <4>1, <4>3
    <3>2. CASE j # 2
      <4>1. 2 < j
        BY <1>5, <2>1, <3>2
      <4>2. Cross(o, hull[2], hull[j]) > 0
        BY <1>8, <1>9, <2>1, <4>1
      <4>3. hull[2] \in Plane
        BY <1>5, <1>8
      <4>4. Cross(o, hull[2], o) = 0
        BY <1>3, <4>3, CrossType
      <4>5. QED
        BY <4>2, <4>4
    <3>3. QED
      BY <3>1, <3>2
  <2>5. QED
    BY <2>3, <2>4
<1>11. Hull!IsInjective(hull)
  <2>1. \A i, j \in 1 .. M : i < j \/ j < i \/ i = j
    BY <1>5
  <2>2. QED
    BY <1>5, <1>10, <2>1 DEF Hull!IsInjective
<1> DEFINE a == hull[M - 1]
           b == hull[M]
           c == hull[2]
<1>12. /\ a \in Plane /\ b \in Plane /\ c \in Plane
       /\ Cross(o, a, b) > 0 /\ Cross(o, c, b) > 0
  BY <1>5, <1>8, <1>9
<1> HIDE DEF a, b, c
<1>13. Hull!IsCCW(a, b, o)
  <2>1. /\ Hull!IsCCW(a, b, o) <=>
             Cross(o, a, b) + Cross(o, b, o) > Cross(o, a, o)
        /\ Cross(o, a, b) \in Int
    BY <1>3, <1>12, TurnsAre
  <2>2. Cross(o, b, o) = 0 /\ Cross(o, a, o) = 0
    BY <1>3, <1>12, CrossType
  <2>3. QED
    BY <1>12, <2>1, <2>2
<1>14. Hull!IsCCW(b, o, c)
  <2>1. /\ Hull!IsCCW(b, o, c) <=>
             Cross(o, b, o) + Cross(o, o, c) > Cross(o, b, c)
        /\ Cross(o, c, b) \in Int
    BY <1>3, <1>12, TurnsAre, CrossType
  <2>2. Cross(o, b, o) = 0 /\ Cross(o, o, c) = 0
    BY <1>3, <1>12, CrossType
  <2>3. Cross(o, b, c) = -Cross(o, c, b)
    BY <1>3, <1>12, CrossType
  <2>4. QED
    BY <1>12, <2>1, <2>2, <2>3
<1>15. ASSUME NEW i \in 1 .. M
       PROVE  Hull!IsCCW(hull[i], hull[After(i)], hull[After(After(i))])
  <2>1. CASE i = M
    <3>1. After(i) = 1 /\ After(1) = 2
      BY <1>7, <1>8, <2>1
    <3>2. QED
      BY <1>5, <1>14, <2>1, <3>1 DEF b, c
  <2>2. CASE i = M - 1
    <3>1. After(i) = M /\ After(M) = 1
      BY <1>8, <2>2
    <3>2. QED
      BY <1>5, <1>13, <2>2, <3>1 DEF a, b
  <2>3. CASE i # M /\ i # M - 1
    <3>1. i \in 1 .. M - 2 /\ i + 1 # M /\ i + 1 + 1 = i + 2
      BY <1>5, <2>3
    <3>2. After(i) = i + 1 /\ After(i + 1) = i + 2
      BY <2>3, <3>1
    <3>3. QED
      BY <1>4, <3>1, <3>2
  <2>4. QED
    BY <2>1, <2>2, <2>3
<1>16. ASSUME NEW i \in 1 .. M, NEW j \in 1 .. N
       PROVE  LeftOf(hull[i], hull[After(i)], points[j])
  <2>1. CASE i = M
    <3> DEFINE z == points[j]
    <3>0. b = points[N]
      BY <1>5, <1>7, <1>8 DEF b
    <3>1. z \in Plane /\ N \in 1 .. N /\ j <= N
      BY <1>3
    <3>2. Cross(o, z, b) >= 0 /\ Cross(o, z, b) \in Int
      BY <1>3, <3>0, <3>1
    <3>3. LeftOf(b, o, z) <=>
            Cross(o, b, o) + Cross(o, o, z) >= Cross(o, b, z)
      BY <1>3, <1>12, <3>1, TurnsAre
    <3>4. /\ Cross(o, b, o) = 0 /\ Cross(o, o, z) = 0
          /\ Cross(o, b, z) = -Cross(o, z, b)
      BY <1>3, <1>12, <3>1, CrossType
    <3> HIDE DEF z
    <3>5. LeftOf(b, o, z)
      BY <3>2, <3>3, <3>4
    <3>6. QED
      BY <1>5, <2>1, <3>5 DEF b, z
  <2>2. CASE i # M
    <3>1. i \in 1 .. M - 1 /\ After(i) = i + 1 /\ j \in 1 .. next - 1
      BY <1>5, <1>6, <2>2
    <3>2. QED
      BY <1>4, <3>1
  <2>3. QED
    BY <2>1, <2>2
<1>17. ASSUME NEW i \in 1 .. M, NEW d \in data
       PROVE  Hull!Orientation(hull[i], hull[After(i)], d) <= 0
  <2>1. After(i) \in 1 .. M
    BY <1>5
  <2>2. hull[i] \in Plane /\ hull[After(i)] \in Plane
    BY <1>5, <2>1
  <2> HIDE DEF After
  <2>3. LeftOf(hull[i], hull[After(i)], d)
    BY <1>1, <1>16, <2>2 DEF ScanInv, Covered, N
  <2>4. QED
    BY <2>3 DEF LeftOf
<1>18. QED
  <2>1. /\ M >= 3 /\ Hull!IsInjective(hull)
        /\ \A i \in DOMAIN hull :
             /\ Hull!Orientation(hull[i], hull[After(i)], hull[After(After(i))]) < 0
             /\ \A d \in data :
                  Hull!Orientation(hull[i], hull[After(i)], d) <= 0
    BY <1>5, <1>7, <1>11, <1>15, <1>17 DEF Hull!IsCCW
  <2>2. QED
    BY <2>1 DEF Hull!HullEncloses, M

(* For any finite set of points with integer coordinates: points for which *)
(* no hull is returned are on one line, and a hull that is returned turns  *)
(* the same way at each of its points, goes around once and encloses all   *)
(* points.                                                                 *)
THEOREM HullsEnclose == Spec => []HullEncloses
<1> DEFINE Inv == part = "hull" => HullInv
<1>1. Init => Inv
  BY HullPart, HullInit
<1>2. Inv /\ [Next]_vars => Inv'
  BY HullPart, HullStep
<1>3. Inv => HullEncloses
  <2>1. HullInv /\ phase = "none" => Hull!HullEncloses
    BY DEF HullInv, Hull!HullEncloses
  <2>2. HullInv /\ phase \notin {"none", "some"} => Hull!HullEncloses
    BY DEF Hull!HullEncloses
  <2>3. QED
    BY <2>1, <2>2, ChainEncloses DEF HullEncloses
<1>4. QED
  BY <1>1, <1>2, <1>3, PTL DEF Spec

HIDE DEF data, points, hull, next, phase

----------------------------------------------------------------------------
(* ClosestPair.                                                            *)
calls == v1
strip == v3
best == v4
order == v5
row == v6
col == v8
min == v9
USE DEF calls, points, strip, best, order, row, phase, col, min

LEMMA PairPart ==
  /\ Init /\ part = "pair" => Pair!Init
  /\ [Next]_vars => /\ part' = part
                    /\ part = "pair" => [Pair!Next]_Pair!vars
  BY DEF Init, Next, vars, Pair!vars

PairData ==
  /\ points \in Seq(Plane)
  /\ \A i, j \in 1 .. Len(points) : i <= j => points[i].x <= points[j].x

Segments ==
  {seg \in [lo : Nat, hi : Nat] :
     seg.lo >= 1 /\ seg.hi <= Len(points) /\ seg.lo <= seg.hi + 1}

(* The result r is none, or that of two points of a segment.               *)
Found(seg, r) ==
  /\ r.dist \in Int /\ r.dist <= Far
  /\ r.dist # Far =>
       /\ r.p1 \in seg.lo .. seg.hi /\ r.p2 \in seg.lo .. seg.hi
       /\ r.p1 # r.p2
       /\ r.dist = Pair!Dist(r.p1, r.p2)

Nearest(seg, r) ==
  /\ Found(seg, r)
  /\ \A i, j \in seg.lo .. seg.hi : i < j => r.dist <= Pair!Dist(i, j)

BestInv == \A seg \in DOMAIN best : seg \in Segments /\ Nearest(seg, best[seg])

(* Two halves are solved, and the strip is that of their result.           *)
Merging ==
  /\ Pair!Size(Pair!Seg) > 3
  /\ Pair!Left(Pair!Seg) \in DOMAIN best /\ Pair!Right(Pair!Seg) \in DOMAIN best
  /\ strip = Pair!Near(Pair!Seg, Pair!BestOf(Pair!Seg).dist)

Ordered ==
  /\ order \in Seq(Pair!Within(Pair!Seg))
  /\ \A a, b \in 1 .. Len(order) : a # b => order[a] # order[b]

Rising ==
  \A a, b \in 1 .. Len(order) :
    a < b => points[order[a]].y <= points[order[b]].y

SortInv ==
  /\ Merging /\ Ordered /\ Rising
  /\ min = Pair!BestOf(Pair!Seg)
  /\ \A a \in 1 .. Len(order) :
       /\ order[a] \in strip
       /\ \A i \in Pair!Unsorted : points[order[a]].y <= points[i].y

(* The pairs that the loops have passed are not closer than the result,    *)
(* those too that a strip's inner loop has skipped.                        *)
Looked ==
  \A a, b \in 1 .. Len(order) :
    a < b /\ (a < row \/ (a = row /\ b < col)) =>
      min.dist <= Pair!Dist(order[a], order[b])

PairsInv ==
  /\ Ordered /\ Looked /\ Found(Pair!Seg, min)
  /\ row \in Nat /\ row >= 1 /\ col \in Nat /\ row < col
  /\ Pair!Size(Pair!Seg) <= 3 =>
       /\ strip = {}
       /\ \A i \in Pair!Within(Pair!Seg) :
            \E a \in 1 .. Len(order) : order[a] = i
  /\ Pair!Size(Pair!Seg) > 3 =>
       /\ Merging /\ Rising
       /\ min.dist <= Pair!BestOf(Pair!Seg).dist
       /\ \A i \in strip : \E a \in 1 .. Len(order) : order[a] = i

PairInv ==
  /\ PairData /\ BestInv
  /\ phase \in {"call", "sort", "pairs"}
  /\ calls \in Seq(Segments)
  /\ phase = "call" => strip = {} /\ order = <<>> /\ min = Pair!Nothing
  /\ phase # "call" => calls # <<>>
  /\ phase = "sort" => SortInv
  /\ phase = "pairs" => PairsInv

LEMMA PairInit == Pair!Init => PairInv
<1> SUFFICES ASSUME Pair!Init PROVE PairInv
  OBVIOUS
<1>1. /\ points \in PairInputs /\ calls = <<Pair!Whole>> /\ best = <<>>
      /\ strip = {} /\ order = <<>> /\ phase = "call" /\ min = Pair!Nothing
  BY DEF Pair!Init
<1>2. PairData
  <2>1. /\ points \in Seq(Plane)
        /\ \A i, j \in DOMAIN points : i <= j => points[i].x <= points[j].x
    BY <1>1, PairAssumption DEF Plane
  <2>2. DOMAIN points = 1 .. Len(points)
    BY <2>1
  <2>3. QED
    BY <2>1, <2>2 DEF PairData
<1>3. Pair!Whole \in Segments
  BY <1>2 DEF PairData, Pair!Whole, Segments
<1>4. calls \in Seq(Segments)
  BY <1>1, <1>3
<1>5. QED
  BY <1>1, <1>2, <1>4 DEF PairInv, BestInv

(* Distances of the points of a segment.                                   *)
LEMMA SquareGrows ==
  ASSUME NEW u \in Int, NEW v \in Int, u >= 0, v >= u
  PROVE  v * v >= u * u
<1>1. v * v - u * u = (v - u) * (v + u)
  OBVIOUS
<1>2. v * v \in Int /\ u * u \in Int /\ (v - u) * (v + u) >= 0
  BY NonnegativeProduct
<1>3. QED
  BY <1>1, <1>2

LEMMA Distances ==
  ASSUME PairData, NEW i \in 1 .. Len(points), NEW j \in 1 .. Len(points)
  PROVE  /\ points[i].x \in Int /\ points[i].y \in Int
         /\ points[j].x \in Int /\ points[j].y \in Int
         /\ Pair!Dist(i, j) \in Int /\ Pair!Dist(i, j) >= 0
         /\ Pair!Dist(j, i) = Pair!Dist(i, j)
         /\ \A u \in Int :
              /\ 0 <= u /\ u <= points[j].x - points[i].x =>
                   u * u <= Pair!Dist(i, j)
              /\ 0 <= u /\ u <= points[j].y - points[i].y =>
                   u * u <= Pair!Dist(i, j)
<1> DEFINE xi == points[i].x
           yi == points[i].y
           xj == points[j].x
           yj == points[j].y
<1>1. xi \in Int /\ yi \in Int /\ xj \in Int /\ yj \in Int
  <2>1. points[i] \in Plane /\ points[j] \in Plane
    BY DEF PairData
  <2>2. QED
    BY <2>1 DEF Plane
<1>2. /\ Pair!Dist(i, j) = (xi - xj) * (xi - xj) + (yi - yj) * (yi - yj)
      /\ Pair!Dist(j, i) = (xj - xi) * (xj - xi) + (yj - yi) * (yj - yi)
  BY DEF Pair!Dist, Pair!Square
<1> HIDE DEF xi, yi, xj, yj
<1>3. /\ (xi - xj) * (xi - xj) = (xj - xi) * (xj - xi)
      /\ (yi - yj) * (yi - yj) = (yj - yi) * (yj - yi)
  BY <1>1
<1> DEFINE dx == xj - xi
           dy == yj - yi
<1>4. dx \in Int /\ dy \in Int
  BY <1>1
<1>5. Pair!Dist(i, j) = dx * dx + dy * dy /\ Pair!Dist(j, i) = dx * dx + dy * dy
  BY <1>2, <1>3
<1> HIDE DEF dx, dy
<1>6. dx * dx >= 0 /\ dy * dy >= 0 /\ dx * dx \in Int /\ dy * dy \in Int
  BY <1>4
<1>7. ASSUME NEW u \in Int, 0 <= u
      PROVE  (u <= dx => u * u <= dx * dx) /\ (u <= dy => u * u <= dy * dy)
  BY <1>4, <1>7, SquareGrows
<1>8. ASSUME NEW u \in Int, 0 <= u
      PROVE  /\ u <= dx => u * u <= Pair!Dist(i, j)
             /\ u <= dy => u * u <= Pair!Dist(i, j)
  <2>1. u * u \in Int
    OBVIOUS
  <2>2. QED
    BY <1>5, <1>6, <1>7, <1>8, <2>1
<1>9. /\ Pair!Dist(i, j) \in Int /\ Pair!Dist(i, j) >= 0
      /\ Pair!Dist(j, i) = Pair!Dist(i, j)
  BY <1>5, <1>6
<1>10. QED
  BY <1>1, <1>8, <1>9 DEF dx, dy, xi, xj, yi, yj

LEMMA HalvesAre ==
  ASSUME PairData, NEW seg \in Segments, Pair!Size(seg) > 3
  PROVE  /\ Pair!Left(seg) \in Segments /\ Pair!Right(seg) \in Segments
         /\ Pair!Mid(seg) \in Nat
         /\ seg.lo < Pair!Mid(seg) /\ Pair!Mid(seg) <= seg.hi
         /\ Pair!Left(seg).lo = seg.lo /\ Pair!Left(seg).hi = Pair!Mid(seg) - 1
         /\ Pair!Right(seg).lo = Pair!Mid(seg) /\ Pair!Right(seg).hi = seg.hi
<1>1. /\ seg.lo \in Nat /\ seg.hi \in Nat /\ seg.lo >= 1
      /\ seg.hi <= Len(points) /\ Len(points) \in Nat
  BY DEF Segments, PairData
<1>2. seg.hi - seg.lo + 1 > 3
  BY DEF Pair!Size
<1>3. /\ Pair!Mid(seg) \in Nat
      /\ seg.lo < Pair!Mid(seg) /\ Pair!Mid(seg) <= seg.hi
  <2>1. PICK c \in Nat : c = Pair!Size(seg) /\ c > 3
    BY <1>1, <1>2 DEF Pair!Size
  <2>2. PICK q \in Int : q = c \div 2
    BY <2>1
  <2>3. q >= 1 /\ q < c
    BY <2>1, <2>2
  <2>4. Pair!Mid(seg) = seg.lo + q /\ c = seg.hi - seg.lo + 1
    BY <2>1, <2>2 DEF Pair!Mid, Pair!Size
  <2>5. QED
    BY <1>1, <2>1, <2>3, <2>4
<1>4. QED
  BY <1>1, <1>3 DEF Pair!Left, Pair!Right, Segments

LEMMA PairFrame ==
  ASSUME UNCHANGED points
  PROVE  /\ PairData => PairData'
         /\ Segments' = Segments
         /\ \A i, j : Pair!Dist(i, j)' = Pair!Dist(i, j)
         /\ \A seg, r : Found(seg, r) => Found(seg, r)'
         /\ \A seg, r : Nearest(seg, r) => Nearest(seg, r)'
         /\ \A seg, d : Pair!Near(seg, d)' = Pair!Near(seg, d)
         /\ BestInv /\ UNCHANGED best => BestInv'
<1>1. \A i, j : Pair!Dist(i, j)' = Pair!Dist(i, j)
  BY DEF Pair!Dist, Pair!Square
<1>2. PairData => PairData'
  BY DEF PairData
<1>3. Segments' = Segments
  BY DEF Segments
<1>4. \A seg, r : Found(seg, r) => Found(seg, r)'
  BY <1>1 DEF Found
<1>5. \A seg, r : Nearest(seg, r) => Nearest(seg, r)'
  BY <1>1, <1>4 DEF Nearest
<1>6. \A seg, d : Pair!Near(seg, d)' = Pair!Near(seg, d)
  BY DEF Pair!Near, Pair!Square, Pair!Within, Pair!Mid, Pair!Size
<1>7. BestInv /\ UNCHANGED best => BestInv'
  BY <1>3, <1>5 DEF BestInv
<1>8. QED
  BY <1>1, <1>2, <1>3, <1>4, <1>5, <1>6, <1>7

LEMMA SegIs ==
  ASSUME PairInv, calls # <<>>
  PROVE  /\ Pair!Seg \in Segments
         /\ Pair!Seg.lo \in Nat /\ Pair!Seg.hi \in Nat
         /\ Pair!Seg.lo >= 1 /\ Pair!Seg.hi <= Len(points)
         /\ Pair!Seg.lo <= Pair!Seg.hi + 1 /\ Len(points) \in Nat
         /\ \A i \in Pair!Within(Pair!Seg) : i \in 1 .. Len(points) /\ i \in Nat
         /\ Pair!Size(Pair!Seg) \in Nat
<1>1. calls \in Seq(Segments) /\ Len(points) \in Nat
  BY DEF PairInv, PairData
<1>2. Pair!Seg = calls[Len(calls)]
  BY DEF Pair!Seg, Pair!Last
<1>3. Len(calls) \in 1 .. Len(calls)
  BY <1>1
<1>4. Pair!Seg \in Segments
  BY <1>1, <1>2, <1>3
<1>5. /\ Pair!Seg.lo \in Nat /\ Pair!Seg.hi \in Nat
      /\ Pair!Seg.lo >= 1 /\ Pair!Seg.hi <= Len(points)
      /\ Pair!Seg.lo <= Pair!Seg.hi + 1
  BY <1>4 DEF Segments
<1>6. \A i \in Pair!Within(Pair!Seg) : i \in 1 .. Len(points) /\ i \in Nat
  BY <1>1, <1>5 DEF Pair!Within
<1>7. Pair!Size(Pair!Seg) \in Nat
  BY <1>5 DEF Pair!Size
<1>8. QED
  BY <1>1, <1>4, <1>5, <1>6, <1>7

LEMMA SegFrame ==
  ASSUME UNCHANGED <<points, calls>>
  PROVE  /\ Pair!Seg' = Pair!Seg
         /\ Pair!Within(Pair!Seg)' = Pair!Within(Pair!Seg)
         /\ Pair!Size(Pair!Seg)' = Pair!Size(Pair!Seg)
         /\ UNCHANGED best => Pair!BestOf(Pair!Seg)' = Pair!BestOf(Pair!Seg)
         /\ UNCHANGED <<best, strip>> /\ Merging => Merging'
         /\ UNCHANGED order /\ Ordered => Ordered'
         /\ UNCHANGED order /\ Rising => Rising'
<1>1. Pair!Seg' = Pair!Seg
  BY DEF Pair!Seg, Pair!Last
<1>2. /\ Pair!Within(Pair!Seg)' = Pair!Within(Pair!Seg)
      /\ Pair!Size(Pair!Seg)' = Pair!Size(Pair!Seg)
  BY <1>1 DEF Pair!Within, Pair!Size
<1>3. /\ Pair!Left(Pair!Seg)' = Pair!Left(Pair!Seg)
      /\ Pair!Right(Pair!Seg)' = Pair!Right(Pair!Seg)
      /\ Pair!Mid(Pair!Seg)' = Pair!Mid(Pair!Seg)
  BY <1>1 DEF Pair!Left, Pair!Right, Pair!Mid, Pair!Size
<1>4. UNCHANGED best => Pair!BestOf(Pair!Seg)' = Pair!BestOf(Pair!Seg)
  BY <1>3 DEF Pair!BestOf
<1>5. ASSUME UNCHANGED best
      PROVE  Pair!Near(Pair!Seg, Pair!BestOf(Pair!Seg).dist)'
               = Pair!Near(Pair!Seg, Pair!BestOf(Pair!Seg).dist)
  BY <1>1, <1>2, <1>3, <1>4, <1>5 DEF Pair!Near, Pair!Square
<1>6. UNCHANGED <<best, strip>> /\ Merging => Merging'
  BY <1>2, <1>3, <1>4, <1>5 DEF Merging
<1>7. UNCHANGED order /\ Ordered => Ordered'
  BY <1>2 DEF Ordered
<1>8. UNCHANGED order /\ Rising => Rising'
  BY DEF Rising
<1>9. QED
  BY <1>1, <1>2, <1>4, <1>6, <1>7, <1>8

LEMMA BaseStep ==
  ASSUME PairInv, Pair!Base
  PROVE  PairInv'
<1> DEFINE seg == Pair!Seg
           c == Pair!Size(seg)
<1>1. /\ phase = "call" /\ calls # <<>> /\ c <= 3
      /\ phase' = "pairs"
      /\ order' = [n \in 1 .. c |-> seg.lo + n - 1]
      /\ row' = 1 /\ col' = 2
      /\ UNCHANGED <<points, calls, best, strip, min>>
  BY DEF Pair!Base, Pair!Called
<1>2. /\ seg.lo \in Nat /\ seg.hi \in Nat /\ seg.lo <= seg.hi + 1
      /\ c = seg.hi - seg.lo + 1 /\ c \in Nat
      /\ Pair!Within(seg) = seg.lo .. seg.hi
  BY <1>1, SegIs DEF Pair!Size, Pair!Within
<1>3. /\ Pair!Within(Pair!Seg)' = seg.lo .. seg.hi
      /\ Pair!Size(Pair!Seg)' = c /\ Pair!Seg' = seg
  BY <1>1, <1>2, SegFrame
<1>4. min = Pair!Nothing /\ strip = {}
  BY <1>1 DEF PairInv
<1> HIDE DEF seg, c
<1>5. /\ order' \in Seq(seg.lo .. seg.hi) /\ Len(order') = c
      /\ \A a \in 1 .. c : order'[a] = seg.lo + a - 1
  <2>1. \A a \in 1 .. c : seg.lo + a - 1 \in seg.lo .. seg.hi
    BY <1>2
  <2>2. /\ order' \in [1 .. c -> seg.lo .. seg.hi]
        /\ \A a \in 1 .. c : order'[a] = seg.lo + a - 1
    BY <1>1, <2>1
  <2>3. c \in Nat
    BY <1>2
  <2>4. order' \in Seq(seg.lo .. seg.hi) /\ Len(order') = c
    BY <1>1, <2>1, <2>3
  <2>5. QED
    BY <2>2, <2>4
<1>6. Ordered'
  BY <1>2, <1>3, <1>5 DEF Ordered
<1>7. Looked'
  BY <1>1, <1>2, <1>5 DEF Looked
<1>8. Found(Pair!Seg, min)'
  <2>1. min'.dist = Far /\ Far \in Int /\ Far <= Far
    BY <1>1, <1>4, PairAssumption DEF Pair!Nothing
  <2>2. QED
    BY <2>1 DEF Found
<1>9. ASSUME NEW i \in seg.lo .. seg.hi
      PROVE  \E a \in 1 .. Len(order') : order'[a] = i
  <2>1. i - seg.lo + 1 \in 1 .. c /\ seg.lo + (i - seg.lo + 1) - 1 = i
    <3>1. i \in Int /\ seg.lo <= i /\ i <= seg.hi
      BY <1>2
    <3>2. \A l, h, n \in Int :
            l <= n /\ n <= h =>
              n - l + 1 \in 1 .. h - l + 1 /\ l + (n - l + 1) - 1 = n
      OBVIOUS
    <3>3. seg.lo \in Int /\ seg.hi \in Int /\ c = seg.hi - seg.lo + 1
      BY <1>2
    <3>4. QED
      BY <3>1, <3>2, <3>3
  <2>2. QED
    BY <1>5, <2>1
<1>10. PairsInv'
  <2>1. /\ row' \in Nat /\ row' >= 1 /\ col' \in Nat /\ row' < col'
    BY <1>1
  <2>2. Pair!Size(Pair!Seg)' <= 3 /\ ~(Pair!Size(Pair!Seg)' > 3)
    BY <1>1, <1>2, <1>3
  <2>3. QED
    BY <1>1, <1>3, <1>4, <1>6, <1>7, <1>8, <1>9, <2>1, <2>2 DEF PairsInv
<1>11. PairData' /\ BestInv' /\ Segments' = Segments
  BY <1>1, PairFrame DEF PairInv
<1>12. QED
  BY <1>1, <1>10, <1>11 DEF PairInv

LEMMA DescendStep ==
  ASSUME PairInv, Pair!Descend
  PROVE  PairInv'
<1>1. /\ phase = "call" /\ calls # <<>> /\ ~(Pair!Size(Pair!Seg) <= 3)
      /\ calls' = Append(calls, IF Pair!Solved(Pair!Left(Pair!Seg))
                                THEN Pair!Right(Pair!Seg)
                                ELSE Pair!Left(Pair!Seg))
      /\ UNCHANGED <<points, best, strip, phase, order, row, col, min>>
  BY DEF Pair!Descend, Pair!Called
<1>2. /\ Pair!Left(Pair!Seg) \in Segments /\ Pair!Right(Pair!Seg) \in Segments
  <2>1. Pair!Seg \in Segments /\ Pair!Size(Pair!Seg) > 3
    BY <1>1, SegIs
  <2>2. QED
    BY <2>1, HalvesAre DEF PairInv
<1>3. calls' \in Seq(Segments)
  BY <1>1, <1>2 DEF PairInv
<1>4. PairData' /\ BestInv' /\ Segments' = Segments
  BY <1>1, PairFrame DEF PairInv
<1>5. QED
  BY <1>1, <1>3, <1>4 DEF PairInv, Pair!Nothing

LEMMA FillStep ==
  ASSUME PairInv, Pair!Fill
  PROVE  PairInv'
<1>1. /\ phase = "call" /\ calls # <<>> /\ ~(Pair!Size(Pair!Seg) <= 3)
      /\ Pair!Left(Pair!Seg) \in DOMAIN best
      /\ Pair!Right(Pair!Seg) \in DOMAIN best
      /\ min' = Pair!BestOf(Pair!Seg)
      /\ strip' = strip \cup Pair!Near(Pair!Seg, min'.dist)
      /\ phase' = "sort"
      /\ UNCHANGED <<points, calls, best, order, row, col>>
  BY DEF Pair!Fill, Pair!Called, Pair!Solved
<1>2. strip = {} /\ order = <<>>
  BY <1>1 DEF PairInv
<1>3. /\ Pair!Seg' = Pair!Seg
      /\ Pair!Size(Pair!Seg)' = Pair!Size(Pair!Seg)
      /\ Pair!BestOf(Pair!Seg)' = Pair!BestOf(Pair!Seg)
  BY <1>1, SegFrame
<1>4. /\ Pair!Left(Pair!Seg)' = Pair!Left(Pair!Seg)
      /\ Pair!Right(Pair!Seg)' = Pair!Right(Pair!Seg)
      /\ \A d : Pair!Near(Pair!Seg, d)' = Pair!Near(Pair!Seg, d)
  BY <1>1, <1>3 DEF Pair!Left, Pair!Right, Pair!Mid, Pair!Size, Pair!Near,
                    Pair!Within, Pair!Square
<1>5. Pair!Size(Pair!Seg) > 3
  BY <1>1, SegIs
<1>6. Merging'
  <2>1. strip' = Pair!Near(Pair!Seg, Pair!BestOf(Pair!Seg).dist)'
    BY <1>1, <1>2, <1>3 DEF Pair!Near, Pair!Within, Pair!Mid, Pair!Size,
                            Pair!Square
  <2>2. QED
    BY <1>1, <1>3, <1>4, <1>5, <2>1 DEF Merging
<1>7. Ordered' /\ Rising'
  BY <1>1, <1>2 DEF Ordered, Rising
<1>8. SortInv'
  BY <1>1, <1>2, <1>3, <1>6, <1>7 DEF SortInv
<1>9. PairData' /\ BestInv' /\ Segments' = Segments
  BY <1>1, PairFrame DEF PairInv
<1>10. QED
  BY <1>1, <1>8, <1>9 DEF PairInv

LEMMA SortStep ==
  ASSUME PairInv, Pair!Sort
  PROVE  PairInv'
<1>1. PICK i \in Pair!Unsorted :
        /\ \A j \in Pair!Unsorted : points[i].y <= points[j].y
        /\ order' = Append(order, i)
  BY DEF Pair!Sort
<1>2. /\ phase = "sort" /\ UNCHANGED <<points, calls, best, strip, phase, min>>
  BY DEF Pair!Sort
<1>3. SortInv /\ calls # <<>> /\ PairData
  BY <1>2 DEF PairInv
<1>4. /\ Pair!Within(Pair!Seg)' = Pair!Within(Pair!Seg)
      /\ Pair!BestOf(Pair!Seg)' = Pair!BestOf(Pair!Seg)
      /\ Merging'
  BY <1>2, <1>3, SegFrame DEF SortInv
<1> DEFINE N == Len(order)
<1>5. /\ order \in Seq(Pair!Within(Pair!Seg)) /\ N \in Nat
      /\ \A a, b \in 1 .. N : a # b => order[a] # order[b]
      /\ \A a \in 1 .. N : order[a] \in Pair!Within(Pair!Seg)
  BY <1>3 DEF SortInv, Ordered
<1>6. /\ \A a, b \in 1 .. N : a < b => points[order[a]].y <= points[order[b]].y
      /\ \A a \in 1 .. N :
           /\ order[a] \in strip
           /\ \A j \in Pair!Unsorted : points[order[a]].y <= points[j].y
  BY <1>3 DEF SortInv, Rising
<1>7. \A j : j \in Pair!Unsorted <=>
              j \in strip /\ \A a \in 1 .. N : order[a] # j
  BY <1>5 DEF Pair!Unsorted, Pair!ToSet
<1>8. i \in strip /\ i \in Pair!Within(Pair!Seg) /\ points[i].y \in Int
  <2>1. i \in strip
    BY <1>7
  <2>2. i \in Pair!Within(Pair!Seg)
    BY <1>3, <2>1 DEF SortInv, Merging, Pair!Near
  <2>3. i \in 1 .. Len(points)
    BY <1>3, <2>2, SegIs
  <2>4. QED
    BY <1>3, <2>1, <2>2, <2>3, Distances
<1> HIDE DEF N
<1>9. /\ order' \in Seq(Pair!Within(Pair!Seg)) /\ Len(order') = N + 1
      /\ \A a \in 1 .. N : order'[a] = order[a]
      /\ order'[N + 1] = i
  BY <1>1, <1>5, <1>8 DEF N
<1>10. \A a \in 1 .. N + 1 : a \in 1 .. N \/ a = N + 1
  BY <1>5
<1>11. Ordered'
  <2>1. ASSUME NEW a \in 1 .. N + 1, NEW b \in 1 .. N + 1, a # b
        PROVE  order'[a] # order'[b]
    BY <1>5, <1>7, <1>9, <1>10, <2>1
  <2>2. QED
    BY <1>4, <1>9, <2>1 DEF Ordered
<1>12. ASSUME NEW a \in 1 .. N + 1, NEW b \in 1 .. N + 1, a < b
       PROVE  points[order'[a]].y <= points[order'[b]].y
  <2>1. a \in 1 .. N
    BY <1>5, <1>12
  <2>2. CASE b = N + 1
    BY <1>6, <1>9, <2>1, <2>2
  <2>3. CASE b \in 1 .. N
    BY <1>6, <1>9, <1>12, <2>1, <2>3
  <2>4. QED
    BY <1>10, <2>2, <2>3
<1>13. Rising'
  BY <1>2, <1>9, <1>12 DEF Rising
<1>14. \A j \in Pair!Unsorted' : j \in Pair!Unsorted
  <2>1. \A j : j \in Pair!Unsorted' <=>
                j \in strip' /\ j \notin {order'[a] : a \in 1 .. N + 1}
    BY <1>9 DEF Pair!Unsorted, Pair!ToSet
  <2>2. \A a \in 1 .. N : a \in 1 .. N + 1
    BY <1>5
  <2>3. QED
    BY <1>2, <1>7, <1>9, <2>1, <2>2
<1>15. ASSUME NEW a \in 1 .. N + 1
       PROVE  /\ order'[a] \in strip'
              /\ \A j \in Pair!Unsorted' : points'[order'[a]].y <= points'[j].y
  <2>1. CASE a = N + 1
    BY <1>1, <1>2, <1>8, <1>9, <1>14, <2>1
  <2>2. CASE a \in 1 .. N
    BY <1>2, <1>6, <1>9, <1>14, <2>2
  <2>3. QED
    BY <1>10, <2>1, <2>2
<1>16. SortInv'
  <2>1. min' = Pair!BestOf(Pair!Seg)'
    BY <1>2, <1>3, <1>4 DEF SortInv
  <2>2. \A a \in 1 .. Len(order') :
          /\ order'[a] \in strip'
          /\ \A j \in Pair!Unsorted' : points'[order'[a]].y <= points'[j].y
    BY <1>9, <1>15
  <2>3. QED
    BY <1>4, <1>11, <1>13, <2>1, <2>2 DEF SortInv
<1>17. PairData' /\ BestInv' /\ Segments' = Segments
  BY <1>2, PairFrame DEF PairInv
<1>18. QED
  BY <1>2, <1>16, <1>17 DEF PairInv

(* What the halves returned is a result of the whole.                      *)
LEMMA BestIsFound ==
  ASSUME PairInv, calls # <<>>, Merging
  PROVE  /\ Found(Pair!Seg, Pair!BestOf(Pair!Seg))
         /\ Pair!BestOf(Pair!Seg).dist \in Int
         /\ \A i, j \in Pair!Within(Pair!Seg) :
              i < j /\ (j < Pair!Mid(Pair!Seg) \/ i >= Pair!Mid(Pair!Seg)) =>
                Pair!BestOf(Pair!Seg).dist <= Pair!Dist(i, j)
<1> DEFINE seg == Pair!Seg
           mid == Pair!Mid(seg)
           l == best[Pair!Left(seg)]
           r == best[Pair!Right(seg)]
           m == Pair!BestOf(seg)
<1>1. /\ seg \in Segments /\ seg.lo \in Nat /\ seg.hi \in Nat
      /\ \A i \in seg.lo .. seg.hi : i \in 1 .. Len(points) /\ i \in Nat
  BY SegIs DEF Pair!Within
<1>2. /\ mid \in Nat /\ seg.lo < mid /\ mid <= seg.hi
      /\ Pair!Left(seg).lo = seg.lo /\ Pair!Left(seg).hi = mid - 1
      /\ Pair!Right(seg).lo = mid /\ Pair!Right(seg).hi = seg.hi
  BY <1>1, HalvesAre DEF PairInv, Merging
<1>3. Nearest(Pair!Left(seg), l) /\ Nearest(Pair!Right(seg), r)
  BY DEF PairInv, BestInv, Merging
<1> HIDE DEF seg, mid, l, r, m
<1>4. /\ l.dist \in Int /\ r.dist \in Int
      /\ \A i, j \in seg.lo .. mid - 1 : i < j => l.dist <= Pair!Dist(i, j)
      /\ \A i, j \in mid .. seg.hi : i < j => r.dist <= Pair!Dist(i, j)
  BY <1>2, <1>3 DEF Nearest, Found
<1>5. (m = l \/ m = r) /\ m.dist <= l.dist /\ m.dist <= r.dist
  <2>1. m = IF r.dist < l.dist THEN r ELSE l
    BY DEF m, l, r, seg, Pair!BestOf
  <2>2. QED
    BY <1>4, <2>1
<1>6. \A i : i \in seg.lo .. mid - 1 \/ i \in mid .. seg.hi =>
               i \in seg.lo .. seg.hi
  BY <1>1, <1>2
<1>7. Found(seg, m)
  <2>1. Found(seg, l)
    BY <1>2, <1>3, <1>6 DEF Nearest, Found
  <2>2. Found(seg, r)
    BY <1>2, <1>3, <1>6 DEF Nearest, Found
  <2>3. QED
    BY <1>5, <2>1, <2>2
<1>8. ASSUME NEW i \in seg.lo .. seg.hi, NEW j \in seg.lo .. seg.hi,
             i < j, j < mid \/ i >= mid
      PROVE  m.dist <= Pair!Dist(i, j)
  <2>1. Pair!Dist(i, j) \in Int
    BY <1>1, Distances DEF PairInv
  <2>2. CASE j < mid
    <3>1. i \in seg.lo .. mid - 1 /\ j \in seg.lo .. mid - 1
      BY <1>1, <1>2, <1>8, <2>2
    <3>2. QED
      BY <1>4, <1>5, <1>8, <2>1, <3>1
  <2>3. CASE i >= mid
    <3>1. i \in mid .. seg.hi /\ j \in mid .. seg.hi
      BY <1>1, <1>2, <1>8, <2>3
    <3>2. QED
      BY <1>4, <1>5, <1>8, <2>1, <3>1
  <2>4. QED
    BY <1>8, <2>2, <2>3
<1>9. m.dist \in Int
  BY <1>4, <1>5
<1>10. QED
  BY <1>7, <1>8, <1>9 DEF seg, mid, m, Pair!Within

LEMMA StartPairsStep ==
  ASSUME PairInv, Pair!StartPairs
  PROVE  PairInv'
<1>1. /\ phase = "sort" /\ Pair!Unsorted = {} /\ phase' = "pairs"
      /\ row' = 1 /\ col' = 2
      /\ UNCHANGED <<points, calls, best, strip, order, min>>
  BY DEF Pair!StartPairs
<1>2. SortInv /\ calls # <<>>
  BY <1>1 DEF PairInv
<1>3. /\ Pair!Within(Pair!Seg)' = Pair!Within(Pair!Seg)
      /\ Pair!Seg' = Pair!Seg
      /\ Pair!Size(Pair!Seg)' = Pair!Size(Pair!Seg)
      /\ Pair!BestOf(Pair!Seg)' = Pair!BestOf(Pair!Seg)
      /\ Merging' /\ Ordered' /\ Rising'
  BY <1>1, <1>2, SegFrame DEF SortInv
<1>4. /\ Found(Pair!Seg, min) /\ min.dist \in Int
      /\ min = Pair!BestOf(Pair!Seg)
  BY <1>2, BestIsFound DEF SortInv
<1>5. Found(Pair!Seg, min)'
  <2>1. \A s, t : Found(s, t) => Found(s, t)'
    BY <1>1, PairFrame
  <2>2. QED
    BY <1>1, <1>3, <1>4, <2>1 DEF Found
<1>6. /\ order \in Seq(Pair!Within(Pair!Seg)) /\ Len(order) \in Nat
      /\ Pair!Size(Pair!Seg) \in Nat /\ Pair!Size(Pair!Seg) > 3
  BY <1>2, SegIs DEF SortInv, Ordered, Merging
<1>7. \A i \in strip : \E a \in 1 .. Len(order) : order[a] = i
  BY <1>1, <1>6 DEF Pair!Unsorted, Pair!ToSet
<1>8. Looked'
  BY <1>1, <1>6 DEF Looked
<1>9. PairsInv'
  <2>1. /\ row' \in Nat /\ row' >= 1 /\ col' \in Nat /\ row' < col'
    BY <1>1
  <2>2. min'.dist <= Pair!BestOf(Pair!Seg)'.dist
    BY <1>1, <1>3, <1>4
  <2>3. ~(Pair!Size(Pair!Seg)' <= 3)
    BY <1>3, <1>6
  <2>4. \A i \in strip' : \E a \in 1 .. Len(order') : order'[a] = i
    BY <1>1, <1>7
  <2>5. QED
    BY <1>3, <1>5, <1>8, <2>1, <2>2, <2>3, <2>4 DEF PairsInv
<1>10. PairData' /\ BestInv' /\ Segments' = Segments
  BY <1>1, PairFrame DEF PairInv
<1>11. QED
  BY <1>1, <1>9, <1>10 DEF PairInv

(* What the loops over the pairs leave alone.                              *)
LEMMA PairsFrame ==
  ASSUME PairInv, phase = "pairs",
         UNCHANGED <<points, calls, best, strip, phase, order>>,
         Looked', Found(Pair!Seg, min'), min'.dist <= min.dist,
         row' \in Nat, row' >= 1, col' \in Nat, row' < col'
  PROVE  PairInv'
<1>1. PairsInv /\ calls # <<>>
  BY DEF PairInv
<1>2. /\ Pair!Within(Pair!Seg)' = Pair!Within(Pair!Seg)
      /\ Pair!Seg' = Pair!Seg
      /\ Pair!Size(Pair!Seg)' = Pair!Size(Pair!Seg)
      /\ Pair!BestOf(Pair!Seg)' = Pair!BestOf(Pair!Seg)
      /\ Ordered' /\ (Merging => Merging') /\ (Rising => Rising')
  BY <1>1, SegFrame DEF PairsInv
<1>3. Found(Pair!Seg, min)'
  <2>1. \A i, j : Pair!Dist(i, j)' = Pair!Dist(i, j)
    BY PairFrame
  <2>2. QED
    BY <1>2, <2>1 DEF Found
<1>4. Pair!Size(Pair!Seg) > 3 => min'.dist <= Pair!BestOf(Pair!Seg)'.dist
  <2> SUFFICES ASSUME Pair!Size(Pair!Seg) > 3
               PROVE  min'.dist <= Pair!BestOf(Pair!Seg).dist
    BY <1>2
  <2>1. min.dist <= Pair!BestOf(Pair!Seg).dist /\ Merging
    BY <1>1 DEF PairsInv
  <2>2. Pair!BestOf(Pair!Seg).dist \in Int
    BY <1>1, <2>1, BestIsFound
  <2>3. min.dist \in Int /\ min'.dist \in Int
    BY <1>1 DEF PairsInv, Found
  <2>4. QED
    BY <2>1, <2>2, <2>3
<1>5. PairsInv'
  BY <1>1, <1>2, <1>3, <1>4 DEF PairsInv
<1>6. PairData' /\ BestInv' /\ Segments' = Segments
  BY PairFrame DEF PairInv
<1>7. QED
  BY <1>1, <1>5, <1>6 DEF PairInv

LEMMA CompareStep ==
  ASSUME PairInv, Pair!Compare
  PROVE  PairInv'
<1> DEFINE N == Len(order)
           p == order[row]
           q == order[col]
<1>1. /\ phase = "pairs" /\ row <= N /\ col <= N
      /\ min' = Pair!Closer(p, q) /\ col' = col + 1
      /\ UNCHANGED <<points, calls, best, strip, phase, order, row>>
  BY DEF Pair!Compare, Pair!InReach
<1>2. PairsInv /\ calls # <<>> /\ PairData
  BY <1>1 DEF PairInv
<1>3. /\ order \in Seq(Pair!Within(Pair!Seg)) /\ N \in Nat
      /\ \A a, b \in 1 .. N : a # b => order[a] # order[b]
      /\ row \in Nat /\ col \in Nat /\ row >= 1 /\ row < col
      /\ Found(Pair!Seg, min) /\ Looked
      /\ \A a \in 1 .. N : order[a] \in Pair!Within(Pair!Seg)
  BY <1>2 DEF PairsInv, Ordered
<1> HIDE DEF N
<1>4. row \in 1 .. N /\ col \in 1 .. N /\ row # col
  BY <1>1, <1>3
<1>5. /\ p \in Pair!Within(Pair!Seg) /\ q \in Pair!Within(Pair!Seg) /\ p # q
      /\ p \in 1 .. Len(points) /\ q \in 1 .. Len(points)
  BY <1>2, <1>3, <1>4, SegIs
<1>6. Pair!Dist(p, q) \in Int
  BY <1>2, <1>5, Distances
<1> HIDE DEF p, q
<1>7. min.dist \in Int /\ min.dist <= Far /\ Far \in Int
  BY <1>3, PairAssumption DEF Found
<1>8. CASE Pair!Dist(p, q) < min.dist
  <2>1. min' = [dist |-> Pair!Dist(p, q), p1 |-> p, p2 |-> q]
    BY <1>1, <1>8 DEF Pair!Closer
  <2>2. /\ min'.dist = Pair!Dist(p, q) /\ min'.p1 = p /\ min'.p2 = q
        /\ min'.dist \in Int /\ min'.dist <= Far /\ min'.dist <= min.dist
    BY <1>6, <1>7, <1>8, <2>1
  <2>3. Found(Pair!Seg, min')
    BY <1>5, <2>2 DEF Found, Pair!Within
  <2>4. Looked'
    <3> SUFFICES ASSUME NEW a \in 1 .. N, NEW b \in 1 .. N, a < b,
                        a < row \/ (a = row /\ b < col + 1)
                 PROVE  min'.dist <= Pair!Dist(order[a], order[b])
      BY <1>1 DEF Looked, N, Pair!Dist, Pair!Square
    <3>1. order[a] \in 1 .. Len(points) /\ order[b] \in 1 .. Len(points)
      BY <1>2, <1>3, SegIs
    <3>2. Pair!Dist(order[a], order[b]) \in Int
      BY <1>2, <3>1, Distances
    <3>3. CASE a = row /\ b = col
      BY <2>2, <3>2, <3>3 DEF p, q
    <3>4. CASE ~(a = row /\ b = col)
      <4>1. a < row \/ (a = row /\ b < col)
        BY <1>3, <3>4
      <4>2. min.dist <= Pair!Dist(order[a], order[b])
        BY <1>3, <4>1 DEF Looked, N
      <4>3. QED
        BY <1>7, <2>2, <3>2, <4>2
    <3>5. QED
      BY <3>3, <3>4
  <2>5. row' \in Nat /\ row' >= 1 /\ col' \in Nat /\ row' < col'
    BY <1>1, <1>3
  <2>6. QED
    BY <1>1, <2>2, <2>3, <2>4, <2>5, PairsFrame
<1>9. CASE ~(Pair!Dist(p, q) < min.dist)
  <2>1. min' = min
    BY <1>1, <1>9 DEF Pair!Closer
  <2>2. min.dist <= min.dist /\ min.dist <= Pair!Dist(p, q)
    BY <1>6, <1>7, <1>9
  <2>3. Looked'
    <3> SUFFICES ASSUME NEW a \in 1 .. N, NEW b \in 1 .. N, a < b,
                        a < row \/ (a = row /\ b < col + 1)
                 PROVE  min.dist <= Pair!Dist(order[a], order[b])
      BY <1>1, <2>1 DEF Looked, N, Pair!Dist, Pair!Square
    <3>1. CASE a = row /\ b = col
      BY <2>2, <3>1 DEF p, q
    <3>2. CASE ~(a = row /\ b = col)
      <4>1. a < row \/ (a = row /\ b < col)
        BY <1>3, <3>2
      <4>2. QED
        BY <1>3, <4>1 DEF Looked, N
    <3>3. QED
      BY <3>1, <3>2
  <2>4. row' \in Nat /\ row' >= 1 /\ col' \in Nat /\ row' < col'
    BY <1>1, <1>3
  <2>5. QED
    BY <1>1, <1>3, <2>1, <2>2, <2>3, <2>4, PairsFrame
<1>10. QED
  BY <1>8, <1>9

(* A point that is too high above another is as far from it as the result, *)
(* and so is every point after it.                                         *)
LEMMA NextRowStep ==
  ASSUME PairInv, Pair!NextRow
  PROVE  PairInv'
<1> DEFINE N == Len(order)
           p == order[row]
           q == order[col]
<1>1. /\ phase = "pairs" /\ row <= N
      /\ row' = row + 1 /\ col' = row + 2
      /\ UNCHANGED <<points, calls, best, strip, phase, order, min>>
  BY DEF Pair!NextRow
<1>2. \/ col > N
      \/ /\ col <= N /\ Pair!Size(Pair!Seg) > 3
         /\ ~(Pair!Square(points[q].y - points[p].y) < min.dist)
  <2>1. ~Pair!InReach
    BY DEF Pair!NextRow
  <2>2. col \in Nat /\ N \in Nat
    BY <1>1 DEF PairInv, PairsInv, Ordered
  <2>3. QED
    BY <2>1, <2>2 DEF Pair!InReach
<1>3. PairsInv /\ calls # <<>> /\ PairData
  BY <1>1 DEF PairInv
<1>4. /\ order \in Seq(Pair!Within(Pair!Seg)) /\ N \in Nat
      /\ row \in Nat /\ col \in Nat /\ row >= 1 /\ row < col
      /\ Found(Pair!Seg, min) /\ Looked
      /\ \A a \in 1 .. N : order[a] \in Pair!Within(Pair!Seg)
  BY <1>3 DEF PairsInv, Ordered
<1> HIDE DEF N
<1>5. \A a \in 1 .. N : order[a] \in 1 .. Len(points)
  BY <1>3, <1>4, SegIs
<1>6. min.dist \in Int /\ min.dist <= min.dist
  BY <1>4 DEF Found
<1>7. ASSUME NEW b \in 1 .. N, b >= col
      PROVE  min.dist <= Pair!Dist(p, order[b])
  <2>1. /\ row \in 1 .. N /\ col \in 1 .. N /\ row < col
        /\ Pair!Size(Pair!Seg) > 3
        /\ ~(Pair!Square(points[q].y - points[p].y) < min.dist)
    BY <1>1, <1>2, <1>4, <1>7
  <2>2. \A a, c \in 1 .. N : a < c => points[order[a]].y <= points[order[c]].y
    BY <1>3, <2>1 DEF PairsInv, Rising, N
  <2> DEFINE z == order[b]
  <2>3. /\ p \in 1 .. Len(points) /\ q \in 1 .. Len(points)
        /\ z \in 1 .. Len(points)
    BY <1>5, <2>1
  <2>4. /\ points[p].y \in Int /\ points[q].y \in Int /\ points[z].y \in Int
        /\ Pair!Dist(p, z) \in Int
    BY <1>3, <2>3, Distances
  <2>5. points[p].y <= points[q].y
    BY <2>1, <2>2
  <2>6. points[q].y <= points[z].y
    <3>1. CASE b = col
      BY <2>4, <3>1
    <3>2. CASE b # col
      BY <1>4, <1>7, <2>1, <2>2, <3>2
    <3>3. QED
      BY <3>1, <3>2
  <2> DEFINE u == points[q].y - points[p].y
  <2>7. u \in Int /\ 0 <= u /\ u <= points[z].y - points[p].y
    BY <2>4, <2>5, <2>6
  <2> HIDE DEF u, z, p, q
  <2>8. u * u <= Pair!Dist(p, z)
    BY <1>3, <2>3, <2>7, Distances
  <2>9. ~(u * u < min.dist) /\ u * u \in Int
    BY <2>1, <2>7 DEF u, Pair!Square
  <2>10. min.dist <= Pair!Dist(p, z)
    BY <1>6, <2>4, <2>8, <2>9
  <2>11. QED
    BY <2>10 DEF z
<1>8. Looked'
  <2> SUFFICES ASSUME NEW a \in 1 .. N, NEW b \in 1 .. N, a < b,
                      a < row + 1 \/ (a = row + 1 /\ b < row + 2)
               PROVE  min.dist <= Pair!Dist(order[a], order[b])
    BY <1>1 DEF Looked, N, Pair!Dist, Pair!Square
  <2>1. a < row \/ (a = row /\ b < col) \/ (a = row /\ b >= col)
    BY <1>4
  <2>2. CASE a = row /\ b >= col
    BY <1>7, <2>2
  <2>3. CASE a < row \/ (a = row /\ b < col)
    BY <1>4, <2>3 DEF Looked, N
  <2>4. QED
    BY <2>1, <2>2, <2>3
<1>9. row' \in Nat /\ row' >= 1 /\ col' \in Nat /\ row' < col'
  BY <1>1, <1>4
<1>10. QED
  BY <1>1, <1>4, <1>6, <1>8, <1>9, PairsFrame

(* All pairs are passed: the result is the closest pair of the segment,    *)
(* for no point that the strip has not got is as near to one of the other  *)
(* half.                                                                   *)
LEMMA ResultIsNearest ==
  ASSUME PairInv, phase = "pairs", row > Len(order)
  PROVE  Nearest(Pair!Seg, min)
<1> DEFINE seg == Pair!Seg
           mid == Pair!Mid(seg)
           m == Pair!BestOf(seg)
           N == Len(order)
<1>1. PairsInv /\ calls # <<>> /\ PairData
  BY DEF PairInv
<1>2. /\ order \in Seq(Pair!Within(seg)) /\ N \in Nat /\ row \in Nat
      /\ Found(seg, min) /\ Looked /\ min.dist \in Int
  BY <1>1 DEF PairsInv, Ordered, Found
<1>3. /\ seg.lo \in Nat /\ seg.hi \in Nat /\ Pair!Size(seg) \in Nat
      /\ seg \in Segments
      /\ Pair!Within(seg) = seg.lo .. seg.hi
      /\ \A i \in seg.lo .. seg.hi : i \in 1 .. Len(points) /\ i \in Nat
  BY <1>1, SegIs DEF Pair!Within
<1> HIDE DEF seg, N
<1>4. ASSUME NEW a \in 1 .. N, NEW b \in 1 .. N, order[a] # order[b],
             order[a] \in seg.lo .. seg.hi, order[b] \in seg.lo .. seg.hi
      PROVE  min.dist <= Pair!Dist(order[a], order[b])
  <2>1. Pair!Dist(order[a], order[b]) = Pair!Dist(order[b], order[a])
    BY <1>1, <1>3, <1>4, Distances
  <2>2. a < b \/ b < a
    BY <1>2, <1>4
  <2>3. \A c, d \in 1 .. N :
          c < d => min.dist <= Pair!Dist(order[c], order[d])
    BY <1>2 DEF Looked, N
  <2>4. QED
    BY <2>1, <2>2, <2>3
<1>5. CASE Pair!Size(seg) <= 3
  <2>1. \A i \in seg.lo .. seg.hi : \E a \in 1 .. N : order[a] = i
    BY <1>1, <1>3, <1>5 DEF PairsInv, seg, N
  <2>2. ASSUME NEW i \in seg.lo .. seg.hi, NEW j \in seg.lo .. seg.hi, i < j
        PROVE  min.dist <= Pair!Dist(i, j)
    <3>1. PICK a \in 1 .. N : order[a] = i
      BY <2>1
    <3>2. PICK b \in 1 .. N : order[b] = j
      BY <2>1
    <3>3. i # j
      BY <1>3, <2>2
    <3>4. QED
      BY <1>4, <3>1, <3>2, <3>3
  <2>3. QED
    BY <1>2, <2>2 DEF Nearest, seg
<1>6. CASE ~(Pair!Size(seg) <= 3)
  <2>1. /\ Merging /\ min.dist <= m.dist
        /\ \A i \in strip : \E a \in 1 .. N : order[a] = i
    BY <1>1, <1>3, <1>6 DEF PairsInv, seg, N
  <2>2. /\ mid \in Nat /\ seg.lo < mid /\ mid <= seg.hi
        /\ mid \in seg.lo .. seg.hi
    BY <1>1, <1>3, <2>1, HalvesAre DEF Merging, seg
  <2>3. /\ m.dist \in Int
        /\ \A i, j \in seg.lo .. seg.hi :
             i < j /\ (j < mid \/ i >= mid) => m.dist <= Pair!Dist(i, j)
    BY <1>1, <1>3, <2>1, BestIsFound DEF seg
  <2>4. \A i \in seg.lo .. seg.hi :
          i \notin strip =>
            ~((points[i].x - points[mid].x) * (points[i].x - points[mid].x)
                < m.dist)
    BY <1>3, <2>1 DEF Merging, Pair!Near, Pair!Square, seg
  <2> HIDE DEF mid, m
  <2>5. ASSUME NEW i \in seg.lo .. seg.hi, NEW j \in seg.lo .. seg.hi, i < j
        PROVE  min.dist <= Pair!Dist(i, j)
    <3>1. /\ i \in 1 .. Len(points) /\ j \in 1 .. Len(points)
          /\ mid \in 1 .. Len(points) /\ i \in Nat /\ j \in Nat
      BY <1>3, <2>2
    <3>2. Pair!Dist(i, j) \in Int
      BY <1>1, <3>1, Distances
    <3>3. CASE j < mid \/ i >= mid
      <4>1. m.dist <= Pair!Dist(i, j)
        BY <2>3, <2>5, <3>3
      <4>2. QED
        BY <1>2, <2>1, <2>3, <3>2, <4>1
    <3>4. CASE i \in strip /\ j \in strip
      <4>1. PICK a \in 1 .. N : order[a] = i
        BY <2>1, <3>4
      <4>2. PICK b \in 1 .. N : order[b] = j
        BY <2>1, <3>4
      <4>3. i # j
        BY <2>5, <3>1
      <4>4. QED
        BY <1>4, <4>1, <4>2, <4>3
    <3>5. CASE i < mid /\ j >= mid /\ ~(i \in strip /\ j \in strip)
      <4> DEFINE xi == points[i].x
                 xj == points[j].x
                 xm == points[mid].x
      <4>1. xi \in Int /\ xj \in Int /\ xm \in Int
        BY <1>1, <3>1, Distances
      <4>2. xi <= xm /\ xm <= xj
        BY <1>1, <2>2, <3>1, <3>5 DEF PairData
      <4>3. /\ \A u \in Int :
                 0 <= u /\ u <= xj - xi => u * u <= Pair!Dist(i, j)
            /\ i \notin strip => ~((xi - xm) * (xi - xm) < m.dist)
            /\ j \notin strip => ~((xj - xm) * (xj - xm) < m.dist)
        BY <1>1, <2>4, <3>1, Distances
      <4> HIDE DEF xi, xj, xm
      <4> DEFINE u == xm - xi
                 v == xj - xm
      <4>4. /\ u \in Int /\ 0 <= u /\ u <= xj - xi
            /\ v \in Int /\ 0 <= v /\ v <= xj - xi
        BY <4>1, <4>2
      <4>5. /\ (xi - xm) * (xi - xm) = u * u
            /\ (xj - xm) * (xj - xm) = v * v
        BY <4>1
      <4> HIDE DEF u, v
      <4>6. u * u <= Pair!Dist(i, j) /\ v * v <= Pair!Dist(i, j)
        BY <4>3, <4>4
      <4>7. ~(u * u < m.dist) \/ ~(v * v < m.dist)
        BY <3>5, <4>3, <4>5
      <4>8. u * u \in Int /\ v * v \in Int
        BY <4>4
      <4>9. m.dist <= Pair!Dist(i, j)
        BY <2>3, <3>2, <4>6, <4>7, <4>8
      <4>10. QED
        BY <1>2, <2>1, <2>3, <3>2, <4>9
    <3>6. QED
      BY <2>2, <3>1, <3>3, <3>4, <3>5
  <2>6. QED
    BY <1>2, <2>5 DEF Nearest, seg
<1>7. QED
  BY <1>5, <1>6

LEMMA PairReturnStep ==
  ASSUME PairInv, Pair!Return
  PROVE  PairInv'
<1> DEFINE seg == Pair!Seg
<1>1. /\ phase = "pairs" /\ row > Len(order) /\ phase' = "call"
      /\ best' = [s \in DOMAIN best \cup {seg} |->
                    IF s = seg THEN min ELSE best[s]]
      /\ calls' = SubSeq(calls, 1, Len(calls) - 1)
      /\ order' = <<>> /\ min' = Pair!Nothing
      /\ strip' = IF Pair!Size(seg) > 3 THEN {} ELSE strip
      /\ UNCHANGED points
  BY DEF Pair!Return, Pair!Result, Pair!Front
<1>2. calls # <<>> /\ PairsInv /\ BestInv
  BY <1>1 DEF PairInv
<1>3. seg \in Segments /\ Nearest(seg, min) /\ Pair!Size(seg) \in Nat
  BY <1>1, <1>2, ResultIsNearest, SegIs
<1>4. strip' = {}
  <2>1. Pair!Size(seg) <= 3 => strip = {}
    BY <1>2 DEF PairsInv
  <2>2. QED
    BY <1>1, <1>3, <2>1
<1> HIDE DEF seg
<1>5. calls' \in Seq(Segments)
  <2>1. calls \in Seq(Segments) /\ Len(calls) \in Nat \ {0}
    BY <1>2 DEF PairInv
  <2>2. QED
    BY <1>1, <2>1
<1>6. \A s \in DOMAIN best' : s \in Segments /\ Nearest(s, best'[s])
  <2> SUFFICES ASSUME NEW s \in DOMAIN best'
               PROVE  s \in Segments /\ Nearest(s, best'[s])
    OBVIOUS
  <2>1. CASE s = seg
    BY <1>1, <1>3, <2>1
  <2>2. CASE s # seg
    <3>1. s \in DOMAIN best /\ best'[s] = best[s]
      BY <1>1, <2>2
    <3>2. QED
      BY <1>2, <3>1 DEF BestInv
  <2>3. QED
    BY <2>1, <2>2
<1>7. /\ Segments' = Segments /\ PairData'
      /\ \A s, r : Nearest(s, r) => Nearest(s, r)'
  BY <1>1, PairFrame DEF PairInv
<1>8. \A i, j : Pair!Dist(i, j)' = Pair!Dist(i, j)
  BY <1>1, PairFrame
<1>9. BestInv'
  BY <1>6, <1>7, <1>8 DEF BestInv, Nearest, Found
<1>10. QED
  BY <1>1, <1>4, <1>5, <1>7, <1>9 DEF PairInv, Pair!Nothing

LEMMA PairStep ==
  ASSUME PairInv, [Pair!Next]_Pair!vars
  PROVE  PairInv'
<1>1. CASE UNCHANGED Pair!vars
  <2>1. UNCHANGED <<points, calls, best, strip, phase, order, row, col, min>>
    BY <1>1 DEF Pair!vars
  <2>2. PairData' /\ BestInv' /\ Segments' = Segments
    BY <2>1, PairFrame DEF PairInv
  <2>3. CASE phase = "call"
    BY <2>1, <2>2, <2>3 DEF PairInv, Pair!Nothing
  <2>4. CASE phase = "sort"
    <3>1. SortInv
      BY <2>4 DEF PairInv
    <3>2. /\ Merging' /\ Ordered' /\ Rising'
          /\ Pair!BestOf(Pair!Seg)' = Pair!BestOf(Pair!Seg)
      BY <2>1, <3>1, SegFrame DEF SortInv
    <3>3. Pair!Unsorted' = Pair!Unsorted
      BY <2>1 DEF Pair!Unsorted, Pair!ToSet
    <3>4. SortInv'
      BY <2>1, <3>1, <3>2, <3>3 DEF SortInv
    <3>5. QED
      BY <2>1, <2>2, <2>4, <3>4 DEF PairInv
  <2>5. CASE phase = "pairs"
    <3>1. PairsInv
      BY <2>5 DEF PairInv
    <3>2. Looked'
      BY <2>1, <3>1 DEF PairsInv, Looked, Pair!Dist, Pair!Square
    <3>3. Found(Pair!Seg, min') /\ min'.dist <= min.dist
      BY <2>1, <3>1 DEF PairsInv, Found
    <3>4. row' \in Nat /\ row' >= 1 /\ col' \in Nat /\ row' < col'
      BY <2>1, <3>1 DEF PairsInv
    <3>5. QED
      BY <2>1, <2>5, <3>2, <3>3, <3>4, PairsFrame
  <2>6. QED
    BY <2>3, <2>4, <2>5 DEF PairInv
<1>2. QED
  BY <1>1, BaseStep, DescendStep, FillStep, SortStep, StartPairsStep,
     CompareStep, NextRowStep, PairReturnStep
  DEF Pair!Next

(* For any sequence of points sorted by x, with integer coordinates, and   *)
(* whatever the sort does to points of one height: what a call returns is  *)
(* the closest pair of its segment.                                        *)
THEOREM ClosestIsFound == Spec => []ClosestFound
<1> DEFINE Inv == part = "pair" => PairInv
<1>1. Init => Inv
  BY PairPart, PairInit
<1>2. Inv /\ [Next]_vars => Inv'
  BY PairPart, PairStep
<1>3. PairInv => Pair!ClosestFound
  BY DEF PairInv, BestInv, Nearest, Found, Pair!ClosestFound, Pair!Within
<1>4. Inv => ClosestFound
  BY <1>3 DEF ClosestFound
<1>5. QED
  BY <1>1, <1>2, <1>4, PTL DEF Spec

HIDE DEF calls, points, strip, best, order, row, phase, col, min

----------------------------------------------------------------------------
(* KMeans.                                                                 *)
k == v2
center == v4
prev == v6
iter == v8
converged == v9
USE DEF data, k, membership, center, todo, prev, phase, iter, converged

LEMMA MeansPart ==
  /\ Init /\ part = "kmeans" => Means!Init
  /\ [Next]_vars => /\ part' = part
                    /\ part = "kmeans" => [Means!Next]_Means!vars
  BY DEF Init, Next, vars, Means!vars

(* A sum of integers, one by one, is an integer.                           *)
LEMMA PartialSums ==
  ASSUME NEW N \in Nat, NEW a \in [1 .. N -> Int]
  PROVE  \E f \in [0 .. N -> Int] :
           f = [i \in 0 .. N |-> IF i = 0 THEN 0 ELSE f[i - 1] + a[i]]
<1> DEFINE Sums(n, f) == /\ f \in [0 .. n -> Int]
                         /\ f[0] = 0
                         /\ \A i \in 1 .. n : f[i] = f[i - 1] + a[i]
           Without == {n \in 0 .. N : \A f : ~Sums(n, f)}
<1>1. Without = {}
  <2> SUFFICES ASSUME Without # {} PROVE FALSE
    OBVIOUS
  <2>1. PICK n \in Without : \A m \in Without : n <= m
    <3>1. Without \in SUBSET Nat
      OBVIOUS
    <3>2. QED
      BY <3>1, LeastElement
  <2>2. n \in 0 .. N /\ \A f : ~Sums(n, f)
    BY <2>1
  <2> HIDE DEF Without
  <2>3. CASE n = 0
    <3>1. Sums(0, [i \in 0 .. 0 |-> 0])
      OBVIOUS
    <3>2. QED
      BY <2>2, <2>3, <3>1
  <2>4. CASE n # 0
    <3>1. n - 1 \in 0 .. N /\ n - 1 < n /\ n - 1 \in Nat /\ n \in 1 .. N
      BY <2>2, <2>4
    <3>2. n - 1 \notin Without
      BY <2>1, <3>1
    <3>3. PICK f : Sums(n - 1, f)
      BY <3>1, <3>2 DEF Without
    <3> DEFINE g == [i \in 0 .. n |-> IF i = n THEN f[n - 1] + a[n] ELSE f[i]]
    <3>4. f[n - 1] + a[n] \in Int
      BY <3>1, <3>3
    <3>5. g \in [0 .. n -> Int]
      BY <3>1, <3>3, <3>4
    <3>6. g[0] = 0 /\ \A i \in 1 .. n : g[i] = g[i - 1] + a[i]
      BY <3>1, <3>3
    <3>7. Sums(n, g)
      BY <3>5, <3>6
    <3>8. QED
      BY <2>2, <3>7
  <2>5. QED
    BY <2>3, <2>4
<1>2. PICK f : Sums(N, f)
  <2> HIDE DEF Without
  <2>1. N \notin Without
    BY <1>1
  <2>2. N \in 0 .. N
    OBVIOUS
  <2>3. QED
    BY <2>1, <2>2 DEF Without
<1>3. f = [i \in 0 .. N |-> IF i = 0 THEN 0 ELSE f[i - 1] + a[i]]
  BY <1>2
<1>4. QED
  BY <1>2, <1>3

LEMMA AccumIsInt ==
  ASSUME data \in Seq(Int), NEW m, NEW j
  PROVE  Means!Accum(m, j) \in Int
<1> DEFINE N == Len(data)
           a == [i \in 1 .. N |-> IF m[i] = j THEN data[i] ELSE 0]
           accum == CHOOSE f :
                      f = [i \in 0 .. N |->
                             IF i = 0 THEN 0
                             ELSE f[i - 1] + (IF m[i] = j THEN data[i] ELSE 0)]
<1>1. N \in Nat /\ a \in [1 .. N -> Int]
  OBVIOUS
<1>2. PICK f \in [0 .. N -> Int] :
        f = [i \in 0 .. N |-> IF i = 0 THEN 0 ELSE f[i - 1] + a[i]]
  BY <1>1, PartialSums
<1>3. f = [i \in 0 .. N |->
             IF i = 0 THEN 0
             ELSE f[i - 1] + (IF m[i] = j THEN data[i] ELSE 0)]
  <2>1. \A i \in 0 .. N : i # 0 => i \in 1 .. N
    BY <1>1
  <2>2. QED
    BY <1>2, <2>1
<1>4. accum = [i \in 0 .. N |->
                 IF i = 0 THEN 0
                 ELSE accum[i - 1] + (IF m[i] = j THEN data[i] ELSE 0)]
  BY <1>3
<1>5. Means!Accum(m, j) = accum[N]
  BY DEF Means!Accum
<1> HIDE DEF accum
<1>6. accum[0] = 0
  BY <1>1, <1>4
<1>7. ASSUME NEW i \in 1 .. N
      PROVE  accum[i] = accum[i - 1] + a[i] /\ a[i] \in Int
  <2>1. i \in 0 .. N /\ i # 0
    BY <1>1
  <2>2. accum[i] = accum[i - 1] + (IF m[i] = j THEN data[i] ELSE 0)
    BY <1>4, <2>1
  <2>3. QED
    BY <1>1, <2>2
<1> DEFINE Bad == {i \in 0 .. N : accum[i] \notin Int}
<1>8. Bad = {}
  <2> SUFFICES ASSUME Bad # {} PROVE FALSE
    OBVIOUS
  <2>1. PICK n \in Bad : \A i \in Bad : n <= i
    <3>1. Bad \in SUBSET Nat
      BY <1>1
    <3>2. QED
      BY <3>1, LeastElement
  <2>2. n # 0
    BY <1>6
  <2>3. n \in 1 .. N /\ n - 1 \in 0 .. N /\ n - 1 < n
    BY <1>1, <2>2
  <2>4. accum[n - 1] \in Int
    BY <2>1, <2>3
  <2>5. accum[n] = accum[n - 1] + a[n] /\ a[n] \in Int
    BY <1>7, <2>3
  <2> HIDE DEF a
  <2>6. accum[n] \in Int
    BY <2>4, <2>5
  <2>7. QED
    BY <2>6
<1>9. QED
  BY <1>1, <1>5, <1>8

(* The fractions that the centres are.                                     *)
Fractions == [sum : Int, n : Nat]

LEMMA MeansCardinalityIs == \A S : Means!Cardinality(S) = Cardinality(S)
  BY DEF Means!Cardinality, Cardinality

LEMMA MeanIsFraction ==
  ASSUME data \in Seq(Int), NEW m, NEW j
  PROVE  Means!Mean(m, j) \in Fractions
<1> DEFINE S == {i \in Points : m[i] = j}
<1>1. IsFiniteSet(Points)
  BY FS_Interval DEF Points
<1>2. Cardinality(S) \in Nat
  BY <1>1, FS_Subset, FS_CardinalityType
<1>3. QED
  BY <1>2, AccumIsInt, MeansCardinalityIs
  DEF Means!Mean, Means!Points, Points, Fractions

LEMMA ProductsCompare ==
  ASSUME NEW a \in Int, NEW b \in Int, NEW p \in Nat \ {0}
  PROVE  a < b <=> a * p < b * p
  OBVIOUS

LEMMA AbsOfProduct ==
  ASSUME NEW a \in Int, NEW p \in Nat
  PROVE  Means!Abs(a * p) = Means!Abs(a) * p /\ Means!Abs(a) \in Nat
  BY DEF Means!Abs

(* Equal fractions are as far from a point.                                *)
LEMMA SameDistance ==
  ASSUME NEW c \in Fractions, NEW d \in Fractions, NEW x \in Int,
         Means!SameCenter(c, d)
  PROVE  Means!Abs(x * c.n - c.sum) * d.n = Means!Abs(x * d.n - d.sum) * c.n
<1>1. c.sum \in Int /\ d.sum \in Int /\ c.n \in Nat /\ d.n \in Nat
  BY DEF Fractions
<1>2. c.sum * d.n = d.sum * c.n
  BY DEF Means!SameCenter
<1>3. (x * c.n - c.sum) * d.n = (x * d.n - d.sum) * c.n
  <2>1. (x * c.n - c.sum) * d.n = x * c.n * d.n - c.sum * d.n
    BY <1>1
  <2>2. (x * d.n - d.sum) * c.n = x * d.n * c.n - d.sum * c.n
    BY <1>1
  <2>3. x * c.n * d.n = x * d.n * c.n
    BY <1>1
  <2>4. QED
    BY <1>2, <2>1, <2>2, <2>3
<1>4. x * c.n - c.sum \in Int /\ x * d.n - d.sum \in Int
  BY <1>1
<1> DEFINE u == x * c.n - c.sum
           v == x * d.n - d.sum
<1>5. u \in Int /\ v \in Int /\ u * d.n = v * c.n
  BY <1>3, <1>4
<1> HIDE DEF u, v
<1>6. Means!Abs(u * d.n) = Means!Abs(u) * d.n
  BY <1>1, <1>5, AbsOfProduct
<1>7. Means!Abs(v * c.n) = Means!Abs(v) * c.n
  BY <1>1, <1>5, AbsOfProduct
<1>8. QED
  BY <1>5, <1>6, <1>7 DEF u, v

(* The same numbers with other factors compare the same.                   *)
LEMMA RatiosCompare ==
  ASSUME NEW a \in Nat, NEW b \in Nat, NEW a1 \in Nat, NEW b1 \in Nat,
         NEW p \in Nat \ {0}, NEW q \in Nat \ {0},
         NEW p1 \in Nat \ {0}, NEW q1 \in Nat \ {0},
         a * p1 = a1 * p, b * q1 = b1 * q
  PROVE  a * q < b * p <=> a1 * q1 < b1 * p1
<1>1. p1 * q1 \in Nat \ {0} /\ p * q \in Nat \ {0}
  OBVIOUS
<1>2. a * q < b * p <=> (a * q) * (p1 * q1) < (b * p) * (p1 * q1)
  BY <1>1, ProductsCompare
<1>3. a1 * q1 < b1 * p1 <=> (a1 * q1) * (p * q) < (b1 * p1) * (p * q)
  BY <1>1, ProductsCompare
<1>4. (a * q) * (p1 * q1) = (a * p1) * (q * q1)
  OBVIOUS
<1>5. (a1 * q1) * (p * q) = (a1 * p) * (q * q1)
  OBVIOUS
<1>6. (b * p) * (p1 * q1) = (b * q1) * (p * p1)
  OBVIOUS
<1>7. (b1 * p1) * (p * q) = (b1 * q) * (p * p1)
  OBVIOUS
<1>8. QED
  BY <1>2, <1>3, <1>4, <1>5, <1>6, <1>7

LEMMA SameCentersAreAsNear ==
  ASSUME NEW c \in Fractions, NEW d \in Fractions,
         NEW c1 \in Fractions, NEW d1 \in Fractions, NEW x \in Int,
         Means!SameCenter(c, c1), Means!SameCenter(d, d1)
  PROVE  Means!AsNear(x, c, d) <=> Means!AsNear(x, c1, d1)
<1>1. /\ c.sum \in Int /\ c1.sum \in Int /\ d.sum \in Int /\ d1.sum \in Int
      /\ c.n \in Nat \ {0} /\ c1.n \in Nat \ {0}
      /\ d.n \in Nat \ {0} /\ d1.n \in Nat \ {0}
  BY DEF Fractions, Means!SameCenter, Means!IsNumber
<1> DEFINE a == Means!Abs(x * c.n - c.sum)
           a1 == Means!Abs(x * c1.n - c1.sum)
           b == Means!Abs(x * d.n - d.sum)
           b1 == Means!Abs(x * d1.n - d1.sum)
<1>2. a \in Nat /\ a1 \in Nat /\ b \in Nat /\ b1 \in Nat
  BY <1>1 DEF Means!Abs
<1>3. a * c1.n = a1 * c.n /\ b * d1.n = b1 * d.n
  BY SameDistance
<1> HIDE DEF a, a1, b, b1
<1>4. b * c.n < a * d.n <=> b1 * c1.n < a1 * d1.n
  <2> DEFINE p == c.n
             p1 == c1.n
             q == d.n
             q1 == d1.n
  <2>1. /\ p \in Nat \ {0} /\ p1 \in Nat \ {0}
        /\ q \in Nat \ {0} /\ q1 \in Nat \ {0}
        /\ a * p1 = a1 * p /\ b * q1 = b1 * q
    BY <1>1, <1>3
  <2> HIDE DEF p, p1, q, q1
  <2>2. b * p < a * q <=> b1 * p1 < a1 * q1
    BY <1>2, <2>1, RatiosCompare
  <2>3. QED
    BY <2>2 DEF p, p1, q, q1
<1>5. QED
  BY <1>4 DEF Means!AsNear, Means!Nearer, a, a1, b, b1

LEMMA SameCentersSameNearest ==
  ASSUME NEW c \in [1 .. k -> Fractions], NEW d \in [1 .. k -> Fractions],
         \A j \in 1 .. k : Means!SameCenter(c[j], d[j]), NEW x \in Int
  PROVE  Means!Nearest(c, x) = Means!Nearest(d, x)
<1>1. \A j \in 1 .. k : Means!IsNumber(c[j]) /\ Means!IsNumber(d[j])
  BY DEF Means!SameCenter
<1>2. \A j, l \in 1 .. k :
        Means!AsNear(x, c[j], c[l]) <=> Means!AsNear(x, d[j], d[l])
  BY SameCentersAreAsNear
<1>3. QED
  BY <1>1, <1>2 DEF Means!Nearest, Means!Clusters

(* The clusters of the points around the centres c.                        *)
Assigned(c) == [i \in Points |-> Means!Min(Means!Nearest(c, data[i]))]

MeansType ==
  /\ data \in Seq(Int)
  /\ k \in Nat
  /\ k <= Len(data)
  /\ membership = [i \in Points |-> membership[i]]
  /\ center \in [1 .. k -> Fractions]
  /\ prev \in [1 .. k -> Fractions]
  /\ iter \in Nat
  /\ phase \in {"iterate", "update", "done"}
  /\ phase # "done" => ~converged

(* The centres before the first round are points.                          *)
First ==
  /\ center = [j \in 1 .. k |-> [sum |-> data[j], n |-> 1]]
  /\ prev = [j \in 1 .. k |-> [sum |-> 0, n |-> 1]]

(* Those before a later one are the means of the clusters around the       *)
(* centres before them.                                                    *)
Later == center = [j \in 1 .. k |-> Means!Mean(Assigned(prev), j)]

(* The centres that were assigned to: the updated clusters keep them.      *)
Before == [j \in 1 .. k |-> IF j \in todo THEN center[j] ELSE prev[j]]

Fixpoint ==
  \/ Means!FalseStart
  \/ /\ \A j \in 1 .. k : Means!SameCenter(center[j], Means!MeanOf(j))
     /\ membership = Assigned(center)

MeansInv ==
  /\ MeansType
  /\ phase = "iterate" =>
       /\ todo \subseteq Points
       /\ \A i \in Points \ todo : membership[i] = Assigned(center)[i]
       /\ IF iter = 0 THEN First ELSE Later
  /\ phase = "update" =>
       /\ todo \subseteq 1 .. k
       /\ membership = Assigned(Before)
       /\ \A j \in (1 .. k) \ todo : center[j] = Means!MeanOf(j)
  /\ converged => Fixpoint

LEMMA UnchangedMeans ==
  ASSUME UNCHANGED <<data, k>>
  PROVE  /\ \A c : Assigned(c)' = Assigned(c)
         /\ \A m, j : Means!Mean(m, j)' = Means!Mean(m, j)
         /\ Means!FalseStart' <=> Means!FalseStart
         /\ membership' = membership =>
              \A j : Means!MeanOf(j)' = Means!MeanOf(j)
<1>1. \A c : Assigned(c)' = Assigned(c)
  BY DEF Assigned, Points, Means!Nearest, Means!Clusters
<1>2. Means!FalseStart' <=> Means!FalseStart
  BY DEF Means!FalseStart, Means!Clusters
<1>3. \A m, j : Means!Accum(m, j)' = Means!Accum(m, j)
  BY DEF Means!Accum
<1>4. \A m, j : Means!Mean(m, j)' = Means!Mean(m, j)
  BY <1>3 DEF Means!Mean, Means!Points
<1>5. QED
  BY <1>1, <1>2, <1>3, <1>4 DEF Means!MeanOf, Means!Mean, Means!Points

LEMMA MeansInit == Means!Init => MeansInv
<1> SUFFICES ASSUME Means!Init PROVE MeansInv
  OBVIOUS
<1>1. data \in Seq(Int) /\ k \in Nat /\ k <= Len(data)
  BY MeansAssumption DEF Means!Init
<1>2. \A j \in 1 .. k : data[j] \in Int
  BY <1>1
<1>3. /\ First
      /\ center \in [1 .. k -> Fractions]
      /\ prev \in [1 .. k -> Fractions]
  BY <1>1, <1>2 DEF Means!Init, Means!Clusters, First, Fractions
<1>4. QED
  BY <1>1, <1>3
  DEF Means!Init, Means!Points, Points, MeansInv, MeansType

LEMMA AssignStep ==
  ASSUME MeansInv, NEW i \in Means!Points, Means!Assign(i)
  PROVE  MeansInv'
<1>1. i \in Points /\ i \in todo /\ phase = "iterate" /\ phase' = phase
  BY DEF Means!Points, Points, Means!Assign
<1>2. membership' = [membership EXCEPT ![i] = Assigned(center)[i]]
  BY <1>1 DEF Means!Assign, Means!Closest, Assigned, Points
<1>3. /\ \A c : Assigned(c)' = Assigned(c)
      /\ \A m, j : Means!Mean(m, j)' = Means!Mean(m, j)
  BY UnchangedMeans DEF Means!Assign
<1>4. MeansType'
  BY <1>2 DEF Means!Assign, MeansInv, MeansType, Points
<1>5. /\ (todo \subseteq Points)'
      /\ (\A l \in Points \ todo : membership[l] = Assigned(center)[l])'
  BY <1>1, <1>2, <1>3 DEF Means!Assign, MeansInv, MeansType, Points
<1>6. First' <=> First
  BY DEF Means!Assign, First
<1>7. Later' <=> Later
  BY <1>3 DEF Means!Assign, Later
<1>8. QED
  BY <1>1, <1>4, <1>5, <1>6, <1>7 DEF MeansInv, MeansType, Means!Assign

(* Had no centre changed, the members are those around the new ones.       *)
LEMMA EndRoundStep ==
  ASSUME MeansInv, Means!EndIterate
  PROVE  MeansInv'
<1>1. /\ phase = "iterate" /\ todo = {} /\ MeansType
      /\ membership = Assigned(center)
  BY DEF Means!EndIterate, MeansInv, MeansType, Assigned
<1>2. CASE Means!Converged
  <2>1. \A j \in 1 .. k : Means!SameCenter(prev[j], center[j])
    BY <1>2 DEF Means!Converged, Means!Clusters
  <2>2. \A i \in Points : data[i] \in Int
    BY <1>1 DEF MeansType, Points
  <2>3. \A i \in Points :
          Means!Nearest(prev, data[i]) = Means!Nearest(center, data[i])
    BY <1>1, <2>1, <2>2, SameCentersSameNearest DEF MeansType
  <2>4. Assigned(prev) = Assigned(center)
    BY <2>3 DEF Assigned
  <2>5. ASSUME iter = 0 PROVE Fixpoint
    <3>1. First
      BY <1>1, <2>5 DEF MeansInv
    <3>2. ASSUME NEW j \in 1 .. k PROVE data[j] = 0
      <4>1. data[j] \in Int
        BY <1>1 DEF MeansType
      <4>2. 0 * 1 = data[j] * 1
        BY <2>1, <3>1 DEF First, Means!SameCenter
      <4>3. QED
        BY <4>1, <4>2
    <3>3. Means!FalseStart
      BY <3>2 DEF Means!FalseStart, Means!Clusters
    <3>4. QED
      BY <3>3 DEF Fixpoint
  <2>6. ASSUME iter # 0 PROVE Fixpoint
    <3>1. \A j \in 1 .. k : center[j] = Means!MeanOf(j)
      BY <1>1, <2>4, <2>6 DEF MeansInv, Later, Means!MeanOf
    <3>2. \A j \in 1 .. k : Means!SameCenter(center[j], center[j])
      BY <2>1 DEF Means!SameCenter
    <3>3. QED
      BY <1>1, <3>1, <3>2 DEF Fixpoint
  <2>7. Fixpoint
    BY <2>5, <2>6
  <2>8. Fixpoint'
    <3>1. UNCHANGED <<data, k, center, membership>>
      BY DEF Means!EndIterate
    <3>2. QED
      BY <2>7, <3>1, UnchangedMeans DEF Fixpoint
  <2>9. QED
    BY <1>1, <1>2, <2>8 DEF Means!EndIterate, MeansInv, MeansType, Points
<1>3. CASE ~Means!Converged
  <2>1. todo' = 1 .. k /\ phase' = "update"
    BY <1>3 DEF Means!EndIterate, Means!Clusters
  <2>2. Before' = center
    BY <1>1, <2>1 DEF Means!EndIterate, Before, MeansType
  <2>3. Assigned(center)' = Assigned(center)
    BY UnchangedMeans DEF Means!EndIterate
  <2>4. (membership = Assigned(Before))'
    BY <1>1, <2>2, <2>3 DEF Means!EndIterate, Assigned, Points
  <2>5. ~converged'
    BY <1>1, <1>3 DEF Means!EndIterate, MeansType
  <2>6. QED
    BY <1>1, <2>1, <2>4, <2>5 DEF Means!EndIterate, MeansInv, MeansType, Points
<1>4. QED
  BY <1>2, <1>3

LEMMA UpdateCenterStep ==
  ASSUME MeansInv, NEW j \in Means!Clusters, Means!UpdateCenter(j)
  PROVE  MeansInv'
<1>1. j \in 1 .. k /\ j \in todo /\ phase = "update" /\ phase' = phase
  BY DEF Means!Clusters, Means!UpdateCenter
<1>2. MeansType /\ Means!MeanOf(j) \in Fractions
  BY MeanIsFraction DEF MeansInv, MeansType, Means!MeanOf
<1>3. /\ center' = [center EXCEPT ![j] = Means!MeanOf(j)]
      /\ prev' = [prev EXCEPT ![j] = center[j]]
      /\ todo' = todo \ {j}
      /\ UNCHANGED <<data, k, membership, iter, converged>>
  BY DEF Means!UpdateCenter
<1>4. MeansType'
  BY <1>1, <1>2, <1>3 DEF MeansType, Points
<1>5. Before' = Before
  BY <1>1, <1>2, <1>3 DEF Before, MeansType
<1>6. \A l : Means!MeanOf(l)' = Means!MeanOf(l)
  BY <1>3, UnchangedMeans
<1>7. (membership = Assigned(Before))'
  <2>1. \A c : Assigned(c)' = Assigned(c)
    BY <1>3, UnchangedMeans
  <2>2. QED
    BY <1>1, <1>3, <1>5, <2>1 DEF MeansInv
<1>8. (\A l \in (1 .. k) \ todo : center[l] = Means!MeanOf(l))'
  BY <1>1, <1>2, <1>3, <1>6 DEF MeansInv, MeansType
<1>9. QED
  BY <1>1, <1>2, <1>3, <1>4, <1>7, <1>8 DEF MeansInv, MeansType

LEMMA EndUpdateStep ==
  ASSUME MeansInv, Means!EndUpdate
  PROVE  MeansInv'
<1>1. /\ phase = "update" /\ todo = {} /\ MeansType /\ ~converged
      /\ membership = Assigned(Before)
      /\ \A j \in 1 .. k : center[j] = Means!MeanOf(j)
  BY DEF Means!EndUpdate, MeansInv, MeansType
<1>2. Before = prev
  BY <1>1 DEF Before, MeansType
<1>3. Later
  BY <1>1, <1>2 DEF Later, Means!MeanOf, MeansType
<1>4. Later'
  BY <1>3, UnchangedMeans DEF Means!EndUpdate, Later
<1>5. iter' = iter + 1 /\ iter' # 0 /\ iter' \in Nat
  BY <1>1 DEF Means!EndUpdate, MeansType
<1>6. QED
  BY <1>1, <1>4, <1>5
  DEF Means!EndUpdate, MeansInv, MeansType, Points, Means!Points

LEMMA MeansStep == MeansInv /\ [Means!Next]_Means!vars => MeansInv'
<1> SUFFICES ASSUME MeansInv, [Means!Next]_Means!vars PROVE MeansInv'
  OBVIOUS
<1>1. CASE UNCHANGED Means!vars
  BY <1>1, UnchangedMeans
  DEF Means!vars, MeansInv, MeansType, First, Later, Before, Points, Fixpoint
<1>2. QED
  BY <1>1, AssignStep, EndRoundStep, UpdateCenterStep, EndUpdateStep
  DEF Means!Next

(* For any points, number of clusters and order of the threads: a run that *)
(* ended by convergence returns clusters whose centres are the means of    *)
(* their members, and whose members are those nearest to them.             *)
THEOREM ConvergedRunsAreFixpoints == Spec => []ConvergedIsFixpoint
<1> DEFINE Inv == part = "kmeans" => MeansInv
<1>1. Init => Inv
  BY MeansPart, MeansInit
<1>2. Inv /\ [Next]_vars => Inv'
  BY MeansPart, MeansStep
<1>3. Inv => ConvergedIsFixpoint
  BY DEF MeansInv, Fixpoint, Assigned, Points, ConvergedIsFixpoint,
         Means!ConvergedIsFixpoint, Means!Closest, Means!Clusters,
         Means!Points
<1>4. QED
  BY <1>1, <1>2, <1>3, PTL DEF Spec

HIDE DEF data, k, membership, center, todo, prev, phase, iter, converged
=============================================================================

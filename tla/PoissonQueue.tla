---------------------------- MODULE PoissonQueue ----------------------------
(***************************************************************************)
(* poisson_queue: a queue whose client asks with enqueue_check() and       *)
(* dequeue_check() whether an operation is due, and which keeps counts and *)
(* interval sums of both, since the start and since the last reset.  The   *)
(* two sides have the same data, indexed here by the side.  Time is the    *)
(* client's and does not go back.                                          *)
(*                                                                         *)
(* Operators with a suffix (Check_Start, ...) are faulty variants of a     *)
(* definition; no specification uses them.                                 *)
(***************************************************************************)
EXTENDS Naturals, Sequences

CONSTANTS
  Items,
  Draws,       \* values of the exponential distribution, truncated
  Running,     \* the sides with a positive rate
  MaxTime,     \* bound on the time
  MaxOps       \* bound on the operations of a side

Sides == {"enqueue", "dequeue"}

VARIABLES
  now,         \* the client's clock
  op,          \* side -> op_data, with the members of its op_metadata
  queue,       \* m_queue
  drawn,       \* history: side -> sum of the intervals drawn
  mark,        \* history: side -> last_op_time at the last reset
  idle         \* history: dequeue operations that took nothing

vars == <<now, op, queue, drawn, mark, idle>>

OpData == [count : Nat, total_count : Nat, interval_accum : Nat,
           total_interval_accum : Nat, op_set : BOOLEAN,
           last_op_time : Nat, next_op_time : Nat]

NoOps == [count |-> 0, total_count |-> 0, interval_accum |-> 0,
          total_interval_accum |-> 0,
          op_set |-> FALSE, last_op_time |-> 0, next_op_time |-> 0]

Init ==
  /\ now = 0
  /\ op = [s \in Sides |-> NoOps]
  /\ queue = <<>>
  /\ drawn = [s \in Sides |-> 0]
  /\ mark = [s \in Sides |-> 0]
  /\ idle = 0

Tick == now < MaxTime /\ now' = now + 1
        /\ UNCHANGED <<op, queue, drawn, mark, idle>>

(* Mutant: the next time is counted from the start.                        *)
Check_Start(s) ==
  /\ s \in Running /\ ~op[s].op_set
  /\ \E d \in Draws :
       /\ op' = [op EXCEPT ![s].next_op_time = d, ![s].op_set = TRUE]
       /\ drawn' = [drawn EXCEPT ![s] = @ + d]
  /\ UNCHANGED <<now, queue, mark, idle>>

(* enqueue_check(), dequeue_check(), when no next time is set.             *)
Check(s) ==
  /\ s \in Running /\ ~op[s].op_set
  /\ \E d \in Draws :
       /\ op' = [op EXCEPT ![s].next_op_time = op[s].last_op_time + d,
                           ![s].op_set = TRUE]
       /\ drawn' = [drawn EXCEPT ![s] = @ + d]
  /\ UNCHANGED <<now, queue, mark, idle>>

(* The check returned TRUE.                                                *)
IsDue(s) == op[s].op_set /\ now >= op[s].next_op_time

(* What an operation at time "now" does to its side.                       *)
Counted(s) ==
  LET o == op[s] passed == now - op[s].last_op_time IN
  [o EXCEPT !.count = @ + 1, !.total_count = @ + 1,
            !.interval_accum = @ + passed,
            !.total_interval_accum = @ + passed,
            !.last_op_time = now, !.op_set = FALSE]

Operate(s) ==
  /\ IsDue(s)
  /\ op[s].total_count < MaxOps
  /\ op' = [op EXCEPT ![s] = Counted(s)]
  /\ UNCHANGED <<now, drawn, mark>>

Enqueue(item) ==
  /\ Operate("enqueue")
  /\ queue' = Append(queue, item)
  /\ UNCHANGED idle

(* dequeue(): a fake one, or one of an empty queue, counts all the same.   *)
Dequeue(fake) ==
  /\ Operate("dequeue")
  /\ IF fake \/ queue = <<>>
     THEN idle' = idle + 1 /\ UNCHANGED queue
     ELSE queue' = Tail(queue) /\ UNCHANGED idle

ResetMetrics ==
  /\ op' = [s \in Sides |-> [op[s] EXCEPT !.count = 0, !.interval_accum = 0]]
  /\ mark' = [s \in Sides |-> op[s].last_op_time]
  /\ UNCHANGED <<now, queue, drawn, idle>>

(* contains().                                                             *)
QueueContains(key) == \E i \in DOMAIN queue : queue[i] = key

Next ==
  \/ Tick
  \/ \E s \in Sides : Check(s)
  \/ \E item \in Items : Enqueue(item)
  \/ \E fake \in BOOLEAN : Dequeue(fake)
  \/ ResetMetrics

Spec == Init /\ [][Next]_vars

----------------------------------------------------------------------------
TypeOK ==
  /\ now \in Nat /\ queue \in Seq(Items) /\ idle \in Nat
  /\ op \in [Sides -> OpData]
  /\ drawn \in [Sides -> Nat] /\ mark \in [Sides -> Nat]

(* The sums and counts from which the rates are computed agree with the    *)
(* operations, over any sequence of resets: the intervals add up to the    *)
(* time of the last operation, those since a reset to the time since the   *)
(* last operation before it, and the queue holds what was enqueued and not *)
(* taken out.  A side is never faster than what was drawn for it.          *)
RatesAccount ==
  /\ \A s \in Sides :
       /\ op[s].total_interval_accum = op[s].last_op_time
       /\ op[s].interval_accum = op[s].last_op_time - mark[s]
       /\ op[s].count <= op[s].total_count
       /\ op[s].last_op_time <= now
       /\ drawn[s] <= (IF op[s].op_set THEN op[s].next_op_time
                       ELSE op[s].last_op_time)
  /\ Len(queue) + op["dequeue"].total_count
       = op["enqueue"].total_count + idle
=============================================================================

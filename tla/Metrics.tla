------------------------------- MODULE Metrics -------------------------------
(***************************************************************************)
(* The metrics pipeline of rcppsw::metrics: fs_output_manager maps each    *)
(* scoped name to a collector group, one per output mode; a group holds    *)
(* collectors in name order; a collector gathers samples and owns a csv    *)
(* sink, which writes a line when its output interval comes round.         *)
(*                                                                         *)
(* The manager is passive.  Its user registers collectors and initializes  *)
(* it, then in every timestep collects, flushes each output mode, calls    *)
(* interval_reset() and timestep_inc(), and at the end finalizes: `phase'  *)
(* is where that loop is.                                                  *)
(*                                                                         *)
(* A sample is the timestep it was taken in, one per collector and         *)
(* timestep.  A collector's data is the set of its samples; a line is the  *)
(* timestep and the data it was built from.  A stream is open when what is *)
(* written to it reaches the file, so a closed stream and one whose error  *)
(* bits are set are the same.                                              *)
(*                                                                         *)
(* An operator X_Fault is no part of the model: it is X with a plausible   *)
(* bug, kept to show that a property is able to fail.                      *)
(***************************************************************************)
EXTENDS Naturals

CONSTANTS
  Names,        (* scoped names; std::map iterates them in this order *)
  Placed,       (* names that a derived manager put in the collector map *)
  Intervals,    (* the output intervals sinks of each mode are given *)
  Resetting,    (* names whose collector's reset_after_interval() clears *)
  MaxTime,      (* bound: timesteps of the user's loop *)
  IoFails,      (* may opening, truncating or writing a file fail? *)
  LateCollect,  (* does the user register collectors once the loop runs? *)
  AssertHalts,  (* do the build's assertions stop the program? *)
  NoGroup, NoCollector, NoFile

Modes == {"append", "truncate", "create"}

ASSUME MetricsAssumption ==
  /\ Names \subseteq Nat
  /\ Placed \subseteq Names
  /\ Intervals \in [Modes -> SUBSET (Nat \ {0})]
  /\ Resetting \subseteq Names
  /\ MaxTime \in Nat
  /\ {IoFails, LateCollect, AssertHalts} \subseteq BOOLEAN
  /\ NoGroup \notin Modes

VARIABLES
  mapped,   (* m_collector_map: the group of each scoped name *)
  cols,     (* m_collectors of each group *)
  disk,     (* the lines in the file of each group's collectors *)
  status,   (* what the last flush() of each collector returned *)
  phase,    (* where the user's loop is *)
  flushed,  (* the output modes flushed in this timestep *)
  now,      (* the timestep of the user's loop *)
  mode,     (* "run", "threw" (an exception), "aborted" or "undefined" *)
  got,      (* history: samples each collector took since initialize() *)
  failed    (* history: names that lost a line to an I/O failure *)

vars == <<mapped, cols, disk, status, phase, flushed, now, mode, got, failed>>

Times      == 0 .. MaxTime
Lines      == [t : Times, data : SUBSET Times]
Collector  == [interval : UNION {Intervals[g] : g \in Modes}, t : Times,
               data : SUBSET Times, open : BOOLEAN]
Statuses   == {"none", "NO_ATTEMPT", "FAILED", "SUCCESS"}
Phases     == {"setup", "collect", "flush", "inc", "done"}
Members(g) == {n \in Names : cols[g][n] # NoCollector}
In(p)      == mode = "run" /\ phase = p
Line(c)    == [t |-> c.t, data |-> c.data]

(* What a collector of each group becomes when every one is updated. *)
ForEach(U(_, _)) ==
  [g \in Modes |-> [n \in Names |->
     IF n \in Members(g) THEN U(g, n) ELSE NoCollector]]

Init ==
  /\ mapped = [n \in Names |-> NoGroup]
  /\ cols = [g \in Modes |-> [n \in Names |-> NoCollector]]
  /\ disk = [g \in Modes |-> [n \in Names |-> NoFile]]
  /\ status = [n \in Names |-> "none"]
  /\ phase = "setup"
  /\ flushed = {}
  /\ now = 0
  /\ mode = "run"
  /\ got = [n \in Names |-> {}]
  /\ failed = {}

----------------------------------------------------------------------------
(* Registration *)

(* The user gives collectors of different modes different scoped names. *)
MayRegister(n, g) ==
  /\ In("setup") \/ (LateCollect /\ In("collect"))
  /\ \A h \in Modes \ {g} : n \notin Members(h)

(* collector_preregister() of a name that is not in the map throws; then   *)
(* collector_register() does nothing if the group has the name already.    *)
Register(n, g, i) ==
  /\ MayRegister(n, g) /\ i \in Intervals[g]
  /\ IF n \notin Placed
       THEN mode' = "threw" /\ UNCHANGED <<mapped, cols>>
       ELSE /\ mapped' = [mapped EXCEPT ![n] = g]
            /\ cols' = IF n \in Members(g) THEN cols ELSE
                 [cols EXCEPT ![g][n] =
                    [interval |-> i, t |-> 0, data |-> {}, open |-> FALSE]]
            /\ UNCHANGED mode
  /\ UNCHANGED <<disk, status, phase, flushed, now, got, failed>>

(* The name stays in the map; destroying the collector closes its file. *)
Unregister(n) ==
  /\ In("setup") \/ (LateCollect /\ In("collect"))
  /\ mapped[n] # NoGroup
  /\ cols' = [cols EXCEPT ![mapped[n]][n] = NoCollector]
  /\ got' = [got EXCEPT ![n] = {}]
  /\ UNCHANGED <<mapped, disk, status, phase, flushed, now, mode, failed>>

(* The manager calls its group for a name that a derived manager placed in *)
(* the map and nobody preregistered: the group is a null pointer.          *)
UseNoGroup(n) ==
  /\ In("setup") \/ In("collect")
  /\ n \in Placed /\ mapped[n] = NoGroup
  /\ mode' = "undefined"
  /\ UNCHANGED <<mapped, cols, disk, status, phase, flushed, now, got, failed>>

(* Collectors that the sink's initialize() opens a file for. *)
Opening == {x \in {"append", "truncate"} \X Names : x[2] \in Members(x[1])}

(* initialize() empties and opens the files and resets the data; a header  *)
(* for a file that did not open is an assertion failure.                   *)
Initialize(bad) ==
  /\ In("setup") \/ (LateCollect /\ In("collect"))
  /\ bad \subseteq Opening /\ (IoFails \/ bad = {})
  /\ IF bad # {} /\ AssertHalts
       THEN mode' = "aborted" /\ UNCHANGED <<cols, disk, got>>
       ELSE /\ cols' = ForEach(LAMBDA g, n :
                 [cols[g][n] EXCEPT !.open = <<g, n>> \in Opening \ bad,
                                    !.data = IF n \in Resetting THEN {} ELSE @])
            /\ disk' = [g \in Modes |-> [n \in Names |->
                 IF <<g, n>> \in Opening \ bad THEN {} ELSE disk[g][n]]]
            /\ got' = [n \in Names |-> IF n \in Resetting THEN {} ELSE got[n]]
            /\ UNCHANGED mode
  /\ phase' = "collect"
  /\ failed' = failed \cup {n \in Names : \E g \in Modes : <<g, n>> \in bad}
  /\ UNCHANGED <<mapped, status, flushed, now>>

----------------------------------------------------------------------------
(* A timestep *)

Collect(n) ==
  /\ In("collect") /\ mapped[n] # NoGroup
  /\ n \in Members(mapped[n]) /\ now \notin got[n]
  /\ cols' = [cols EXCEPT ![mapped[n]][n].data = @ \cup {now}]
  /\ got' = [got EXCEPT ![n] = @ \cup {now}]
  /\ UNCHANGED <<mapped, disk, status, phase, flushed, now, mode, failed>>

Ready(g, n) == cols[g][n].t % cols[g][n].interval = 0

(* flush(fail_ok = true) of a group stops at the first collector, in name  *)
(* order, whose sink has no line to write.                                 *)
Reached(g) ==
  {n \in Members(g) : \A k \in Members(g) : k < n => Ready(g, k)}

Due(g) == {n \in Reached(g) : Ready(g, n)}

(* What writing a line can come to.  Only resize_file() throws, which the  *)
(* sink retries and reports; a stream that is not open, or fails, loses    *)
(* the line without an exception.                                          *)
Outcomes_Fault(g, n) ==
  LET fails == IF IoFails THEN {"lost"} ELSE {} IN
  CASE disk[g][n] = NoFile /\ g = "append"   -> {"lost"}
    [] disk[g][n] = NoFile /\ g = "truncate" -> {"thrown"}
    [] OTHER                                 -> {"written"} \cup fails

Outcomes(g, n) ==
  LET fails == IF IoFails THEN {"lost"} ELSE {} IN
  CASE g = "append"   -> IF cols[g][n].open THEN {"written"} \cup fails ELSE {"lost"}
    [] g = "create"   -> {"written"} \cup fails
    [] g = "truncate" -> IF disk[g][n] = NoFile THEN {"thrown"}
                         ELSE {"written"} \cup fails
                                \cup (IF IoFails THEN {"thrown"} ELSE {})

Results(g) == {out \in [Due(g) -> {"written", "lost", "thrown"}] :
                 \A n \in Due(g) : out[n] \in Outcomes(g, n)}

(* The file after a line was written to it: at its end, in place of all of *)
(* it, or in a file of its own that is named after the timestep.           *)
Written(g, n) ==
  LET l == Line(cols[g][n])  f == disk[g][n] IN
  CASE g = "append"   -> f \cup {l}
    [] g = "truncate" -> {l}
    [] g = "create"   -> {k \in (IF f = NoFile THEN {} ELSE f) : k.t # l.t} \cup {l}

FileAfter(g, n, result) ==
  CASE result = "written" -> Written(g, n)
    [] result = "lost" /\ g = "truncate" -> {}
    [] OTHER -> disk[g][n]

(* The group an output mode stands for: the manager sends ekSTREAM to the  *)
(* collectors that create files.                                           *)
GroupOf(md) == IF md = "stream" THEN "create" ELSE md

Flush(md) ==
  LET g == GroupOf(md) IN
  /\ In("collect") \/ In("flush")
  /\ md \notin flushed
  /\ \E out \in Results(g) :
       /\ disk' = [disk EXCEPT ![g] = [n \in Names |->
            IF n \in Due(g) THEN FileAfter(g, n, out[n]) ELSE @[n]]]
       /\ cols' = [cols EXCEPT ![g] = [n \in Names |->
            IF n \in Due(g) /\ out[n] # "thrown"
              THEN [@[n] EXCEPT !.open = g # "create" /\ out[n] = "written"]
              ELSE @[n]]]
       /\ status' = [n \in Names |->
            CASE n \in Due(g) -> IF out[n] = "thrown" THEN "FAILED" ELSE "SUCCESS"
              [] n \in Reached(g) \ Due(g) -> "NO_ATTEMPT"
              [] n \in Members(g) \ Reached(g) -> "none"
              [] OTHER -> status[n]]
       /\ failed' = failed \cup {n \in Due(g) : out[n] # "written"}
       /\ mode' \in {"run"} \cup
            (IF AssertHalts /\ g = "truncate" /\ \E n \in Due(g) : out[n] = "lost"
               THEN {"aborted"} ELSE {})
  /\ phase' = "flush"
  /\ flushed' = flushed \cup {md}
  /\ UNCHANGED <<mapped, now, got>>

IntervalReset_Fault ==
  /\ In("flush") /\ Modes \subseteq flushed
  /\ cols' = ForEach(LAMBDA g, n :
       [cols[g][n] EXCEPT !.data =
          IF cols[g][n].t > 0 /\ n \in Resetting THEN {} ELSE @])
  /\ phase' = "inc"
  /\ UNCHANGED <<mapped, disk, status, flushed, now, mode, got, failed>>

IntervalReset_Never ==
  /\ In("flush") /\ Modes \subseteq flushed
  /\ phase' = "inc"
  /\ UNCHANGED <<mapped, cols, disk, status, flushed, now, mode, got, failed>>

IntervalReset ==
  /\ In("flush") /\ Modes \subseteq flushed
  /\ cols' = ForEach(LAMBDA g, n :
       [cols[g][n] EXCEPT !.data =
          IF cols[g][n].t > 0 /\ Ready(g, n) /\ n \in Resetting THEN {} ELSE @])
  /\ phase' = "inc"
  /\ UNCHANGED <<mapped, disk, status, flushed, now, mode, got, failed>>

TimestepInc_Fault ==
  /\ In("inc") /\ now < MaxTime
  /\ cols' = ForEach(LAMBDA g, n :
       [cols[g][n] EXCEPT !.t = @ + (IF g = "create" THEN 2 ELSE 1)])
  /\ now' = now + 1
  /\ flushed' = {}
  /\ phase' = "collect"
  /\ UNCHANGED <<mapped, disk, status, mode, got, failed>>

TimestepInc ==
  /\ In("inc") /\ now < MaxTime
  /\ cols' = ForEach(LAMBDA g, n : [cols[g][n] EXCEPT !.t = @ + 1])
  /\ now' = now + 1
  /\ flushed' = {}
  /\ phase' = "collect"
  /\ UNCHANGED <<mapped, disk, status, mode, got, failed>>

Finalize ==
  /\ In("inc")
  /\ cols' = ForEach(LAMBDA g, n : [cols[g][n] EXCEPT !.open = FALSE])
  /\ phase' = "done"
  /\ UNCHANGED <<mapped, disk, status, flushed, now, mode, got, failed>>

----------------------------------------------------------------------------
Next ==
  \/ \E n \in Names, g \in Modes : \E i \in Intervals[g] : Register(n, g, i)
  \/ \E n \in Names : Unregister(n) \/ UseNoGroup(n) \/ Collect(n)
  \/ \E bad \in SUBSET Opening : Initialize(bad)
  \/ \E md \in Modes \cup {"stream"} : Flush(md)
  \/ IntervalReset \/ TimestepInc \/ Finalize

Spec == Init /\ [][Next]_vars

----------------------------------------------------------------------------
(* Properties *)

TypeOK ==
  /\ mapped \in [Names -> Modes \cup {NoGroup}]
  /\ cols \in [Modes -> [Names -> Collector \cup {NoCollector}]]
  /\ disk \in [Modes -> [Names -> (SUBSET Lines) \cup {NoFile}]]
  /\ status \in [Names -> Statuses]
  /\ phase \in Phases
  /\ flushed \subseteq Modes \cup {"stream"}
  /\ now \in Times
  /\ mode \in {"run", "threw", "aborted", "undefined"}
  /\ got \in [Names -> SUBSET Times]
  /\ failed \subseteq Names

(* The lines that reached the file of a collector. *)
Output(g, n) == IF disk[g][n] = NoFile THEN {} ELSE disk[g][n]

(* No sample is lost between collect(), flush() and interval_reset(): it   *)
(* is in the collector's data or in a line of its file, unless an I/O      *)
(* operation of that collector failed.                                     *)
NoSampleLost ==
  mode = "run" =>
    \A g \in Modes \ {"truncate"} : \A n \in Members(g) \ failed :
      got[n] \subseteq cols[g][n].data \cup UNION {l.data : l \in Output(g, n)}

(* No sample is counted in two intervals: the lines of a collector that    *)
(* resets share none, but for timestep 0, which is written before the      *)
(* first interval and not reset after it.                                  *)
CountedOnce ==
  \A g \in Modes : \A n \in Members(g) \cap Resetting :
    \A k, l \in Output(g, n) : k.t # l.t => k.data \cap l.data \subseteq {0}

(* The file a collector appends to has no gaps: it holds a line for every  *)
(* multiple of the interval up to its last line, because after a failed    *)
(* write nothing more is written.                                          *)
AppendHasNoGaps ==
  \A n \in Members("append") : \A l \in Output("append", n) :
    \A t \in 0 .. l.t :
      t % cols["append"][n].interval = 0 => \E k \in Output("append", n) : k.t = t

(* A line belongs to its interval: that of a collector that resets holds   *)
(* all the samples taken up to its timestep since interval_reset() was     *)
(* last due, and no other, although sink, reset and increment each test    *)
(* the collector's own clock and the samples carry the user's.             *)
LinesHoldInterval ==
  \A g \in Modes : \A n \in Members(g) \cap Resetting : \A l \in Output(g, n) :
    l.data = {s \in got[n] : s <= l.t /\ \A t \in s .. l.t - 1 :
                                t = 0 \/ t % cols[g][n].interval # 0}

(* flush() is called on every collector of the group. *)
FlushReachesAll ==
  \A g \in Modes : g \in flushed /\ In("flush") =>
    \A n \in Members(g) : status[n] # "none"
=============================================================================

---------------------------- MODULE MetricsProofs ----------------------------
(***************************************************************************)
(* The metrics pipeline loses no sample, counts none twice and leaves no   *)
(* gaps in a file, for any collectors, intervals, length of the loop and   *)
(* failures of the files.                                                  *)
(***************************************************************************)
EXTENDS Metrics, TLAPS

(* A collector is never ahead of the loop; it lags if registered late.     *)
Behind == \A g \in Modes : \A n \in Members(g) : cols[g][n].t <= now

(* A stream to append to is open only if the file was made.                *)
OpenHasFile ==
  \A n \in Members("append") :
    cols["append"][n].open => disk["append"][n] \in SUBSET Lines

TypeInv == TypeOK /\ Behind /\ OpenHasFile

(* A collector with some of its fields replaced.                           *)
With(c, d, t, o) == [interval |-> c.interval, t |-> t, data |-> d, open |-> o]

LEMMA Reopened ==
  ASSUME NEW c \in Collector, NEW d, NEW o
  PROVE  [c EXCEPT !.open = o, !.data = d] = With(c, d, c.t, o)
<1> DEFINE e == [c EXCEPT !.open = o, !.data = d]
<1>1. DOMAIN e = DOMAIN c /\ DOMAIN c = {"interval", "t", "data", "open"}
  BY DEF Collector
<1>2. e.interval = c.interval /\ e.t = c.t /\ e.data = d /\ e.open = o
  BY DEF Collector
<1>3. e = [x \in {"interval", "t", "data", "open"} |-> e[x]]
  BY <1>1
<1> HIDE DEF e
<1>4. e = With(c, d, c.t, o)
  BY <1>1, <1>2, <1>3 DEF With
<1>5. QED
  BY <1>4 DEF e

LEMMA Replaced ==
  ASSUME NEW c \in Collector, NEW d, NEW t, NEW o
  PROVE  /\ [c EXCEPT !.data = d] = With(c, d, c.t, c.open)
         /\ [c EXCEPT !.open = o] = With(c, c.data, c.t, o)
         /\ [c EXCEPT !.t = t] = With(c, c.data, t, c.open)
<1>0. c = [interval |-> c.interval, t |-> c.t, data |-> c.data, open |-> c.open]
  BY DEF Collector
<1>1. [c EXCEPT !.data = d] = With(c, d, c.t, c.open)
  BY <1>0 DEF Collector, With
<1>2. [c EXCEPT !.open = o] = With(c, c.data, c.t, o)
  BY <1>0 DEF Collector, With
<1>3. [c EXCEPT !.t = t] = With(c, c.data, t, c.open)
  BY <1>0 DEF Collector, With
<1>4. QED
  BY <1>1, <1>2, <1>3

LEMMA WithTyped ==
  ASSUME NEW c \in Collector, NEW d \in SUBSET Times, NEW t \in Times,
         NEW o \in BOOLEAN
  PROVE  /\ With(c, d, t, o) \in Collector
         /\ With(c, d, t, o).interval = c.interval
         /\ With(c, d, t, o).t = t
         /\ With(c, d, t, o).data = d
         /\ With(c, d, t, o).open = o
BY DEF Collector, With

LEMMA Fields ==
  ASSUME NEW c \in Collector
  PROVE  /\ c.interval \in UNION {Intervals[g] : g \in Modes}
         /\ c.t \in Times /\ c.data \in SUBSET Times /\ c.open \in BOOLEAN
BY DEF Collector

(* Updating all collectors of a typed state, each to a collector that is   *)
(* not ahead, leaves a typed state.                                        *)
LEMMA ForEachTyped ==
  ASSUME NEW new \in [Modes -> [Names -> Collector \cup {NoCollector}]],
         NEW time \in Times,
         \A g \in Modes : \A n \in Names :
           new[g][n] # NoCollector => new[g][n].t <= time,
         cols' = new, now' = time
  PROVE  /\ cols' \in [Modes -> [Names -> Collector \cup {NoCollector}]]
         /\ now' \in Times /\ Behind'
BY DEF Behind, Members

LEMMA Typed == TypeInv /\ [Next]_vars => TypeOK' /\ Behind'
<1> SUFFICES ASSUME TypeInv, [Next]_vars PROVE TypeOK' /\ Behind'
  OBVIOUS
<1> USE DEF TypeInv
<1>0. Times \subseteq Nat /\ 0 \in Times
  BY MetricsAssumption DEF Times
<1>a. \A g \in Modes : \A n \in Members(g) :
        cols[g][n] \in Collector /\ n \in Names /\ cols[g][n].t <= now
  <2>1. cols \in [Modes -> [Names -> Collector \cup {NoCollector}]]
    BY DEF TypeOK
  <2>2. Behind
    OBVIOUS
  <2>3. QED
    BY ONLY <2>1, <2>2 DEF Members, Behind
<1>1. ASSUME NEW n \in Names, NEW g \in Modes, NEW i \in Intervals[g],
             Register(n, g, i)
      PROVE  TypeOK' /\ Behind'
  <2> DEFINE new == [interval |-> i, t |-> 0, data |-> {}, open |-> FALSE]
  <2>1. new \in Collector
    BY <1>0 DEF Collector
  <2>2. new.t = 0
    OBVIOUS
  <2>3. \/ mapped' = mapped /\ cols' = cols
        \/ /\ mapped' = [mapped EXCEPT ![n] = g]
           /\ cols' = cols \/ cols' = [cols EXCEPT ![g][n] = new]
    BY <1>1 DEF Register
  <2>4. mode' \in {"run", "threw", "aborted", "undefined"}
    BY <1>1 DEF Register, TypeOK
  <2>5. UNCHANGED <<disk, status, phase, flushed, now, got, failed>>
    BY <1>1 DEF Register
  <2> HIDE DEF new
  <2>6. /\ cols' \in [Modes -> [Names -> Collector \cup {NoCollector}]]
        /\ mapped' \in [Names -> Modes \cup {NoGroup}]
    <3>1. /\ cols \in [Modes -> [Names -> Collector \cup {NoCollector}]]
          /\ mapped \in [Names -> Modes \cup {NoGroup}]
      BY DEF TypeOK
    <3>2. QED
      BY ONLY <2>1, <2>3, <3>1, n \in Names, g \in Modes, SMTT(30)
  <2>7. Behind'
    <3>1. ASSUME NEW h \in Modes, NEW k \in Members(h)'
          PROVE  cols'[h][k].t <= now'
      <4>1. CASE cols'[h][k] = cols[h][k]
        BY <2>5, <3>1, <4>1 DEF Behind, Members
      <4>2. CASE cols'[h][k] = new
        BY <1>0, <2>2, <2>5, <4>2 DEF TypeOK
      <4>3. QED
        BY <2>3, <3>1, <4>1, <4>2 DEF TypeOK, Members
    <3>2. QED
      BY <3>1 DEF Behind
  <2>8. QED
    BY <2>4, <2>5, <2>6, <2>7 DEF TypeOK
<1>2. ASSUME NEW n \in Names, Unregister(n)
      PROVE  TypeOK' /\ Behind'
  <2>1. /\ cols' = [cols EXCEPT ![mapped[n]][n] = NoCollector]
        /\ mapped[n] \in Modes
        /\ got' = [got EXCEPT ![n] = {}]
        /\ UNCHANGED <<mapped, disk, status, phase, flushed, now, mode, failed>>
    BY <1>2 DEF Unregister, TypeOK
  <2>2. cols' \in [Modes -> [Names -> Collector \cup {NoCollector}]]
        /\ got' \in [Names -> SUBSET Times]
    BY <2>1 DEF TypeOK
  <2>3. Behind'
    BY <2>1 DEF Behind, Members, TypeOK
  <2>4. QED
    BY <2>1, <2>2, <2>3 DEF TypeOK
<1>3. ASSUME NEW n \in Names, Collect(n)
      PROVE  TypeOK' /\ Behind'
  <2> DEFINE g == mapped[n]
             c == cols[g][n]
             new == [c EXCEPT !.data = c.data \cup {now}]
  <2>1. /\ g \in Modes /\ n \in Members(g)
        /\ cols' = [cols EXCEPT ![g][n].data = c.data \cup {now}]
        /\ got' = [got EXCEPT ![n] = got[n] \cup {now}]
        /\ UNCHANGED <<mapped, disk, status, phase, flushed, now, mode, failed>>
    BY <1>3 DEF Collect, TypeOK
  <2>2. cols' = [cols EXCEPT ![g][n] = new]
    BY <2>1 DEF TypeOK
  <2>3. new \in Collector /\ new.t = c.t
    <3>1. c \in Collector /\ now \in Times
      BY <1>a, <2>1 DEF TypeOK
    <3> HIDE DEF c
    <3>2. new = With(c, c.data \cup {now}, c.t, c.open)
      BY <3>1, Replaced
    <3>3. c.data \cup {now} \in SUBSET Times /\ c.t \in Times /\ c.open \in BOOLEAN
      BY <3>1, Fields
    <3> HIDE DEF new
    <3>4. QED
      BY <3>1, <3>2, <3>3, WithTyped
  <2>4. c.t <= now
    BY <1>a, <2>1
  <2> HIDE DEF g, c, new
  <2>5. /\ cols' \in [Modes -> [Names -> Collector \cup {NoCollector}]]
        /\ got' \in [Names -> SUBSET Times]
    <3>1. /\ cols \in [Modes -> [Names -> Collector \cup {NoCollector}]]
          /\ got \in [Names -> SUBSET Times] /\ now \in Times
      BY DEF TypeOK
    <3>2. cols' \in [Modes -> [Names -> Collector \cup {NoCollector}]]
      <4>1. /\ g \in Modes /\ n \in Names /\ new \in Collector
            /\ cols' = [cols EXCEPT ![g][n] = new]
            /\ cols \in [Modes -> [Names -> Collector \cup {NoCollector}]]
        BY <2>1, <2>2, <2>3, <3>1
      <4>2. QED
        BY ONLY <4>1
    <3>3. got[n] \cup {now} \in SUBSET Times
      BY <3>1
    <3>4. QED
      BY <2>1, <3>1, <3>2, <3>3
  <2>6. Behind'
    BY <2>1, <2>2, <2>3, <2>4 DEF Behind, Members, TypeOK
  <2>7. QED
    BY <2>1, <2>5, <2>6 DEF TypeOK
<1>4. ASSUME NEW bad \in SUBSET Opening, Initialize(bad)
      PROVE  TypeOK' /\ Behind'
  <2> DEFINE New(g, n) == [cols[g][n] EXCEPT !.open = <<g, n>> \in Opening \ bad,
                             !.data = IF n \in Resetting THEN {} ELSE @]
             new == ForEach(New)
  <2>1. /\ phase' = "collect"
        /\ failed' = failed \cup {n \in Names : \E g \in Modes : <<g, n>> \in bad}
        /\ UNCHANGED <<mapped, status, flushed, now>>
        /\ mode' \in {"run", "threw", "aborted", "undefined"}
    BY <1>4 DEF Initialize, TypeOK
  <2>2. CASE UNCHANGED <<cols, disk, got>>
    BY <2>1, <2>2 DEF TypeOK, Behind, Members, Phases
  <2>3. CASE /\ cols' = new
             /\ disk' = [g \in Modes |-> [n \in Names |->
                  IF <<g, n>> \in Opening \ bad THEN {} ELSE disk[g][n]]]
             /\ got' = [n \in Names |-> IF n \in Resetting THEN {} ELSE got[n]]
    <3>1. ASSUME NEW g \in Modes, NEW n \in Members(g)
          PROVE  New(g, n) \in Collector /\ New(g, n).t = cols[g][n].t
      <4> DEFINE c == cols[g][n]
                 opened == <<g, n>> \in Opening \ bad
                 cleared == IF n \in Resetting THEN {} ELSE c.data
      <4>1. c \in Collector /\ opened \in BOOLEAN
            /\ New(g, n) = [c EXCEPT !.open = opened, !.data = cleared]
        BY <1>a
      <4>2. cleared \in SUBSET Times
        BY <4>1, Fields
      <4> HIDE DEF c, opened, cleared, New
      <4>3. New(g, n) = With(c, cleared, c.t, opened)
        BY <4>1, Reopened
      <4>4. c.t \in Times
        BY <4>1, Fields
      <4>5. New(g, n) \in Collector /\ New(g, n).t = c.t
        BY <4>1, <4>2, <4>3, <4>4, WithTyped
      <4>6. QED
        BY <4>5 DEF c
    <3>2. new \in [Modes -> [Names -> Collector \cup {NoCollector}]]
      BY <3>1 DEF ForEach, Members
    <3>3. \A g \in Modes : \A n \in Names :
             new[g][n] # NoCollector => new[g][n].t <= now
      BY <1>a, <3>1 DEF ForEach
    <3>4. now \in Times /\ now' = now
      BY <2>1 DEF TypeOK
    <3>5. cols' \in [Modes -> [Names -> Collector \cup {NoCollector}]] /\ Behind'
      BY <2>3, <3>2, <3>3, <3>4, ForEachTyped
    <3>6. disk' \in [Modes -> [Names -> (SUBSET Lines) \cup {NoFile}]]
          /\ got' \in [Names -> SUBSET Times]
      BY <2>3 DEF TypeOK
    <3>7. QED
      BY <2>1, <3>5, <3>6 DEF TypeOK, Phases
  <2>4. QED
    BY <1>4, <2>2, <2>3 DEF Initialize
<1>5. ASSUME NEW md \in Modes \cup {"stream"}, Flush(md)
      PROVE  TypeOK' /\ Behind'
  <2> DEFINE g == GroupOf(md)
  <2>1. g \in Modes
    BY DEF GroupOf, Modes
  <2>2. PICK out \in Results(g) :
       /\ disk' = [disk EXCEPT ![g] = [n \in Names |->
            IF n \in Due(g) THEN FileAfter(g, n, out[n]) ELSE disk[g][n]]]
       /\ cols' = [cols EXCEPT ![g] = [n \in Names |->
            IF n \in Due(g) /\ out[n] # "thrown"
              THEN [cols[g][n] EXCEPT !.open = g # "create" /\ out[n] = "written"]
              ELSE cols[g][n]]]
       /\ status' = [n \in Names |->
            CASE n \in Due(g) -> IF out[n] = "thrown" THEN "FAILED" ELSE "SUCCESS"
              [] n \in Reached(g) \ Due(g) -> "NO_ATTEMPT"
              [] n \in Members(g) \ Reached(g) -> "none"
              [] OTHER -> status[n]]
       /\ failed' = failed \cup {n \in Due(g) : out[n] # "written"}
       /\ mode' \in {"run"} \cup
            (IF AssertHalts /\ g = "truncate" /\ \E n \in Due(g) : out[n] = "lost"
               THEN {"aborted"} ELSE {})
    BY <1>5, <2>1 DEF Flush, TypeOK
  <2>3. /\ phase' = "flush" /\ flushed' = flushed \cup {md}
        /\ UNCHANGED <<mapped, now, got>>
    BY <1>5 DEF Flush
  <2> HIDE DEF g
  <2>4. Due(g) \subseteq Members(g)
    BY DEF Due, Reached
  <2>5. ASSUME NEW n \in Due(g)
        PROVE  FileAfter(g, n, out[n]) \in (SUBSET Lines) \cup {NoFile}
    <3>1. /\ cols[g][n] \in Collector /\ n \in Names
          /\ disk[g][n] \in (SUBSET Lines) \cup {NoFile}
      BY <1>a, <2>1, <2>4 DEF TypeOK
    <3>2. Line(cols[g][n]) \in Lines
      BY <3>1 DEF Line, Lines, Collector
    <3>3. CASE out[n] = "written"
      <4>1. g = "append" => disk[g][n] \in SUBSET Lines
        <5>1. out[n] \in Outcomes(g, n) /\ n \in Members(g)
          BY <2>4 DEF Results
        <5>2. g = "append" => cols[g][n].open
          BY <3>3, <5>1 DEF Outcomes
        <5>3. QED
          BY <5>1, <5>2 DEF OpenHasFile
      <4>2. QED
        BY <2>1, <3>1, <3>2, <3>3, <4>1 DEF FileAfter, Written, Modes
    <3>4. CASE out[n] # "written"
      BY <3>1, <3>4 DEF FileAfter
    <3>5. QED
      BY <3>3, <3>4
  <2>6. disk' \in [Modes -> [Names -> (SUBSET Lines) \cup {NoFile}]]
    <3>1. disk \in [Modes -> [Names -> (SUBSET Lines) \cup {NoFile}]]
      BY DEF TypeOK
    <3>2. QED
      BY <2>1, <2>2, <2>5, <3>1
  <2>7. ASSUME NEW n \in Names
        PROVE  cols'[g][n] = cols[g][n]
                 \/ /\ n \in Members(g)
                    /\ \E o \in BOOLEAN :
                         cols'[g][n] = With(cols[g][n], cols[g][n].data,
                                            cols[g][n].t, o)
    <3> DEFINE c == cols[g][n]
               o == g # "create" /\ out[n] = "written"
    <3>1. cols'[g][n] = IF n \in Due(g) /\ out[n] # "thrown"
                        THEN [c EXCEPT !.open = o] ELSE c
      BY <2>1, <2>2 DEF TypeOK
    <3>2. n \in Due(g) => c \in Collector /\ n \in Members(g)
      BY <1>a, <2>1, <2>4
    <3>3. o \in BOOLEAN
      OBVIOUS
    <3> HIDE DEF c, o
    <3>4. n \in Due(g) => [c EXCEPT !.open = o] = With(c, c.data, c.t, o)
      BY <3>2, Replaced
    <3>5. QED
      BY <3>1, <3>2, <3>3, <3>4 DEF c
  <2>8. ASSUME NEW n \in Names
        PROVE  /\ cols'[g][n] \in Collector \cup {NoCollector}
               /\ n \in Members(g)' => cols'[g][n].t <= now
    <3>1. CASE cols'[g][n] = cols[g][n]
      BY <2>1, <3>1 DEF TypeOK, Members, Behind
    <3>2. ASSUME n \in Members(g), NEW o \in BOOLEAN,
                 cols'[g][n] = With(cols[g][n], cols[g][n].data, cols[g][n].t, o)
          PROVE  cols'[g][n] \in Collector /\ cols'[g][n].t <= now
      <4> DEFINE c == cols[g][n]
      <4>1. c \in Collector /\ c.t <= now
        BY <1>a, <2>1, <3>2
      <4>2. cols'[g][n] = With(c, c.data, c.t, o)
        BY <3>2
      <4> HIDE DEF c
      <4>3. c.data \in SUBSET Times /\ c.t \in Times
        BY <4>1, Fields
      <4>4. cols'[g][n] \in Collector /\ cols'[g][n].t = c.t
        BY <3>2, <4>1, <4>2, <4>3, WithTyped
      <4>5. QED
        BY <4>1, <4>4
    <3>3. QED
      BY <2>7, <3>1, <3>2
  <2>9. /\ cols' = [cols EXCEPT ![g] = cols'[g]]
        /\ cols'[g] \in [Names -> Collector \cup {NoCollector}]
    <3>1. cols'[g] = [n \in Names |-> cols'[g][n]]
      BY <2>1, <2>2 DEF TypeOK
    <3>2. QED
      BY <2>1, <2>2, <2>8, <3>1 DEF TypeOK
  <2>10. cols' \in [Modes -> [Names -> Collector \cup {NoCollector}]]
    BY <2>1, <2>9 DEF TypeOK
  <2>11. Behind'
    <3>1. ASSUME NEW h \in Modes, NEW k \in Members(h)'
          PROVE  cols'[h][k].t <= now'
      <4>1. k \in Names
        BY DEF Members
      <4>2. CASE h = g
        BY <2>3, <2>8, <3>1, <4>1, <4>2
      <4>3. CASE h # g
        <5>1. cols'[h] = cols[h]
          BY <2>9, <4>3 DEF TypeOK
        <5>2. QED
          BY <2>3, <3>1, <5>1 DEF Behind, Members
      <4>4. QED
        BY <4>2, <4>3
    <3>2. QED
      BY <3>1 DEF Behind
  <2>12. /\ status' \in [Names -> Statuses] /\ failed' \subseteq Names
    BY <2>2, <2>4 DEF TypeOK, Statuses, Members
  <2>13. /\ phase' \in Phases /\ flushed' \subseteq Modes \cup {"stream"}
         /\ mode' \in {"run", "threw", "aborted", "undefined"}
    BY <2>2, <2>3 DEF TypeOK, Phases
  <2>14. QED
    BY <2>3, <2>6, <2>10, <2>11, <2>12, <2>13 DEF TypeOK
<1>6. CASE IntervalReset
  <2> DEFINE New(g, n) == [cols[g][n] EXCEPT !.data =
               IF cols[g][n].t > 0 /\ Ready(g, n) /\ n \in Resetting THEN {} ELSE @]
             new == ForEach(New)
  <2>1. /\ cols' = new /\ phase' = "inc"
        /\ UNCHANGED <<mapped, disk, status, flushed, now, mode, got, failed>>
    BY <1>6 DEF IntervalReset
  <2>2. ASSUME NEW g \in Modes, NEW n \in Members(g)
        PROVE  New(g, n) \in Collector /\ New(g, n).t = cols[g][n].t
    <3> DEFINE c == cols[g][n]
               d == IF c.t > 0 /\ Ready(g, n) /\ n \in Resetting THEN {} ELSE c.data
    <3>1. c \in Collector /\ New(g, n) = [c EXCEPT !.data = d]
      BY <1>a
    <3>2. d \in SUBSET Times
      BY <3>1, Fields
    <3> HIDE DEF c, d, New
    <3>3. New(g, n) = With(c, d, c.t, c.open) /\ c.t \in Times /\ c.open \in BOOLEAN
      BY <3>1, Replaced, Fields
    <3>4. New(g, n) \in Collector /\ New(g, n).t = c.t
      BY <3>1, <3>2, <3>3, WithTyped
    <3>5. QED
      BY <3>4 DEF c
  <2>3. new \in [Modes -> [Names -> Collector \cup {NoCollector}]]
    BY <2>2 DEF ForEach, Members
  <2>4. \A g \in Modes : \A n \in Names : new[g][n] # NoCollector => new[g][n].t <= now
    BY <1>a, <2>2 DEF ForEach
  <2>5. now \in Times /\ now' = now
    BY <2>1 DEF TypeOK
  <2>6. cols' \in [Modes -> [Names -> Collector \cup {NoCollector}]] /\ Behind'
    BY <2>1, <2>3, <2>4, <2>5, ForEachTyped
  <2>7. QED
    BY <2>1, <2>6 DEF TypeOK, Phases
<1>7. CASE TimestepInc
  <2> DEFINE New(g, n) == [cols[g][n] EXCEPT !.t = @ + 1]
             new == ForEach(New)
  <2>1. /\ cols' = new /\ phase' = "collect" /\ now' = now + 1 /\ flushed' = {}
        /\ UNCHANGED <<mapped, disk, status, mode, got, failed>>
    BY <1>7 DEF TimestepInc
  <2>2. now + 1 \in Times /\ now \in Nat /\ Times = 0 .. MaxTime
    <3>1. now < MaxTime /\ now \in 0 .. MaxTime /\ MaxTime \in Nat
      BY <1>7, MetricsAssumption DEF TimestepInc, TypeOK, Times
    <3>2. QED
      BY <3>1 DEF Times
  <2>3. ASSUME NEW g \in Modes, NEW n \in Members(g)
        PROVE  New(g, n) \in Collector /\ New(g, n).t = cols[g][n].t + 1
               /\ cols[g][n].t \in Nat
    <3> DEFINE c == cols[g][n]
    <3>1. c \in Collector /\ c.t <= now /\ New(g, n) = [c EXCEPT !.t = c.t + 1]
      BY <1>a
    <3> HIDE DEF c, New
    <3>2. New(g, n) = With(c, c.data, c.t + 1, c.open)
      BY <3>1, Replaced
    <3>3. c.t \in Times /\ c.data \in SUBSET Times /\ c.open \in BOOLEAN
      BY <3>1, Fields
    <3>4. c.t + 1 \in Times
      BY <2>2, <3>1, <3>3, MetricsAssumption
    <3>5. New(g, n) \in Collector /\ New(g, n).t = c.t + 1
      BY <3>1, <3>2, <3>3, <3>4, WithTyped
    <3>6. QED
      BY <2>2, <3>3, <3>5 DEF c
  <2>4. new \in [Modes -> [Names -> Collector \cup {NoCollector}]]
    BY <2>3 DEF ForEach, Members
  <2>5. ASSUME NEW g \in Modes, NEW n \in Names, new[g][n] # NoCollector
        PROVE  new[g][n].t <= now + 1
    <3>1. n \in Members(g) /\ new[g][n] = New(g, n)
      BY <2>5 DEF ForEach
    <3>2. new[g][n].t = cols[g][n].t + 1 /\ cols[g][n].t \in Nat /\ cols[g][n].t <= now
      BY <1>a, <2>3, <3>1
    <3>3. \A t \in Nat : t <= now => t + 1 <= now + 1
      BY <2>2
    <3>4. QED
      BY <3>2, <3>3
  <2> HIDE DEF new
  <2>6. cols' \in [Modes -> [Names -> Collector \cup {NoCollector}]] /\ Behind'
    BY <2>1, <2>2, <2>4, <2>5, ForEachTyped
  <2>7. QED
    BY <2>1, <2>2, <2>6 DEF TypeOK, Phases
<1>8. CASE Finalize
  <2> DEFINE New(g, n) == [cols[g][n] EXCEPT !.open = FALSE]
             new == ForEach(New)
  <2>1. /\ cols' = new /\ phase' = "done"
        /\ UNCHANGED <<mapped, disk, status, flushed, now, mode, got, failed>>
    BY <1>8 DEF Finalize
  <2>2. ASSUME NEW g \in Modes, NEW n \in Members(g)
        PROVE  New(g, n) \in Collector /\ New(g, n).t = cols[g][n].t
    <3> DEFINE c == cols[g][n]
    <3>1. c \in Collector /\ New(g, n) = [c EXCEPT !.open = FALSE]
      BY <1>a
    <3> HIDE DEF c, New
    <3>2. New(g, n) = With(c, c.data, c.t, FALSE) /\ c.t \in Times
          /\ c.data \in SUBSET Times
      BY <3>1, Replaced, Fields
    <3>3. New(g, n) \in Collector /\ New(g, n).t = c.t
      BY <3>1, <3>2 DEF With, Collector
    <3>4. QED
      BY <3>3 DEF c
  <2>3. new \in [Modes -> [Names -> Collector \cup {NoCollector}]]
    BY <2>2 DEF ForEach, Members
  <2>4. \A g \in Modes : \A n \in Names : new[g][n] # NoCollector => new[g][n].t <= now
    BY <1>a, <2>2 DEF ForEach
  <2>5. now \in Times /\ now' = now
    BY <2>1 DEF TypeOK
  <2>6. cols' \in [Modes -> [Names -> Collector \cup {NoCollector}]] /\ Behind'
    BY <2>1, <2>3, <2>4, <2>5, ForEachTyped
  <2>7. QED
    BY <2>1, <2>6 DEF TypeOK, Phases
<1>9. CASE UNCHANGED vars
  BY <1>9 DEF vars, TypeOK, Behind, Members
<1>10. ASSUME NEW m \in Names, UseNoGroup(m)
      PROVE  TypeOK' /\ Behind'
  BY <1>10 DEF UseNoGroup, TypeOK, Behind, Members
<1>11. QED
  BY <1>1, <1>2, <1>3, <1>4, <1>5, <1>6, <1>7, <1>8, <1>9, <1>10 DEF Next

----------------------------------------------------------------------------
(* In a step, collector n of group g gets these fields.                    *)
Becomes(g, n, d, t, o) ==
  /\ n \in Members(g)
  /\ cols'[g][n].interval = cols[g][n].interval
  /\ cols'[g][n].data = d
  /\ cols'[g][n].t = t
  /\ cols'[g][n].open = o

LEMMA Becoming ==
  ASSUME NEW g, NEW n \in Members(g), NEW d, NEW t, NEW o,
         cols'[g][n] = With(cols[g][n], d, t, o)
  PROVE  Becomes(g, n, d, t, o)
BY DEF Becomes, With

(* What a step makes of each collector of the next state.                  *)
LEMMA TypedCollector ==
  ASSUME TypeInv, NEW g \in Modes, NEW n \in Members(g)
  PROVE  cols[g][n] \in Collector /\ n \in Names /\ mapped[n] \in Modes \cup {NoGroup}
  BY DEF TypeInv, TypeOK, Members

LEMMA AfterRegister ==
  ASSUME TypeInv, NEW m \in Names, NEW h \in Modes, NEW i \in Intervals[h],
         Register(m, h, i), NEW g \in Modes, NEW n \in Members(g)'
  PROVE  \/ n \in Members(g) /\ cols'[g][n] = cols[g][n]
         \/ /\ g = h /\ n = m /\ mapped'[n] = g
            /\ cols'[g][n].interval = i /\ cols'[g][n].t = 0
            /\ cols'[g][n].data = {} /\ cols'[g][n].open = FALSE
<1> DEFINE new == [interval |-> i, t |-> 0, data |-> {}, open |-> FALSE]
<1>1. \/ cols' = cols
      \/ mapped' = [mapped EXCEPT ![m] = h] /\ cols' = [cols EXCEPT ![h][m] = new]
  BY DEF Register
<1>2. n \in Names /\ cols'[g][n] # NoCollector
  BY DEF Members
<1>3. /\ cols \in [Modes -> [Names -> Collector \cup {NoCollector}]]
      /\ mapped \in [Names -> Modes \cup {NoGroup}]
  BY DEF TypeInv, TypeOK
<1> HIDE DEF new
<1>4. CASE cols' = cols
  BY <1>2, <1>4 DEF Members
<1>5. CASE mapped' = [mapped EXCEPT ![m] = h] /\ cols' = [cols EXCEPT ![h][m] = new]
  <2>1. CASE g = h /\ n = m
    <3>1. cols'[g][n] = new /\ mapped'[n] = g
      BY <1>2, <1>3, <1>5, <2>1
    <3>2. new.interval = i /\ new.t = 0 /\ new.data = {} /\ new.open = FALSE
      BY DEF new
    <3>3. QED
      BY <2>1, <3>1, <3>2
  <2>2. CASE ~(g = h /\ n = m)
    BY <1>2, <1>3, <1>5, <2>2 DEF Members
  <2>3. QED
    BY <2>1, <2>2
<1>6. QED
  BY <1>1, <1>4, <1>5

LEMMA AfterUnregister ==
  ASSUME TypeInv, NEW m \in Names, Unregister(m),
         NEW g \in Modes, NEW n \in Members(g)'
  PROVE  n \in Members(g) /\ cols'[g][n] = cols[g][n]
<1>1. /\ cols \in [Modes -> [Names -> Collector \cup {NoCollector}]]
      /\ mapped[m] \in Modes
      /\ cols' = [cols EXCEPT ![mapped[m]][m] = NoCollector]
  BY DEF TypeInv, TypeOK, Unregister
<1>2. n \in Names /\ cols'[g][n] # NoCollector
  BY DEF Members
<1>3. QED
  BY <1>1, <1>2 DEF Members

LEMMA AfterCollect ==
  ASSUME TypeInv, NEW m \in Names, Collect(m),
         NEW g \in Modes, NEW n \in Members(g)'
  PROVE  /\ got' = [got EXCEPT ![m] = got[m] \cup {now}]
         /\ IF n = m /\ g = mapped[m]
            THEN Becomes(g, n, cols[g][n].data \cup {now}, cols[g][n].t,
                         cols[g][n].open)
            ELSE n \in Members(g) /\ cols'[g][n] = cols[g][n]
<1> DEFINE h == mapped[m]
           new == [cols[h][m] EXCEPT !.data = cols[h][m].data \cup {now}]
<1>1. /\ cols \in [Modes -> [Names -> Collector \cup {NoCollector}]]
      /\ h \in Modes /\ m \in Members(h)
      /\ cols' = [cols EXCEPT ![h][m].data = cols[h][m].data \cup {now}]
      /\ got' = [got EXCEPT ![m] = got[m] \cup {now}]
  BY DEF TypeInv, TypeOK, Collect
<1>2. n \in Names /\ cols'[g][n] # NoCollector
  BY DEF Members
<1>3. cols' = [cols EXCEPT ![h][m] = new]
  BY <1>1
<1>4. new = With(cols[h][m], cols[h][m].data \cup {now}, cols[h][m].t, cols[h][m].open)
  BY <1>1, TypedCollector, Replaced
<1> HIDE DEF h, new
<1>5. CASE n = m /\ g = h
  <2>1. cols'[g][n] = new /\ n \in Members(g)
    BY <1>1, <1>3, <1>5
  <2>2. QED
    BY <1>1, <1>4, <1>5, <2>1, Becoming DEF h
<1>6. CASE ~(n = m /\ g = h)
  <2>1. cols'[g][n] = cols[g][n]
    BY <1>1, <1>2, <1>3, <1>6
  <2>2. QED
    BY <1>1, <1>2, <1>6, <2>1 DEF h, Members
<1>7. QED
  BY <1>5, <1>6

LEMMA AfterInitialize ==
  ASSUME TypeInv, NEW bad, Initialize(bad),
         NEW g \in Modes, NEW n \in Members(g)'
  PROVE  /\ n \in Members(g)
         /\ \/ UNCHANGED <<cols, disk, got>>
            \/ /\ Becomes(g, n, IF n \in Resetting THEN {} ELSE cols[g][n].data,
                          cols[g][n].t, <<g, n>> \in Opening \ bad)
               /\ disk'[g][n] = IF <<g, n>> \in Opening \ bad THEN {} ELSE disk[g][n]
               /\ got'[n] = IF n \in Resetting THEN {} ELSE got[n]
<1> DEFINE d == IF n \in Resetting THEN {} ELSE cols[g][n].data
           o == <<g, n>> \in Opening \ bad
<1>1. n \in Names /\ cols'[g][n] # NoCollector
  BY DEF Members
<1>2. CASE UNCHANGED <<cols, disk, got>>
  BY <1>1, <1>2 DEF Members
<1>3. CASE /\ cols' = ForEach(LAMBDA x, y :
                 [cols[x][y] EXCEPT !.open = <<x, y>> \in Opening \ bad,
                                    !.data = IF y \in Resetting THEN {} ELSE @])
           /\ disk' = [x \in Modes |-> [y \in Names |->
                 IF <<x, y>> \in Opening \ bad THEN {} ELSE disk[x][y]]]
           /\ got' = [y \in Names |-> IF y \in Resetting THEN {} ELSE got[y]]
  <2>1. n \in Members(g) /\ cols'[g][n] = [cols[g][n] EXCEPT !.open = o, !.data = d]
    BY <1>1, <1>3 DEF ForEach
  <2>2. cols[g][n] \in Collector
    BY <2>1, TypedCollector
  <2>3. cols'[g][n] = With(cols[g][n], d, cols[g][n].t, o)
    <3> HIDE DEF d, o
    <3>1. QED
      BY <2>1, <2>2, Reopened
  <2>4. QED
    BY <1>1, <1>3, <2>1, <2>3, Becoming
<1>4. QED
  BY <1>2, <1>3 DEF Initialize

LEMMA AfterFlush ==
  ASSUME TypeInv, NEW md \in Modes \cup {"stream"}, Flush(md),
         NEW g \in Modes, NEW n \in Members(g)'
  PROVE  /\ n \in Members(g)
         /\ \/ /\ g # GroupOf(md) \/ n \notin Due(g)
               /\ cols'[g][n] = cols[g][n] /\ disk'[g][n] = disk[g][n]
            \/ \E r \in Outcomes(g, n) :
                 /\ g = GroupOf(md) /\ n \in Due(g)
                 /\ disk'[g][n] = FileAfter(g, n, r)
                 /\ IF r = "thrown" THEN cols'[g][n] = cols[g][n]
                    ELSE Becomes(g, n, cols[g][n].data, cols[g][n].t,
                                 g # "create" /\ r = "written")
                 /\ r # "written" => n \in failed'
<1> DEFINE h == GroupOf(md)
<1>1. h \in Modes /\ n \in Names /\ cols'[g][n] # NoCollector
  BY DEF GroupOf, Modes, Members
<1>2. /\ cols \in [Modes -> [Names -> Collector \cup {NoCollector}]]
      /\ disk \in [Modes -> [Names -> (SUBSET Lines) \cup {NoFile}]]
  BY DEF TypeInv, TypeOK
<1>3. PICK out \in Results(h) :
       /\ disk' = [disk EXCEPT ![h] = [k \in Names |->
            IF k \in Due(h) THEN FileAfter(h, k, out[k]) ELSE disk[h][k]]]
       /\ cols' = [cols EXCEPT ![h] = [k \in Names |->
            IF k \in Due(h) /\ out[k] # "thrown"
              THEN [cols[h][k] EXCEPT !.open = h # "create" /\ out[k] = "written"]
              ELSE cols[h][k]]]
       /\ failed' = failed \cup {k \in Due(h) : out[k] # "written"}
  BY <1>1, <1>2 DEF Flush
<1> HIDE DEF h
<1>4. Due(h) \subseteq Members(h)
  BY DEF Due, Reached
<1>5. CASE g # h
  <2>1. cols'[g] = cols[g] /\ disk'[g] = disk[g]
    BY <1>2, <1>3, <1>5
  <2>2. QED
    BY <1>1, <1>5, <2>1 DEF Members, h
<1>6. CASE g = h
  <2>1. /\ cols'[g][n] =
             IF n \in Due(g) /\ out[n] # "thrown"
             THEN [cols[g][n] EXCEPT !.open = g # "create" /\ out[n] = "written"]
             ELSE cols[g][n]
        /\ disk'[g][n] = IF n \in Due(g) THEN FileAfter(g, n, out[n]) ELSE disk[g][n]
    BY <1>1, <1>2, <1>3, <1>6
  <2>2. CASE n \notin Due(g)
    BY <1>1, <2>1, <2>2 DEF Members
  <2>3. CASE n \in Due(g)
    <3> DEFINE c == cols[g][n]
               o == g # "create" /\ out[n] = "written"
    <3>1. c \in Collector /\ n \in Members(g)
      BY <1>4, <1>6, <2>3, TypedCollector
    <3>2. cols'[g][n] = IF out[n] = "thrown" THEN c ELSE [c EXCEPT !.open = o]
      BY <2>1, <2>3
    <3> HIDE DEF c, o
    <3>3. cols'[g][n] = IF out[n] = "thrown" THEN c ELSE With(c, c.data, c.t, o)
      BY <3>1, <3>2, Replaced
    <3>4. out[n] \in Outcomes(g, n) /\ (out[n] # "written" => n \in failed')
      BY <1>3, <1>6, <2>3 DEF Results
    <3>5. IF out[n] = "thrown" THEN cols'[g][n] = c ELSE Becomes(g, n, c.data, c.t, o)
      BY <3>1, <3>3, Becoming DEF c
    <3>6. QED
      BY <1>6, <2>1, <2>3, <3>1, <3>5, <3>4 DEF c, o, h
  <2>4. QED
    BY <2>2, <2>3
<1>7. QED
  BY <1>5, <1>6

LEMMA AfterIntervalReset ==
  ASSUME TypeInv, IntervalReset, NEW g \in Modes, NEW n \in Members(g)'
  PROVE  Becomes(g, n, IF cols[g][n].t > 0 /\ Ready(g, n) /\ n \in Resetting
                         THEN {} ELSE cols[g][n].data,
                 cols[g][n].t, cols[g][n].open)
<1> DEFINE c == cols[g][n]
           d == IF c.t > 0 /\ Ready(g, n) /\ n \in Resetting THEN {} ELSE c.data
<1>1. n \in Names /\ cols'[g][n] # NoCollector
  BY DEF Members
<1>2. n \in Members(g) /\ cols'[g][n] = [c EXCEPT !.data = d]
  BY <1>1 DEF IntervalReset, ForEach
<1>3. c \in Collector
  BY <1>2, TypedCollector
<1> HIDE DEF c, d
<1>4. cols'[g][n] = With(c, d, c.t, c.open)
  BY <1>2, <1>3, Replaced
<1>5. QED
  BY <1>2, <1>4, Becoming DEF c, d

LEMMA AfterTimestepInc ==
  ASSUME TypeInv, TimestepInc, NEW g \in Modes, NEW n \in Members(g)'
  PROVE  Becomes(g, n, cols[g][n].data, cols[g][n].t + 1, cols[g][n].open)
<1> DEFINE c == cols[g][n]
<1>1. n \in Names /\ cols'[g][n] # NoCollector
  BY DEF Members
<1>2. n \in Members(g) /\ cols'[g][n] = [c EXCEPT !.t = c.t + 1]
  BY <1>1 DEF TimestepInc, ForEach
<1>3. c \in Collector
  BY <1>2, TypedCollector
<1> HIDE DEF c
<1>4. cols'[g][n] = With(c, c.data, c.t + 1, c.open)
  BY <1>2, <1>3, Replaced
<1>5. QED
  BY <1>2, <1>4, Becoming DEF c

LEMMA AfterFinalize ==
  ASSUME TypeInv, Finalize, NEW g \in Modes, NEW n \in Members(g)'
  PROVE  Becomes(g, n, cols[g][n].data, cols[g][n].t, FALSE)
<1> DEFINE c == cols[g][n]
<1>1. n \in Names /\ cols'[g][n] # NoCollector
  BY DEF Members
<1>2. n \in Members(g) /\ cols'[g][n] = [c EXCEPT !.open = FALSE]
  BY <1>1 DEF Finalize, ForEach
<1>3. c \in Collector
  BY <1>2, TypedCollector
<1> HIDE DEF c
<1>4. cols'[g][n] = With(c, c.data, c.t, FALSE)
  BY <1>2, <1>3, Replaced
<1>5. QED
  BY <1>2, <1>4, Becoming DEF c

----------------------------------------------------------------------------
LEMMA OpenHasFileKept == TypeInv /\ [Next]_vars => OpenHasFile'
<1> SUFFICES ASSUME TypeInv, [Next]_vars, NEW n \in Members("append")',
                    cols'["append"][n].open
             PROVE  disk'["append"][n] \in SUBSET Lines
  BY DEF OpenHasFile
<1> DEFINE g == "append"
<1>0. g \in Modes /\ n \in Names
  BY DEF Modes, Members
<1>a. n \in Members(g) /\ cols[g][n].open => disk[g][n] \in SUBSET Lines
  BY DEF TypeInv, OpenHasFile
<1> HIDE DEF g
<1>1. ASSUME NEW m \in Names, NEW h \in Modes, NEW i \in Intervals[h],
             Register(m, h, i)
      PROVE  disk'[g][n] \in SUBSET Lines
  <2>1. disk' = disk
    BY <1>1 DEF Register
  <2>2. \/ n \in Members(g) /\ cols'[g][n] = cols[g][n]
        \/ cols'[g][n].open = FALSE
    BY <1>0, <1>1, AfterRegister DEF g
  <2>3. QED
    BY <1>a, <2>1, <2>2 DEF g
<1>2. ASSUME NEW m \in Names, Unregister(m)
      PROVE  disk'[g][n] \in SUBSET Lines
  BY <1>0, <1>a, <1>2, AfterUnregister DEF Unregister, g
<1>3. ASSUME NEW m \in Names, Collect(m)
      PROVE  disk'[g][n] \in SUBSET Lines
  <2>1. disk' = disk
    BY <1>3 DEF Collect
  <2>2. n \in Members(g) /\ cols'[g][n].open = cols[g][n].open
    BY <1>0, <1>3, AfterCollect, ZenonT(40) DEF Becomes, g
  <2>3. QED
    BY <1>a, <2>1, <2>2 DEF g
<1>4. ASSUME NEW bad \in SUBSET Opening, Initialize(bad)
      PROVE  disk'[g][n] \in SUBSET Lines
  <2>1. n \in Members(g)
    BY <1>0, <1>4, AfterInitialize DEF g
  <2>2. CASE UNCHANGED <<cols, disk, got>>
    BY <1>a, <2>1, <2>2 DEF g
  <2>3. CASE /\ cols'[g][n].open = (<<g, n>> \in Opening \ bad)
             /\ disk'[g][n] = IF <<g, n>> \in Opening \ bad THEN {} ELSE disk[g][n]
    BY <2>3 DEF g
  <2>4. \/ UNCHANGED <<cols, disk, got>>
        \/ /\ cols'[g][n].open = (<<g, n>> \in Opening \ bad)
           /\ disk'[g][n] = IF <<g, n>> \in Opening \ bad THEN {} ELSE disk[g][n]
    <3>1. g \in Modes /\ n \in Members(g)'
      BY <1>0 DEF g
    <3> HIDE DEF g
    <3>2. QED
      BY <1>0, <1>4, <3>1, AfterInitialize DEF Becomes
  <2>5. QED
    BY <2>2, <2>3, <2>4
<1>5. ASSUME NEW md \in Modes \cup {"stream"}, Flush(md)
      PROVE  disk'[g][n] \in SUBSET Lines
  <2>1. CASE cols'[g][n] = cols[g][n] /\ disk'[g][n] = disk[g][n]
    BY <1>a, <1>5, <2>1, <1>0, AfterFlush DEF g
  <2>2. ASSUME NEW r \in Outcomes(g, n), n \in Members(g),
               disk'[g][n] = FileAfter(g, n, r),
               IF r = "thrown" THEN cols'[g][n] = cols[g][n]
               ELSE Becomes(g, n, cols[g][n].data, cols[g][n].t,
                            g # "create" /\ r = "written")
        PROVE  disk'[g][n] \in SUBSET Lines
    <3>1. r \in {"written", "lost"} /\ (r = "written" => cols[g][n].open)
      BY <2>2 DEF Outcomes, g
    <3>2. r = "written"
      BY <2>2, <3>1 DEF Becomes, g
    <3>3. disk[g][n] \in SUBSET Lines
      BY <1>a, <2>2, <3>1, <3>2
    <3>4. Line(cols[g][n]) \in Lines
      BY <1>0, <2>2, TypedCollector, Fields DEF Line, Lines
    <3>5. QED
      BY <2>2, <3>2, <3>3, <3>4 DEF FileAfter, Written, g
  <2>3. QED
    BY <1>0, <1>5, <2>1, <2>2, AfterFlush DEF g
<1>6. CASE IntervalReset
  BY <1>0, <1>a, <1>6, AfterIntervalReset DEF IntervalReset, Becomes, g
<1>7. CASE TimestepInc
  BY <1>0, <1>a, <1>7, AfterTimestepInc DEF TimestepInc, Becomes, g
<1>8. CASE Finalize
  BY <1>0, <1>a, <1>8, AfterFinalize DEF Finalize, Becomes, g
<1>9. CASE UNCHANGED vars
  BY <1>a, <1>9 DEF vars, Members, g
<1>10. ASSUME NEW m \in Names, UseNoGroup(m)
      PROVE  disk'[g][n] \in SUBSET Lines
  BY <1>a, <1>10 DEF UseNoGroup, Members, g
<1>11. QED
  BY <1>1, <1>2, <1>3, <1>4, <1>5, <1>6, <1>7, <1>8, <1>9, <1>10 DEF Next, g

LEMMA InitTyped == Init => TypeInv
<1> SUFFICES ASSUME Init PROVE TypeInv
  OBVIOUS
<1>1. 0 \in Times
  BY MetricsAssumption DEF Times
<1>2. \A g \in Modes : Members(g) = {}
  BY DEF Init, Members
<1>3. TypeOK
  <2>1. /\ mapped \in [Names -> Modes \cup {NoGroup}]
        /\ cols \in [Modes -> [Names -> Collector \cup {NoCollector}]]
    BY DEF Init
  <2>2. disk \in [Modes -> [Names -> (SUBSET Lines) \cup {NoFile}]]
    BY DEF Init
  <2>6. got \in [Names -> SUBSET Times]
    BY DEF Init
  <2>3. status \in [Names -> Statuses] /\ phase \in Phases /\ now \in Times
    BY <1>1 DEF Init, Statuses, Phases
  <2>4. /\ flushed \subseteq Modes \cup {"stream"} /\ failed \subseteq Names
        /\ mode \in {"run", "threw", "aborted", "undefined"}
    BY DEF Init
  <2>5. QED
    BY <2>1, <2>2, <2>3, <2>4, <2>6 DEF TypeOK
<1>4. Behind /\ OpenHasFile
  BY <1>2 DEF Behind, OpenHasFile, Modes
<1>5. QED
  BY <1>3, <1>4 DEF TypeInv

LEMMA TypeInvariant == Spec => []TypeInv
<1>1. TypeInv /\ [Next]_vars => TypeInv'
  BY Typed, OpenHasFileKept DEF TypeInv
<1>2. QED
  BY <1>1, InitTyped, PTL DEF Spec

(* The members of manager, groups, collectors and sinks keep their types   *)
(* whatever files fail, assertions stop and the user registers late.       *)
THEOREM MetricsTyped == Spec => []TypeOK
<1>1. TypeInv => TypeOK
  BY DEF TypeInv
<1>2. QED
  BY <1>1, TypeInvariant, PTL

----------------------------------------------------------------------------
(* The phases of the loop, and that a name is in the group it maps to.     *)
Phased ==
  /\ phase = "setup" => /\ now = 0 /\ flushed = {}
                        /\ \A g \in Modes, n \in Names : Output(g, n) = {}
                        /\ \A n \in Names : got[n] = {}
  /\ phase = "collect" => flushed = {}
  /\ phase = "inc" => Modes \subseteq flushed
  /\ \A g \in Modes : \A n \in Members(g) : mapped[n] = g

Counted == \A g \in Modes : \A n \in Members(g) : cols[g][n].t = now

LoopInv == TypeInv /\ Phased /\ Counted

LEMMA LoopStep == ~LateCollect /\ LoopInv /\ [Next]_vars => Phased' /\ Counted'
<1> SUFFICES ASSUME ~LateCollect, LoopInv, [Next]_vars
             PROVE  Phased' /\ Counted'
  OBVIOUS
<1>0. TypeInv /\ now \in Nat /\ mapped \in [Names -> Modes \cup {NoGroup}]
      /\ got \in [Names -> SUBSET Times]
  BY MetricsAssumption DEF LoopInv, TypeInv, TypeOK, Times
<1>a. (\A g \in Modes, n \in Names : disk'[g][n] = disk[g][n])
        => \A g \in Modes, n \in Names : Output(g, n)' = Output(g, n)
  BY DEF Output
<1>1. ASSUME NEW m \in Names, NEW h \in Modes, NEW i \in Intervals[h],
             Register(m, h, i)
      PROVE  Phased' /\ Counted'
  <2>1. /\ phase = "setup" /\ \A g \in Modes \ {h} : m \notin Members(g)
        /\ mapped' = mapped \/ mapped' = [mapped EXCEPT ![m] = h]
        /\ UNCHANGED <<disk, phase, flushed, now, got>>
    BY <1>1 DEF Register, MayRegister, In
  <2>2. ASSUME NEW g \in Modes, NEW n \in Members(g)'
        PROVE  mapped'[n] = g /\ cols'[g][n].t = now'
    <3>1. n \in Names
      BY DEF Members
    <3>2. CASE n \in Members(g) /\ cols'[g][n] = cols[g][n]
      BY <1>0, <2>1, <3>1, <3>2 DEF LoopInv, Phased, Counted
    <3>3. CASE mapped'[n] = g /\ cols'[g][n].t = 0
      BY <2>1, <3>3 DEF LoopInv, Phased
    <3>4. QED
      BY <1>0, <1>1, <3>2, <3>3, AfterRegister, ZenonT(40)
  <2>3. Phased'
    BY <1>a, <2>1, <2>2 DEF LoopInv, Phased
  <2>4. QED
    BY <2>2, <2>3 DEF Counted
<1>2. ASSUME NEW m \in Names, Unregister(m)
      PROVE  Phased' /\ Counted'
  <2>1. /\ phase = "setup" /\ got' = [got EXCEPT ![m] = {}]
        /\ UNCHANGED <<mapped, disk, phase, flushed, now>>
    BY <1>2 DEF Unregister, In
  <2>2. ASSUME NEW g \in Modes, NEW n \in Members(g)'
        PROVE  mapped'[n] = g /\ cols'[g][n].t = now'
    BY <1>0, <1>2, <2>1, AfterUnregister DEF LoopInv, Phased, Counted
  <2>3. \A n \in Names : got'[n] = {}
    BY <1>0, <2>1 DEF LoopInv, Phased
  <2>4. Phased'
    BY <1>a, <2>1, <2>2, <2>3 DEF LoopInv, Phased
  <2>5. QED
    BY <2>2, <2>4 DEF Counted
<1>3. ASSUME NEW m \in Names, Collect(m)
      PROVE  Phased' /\ Counted'
  <2>1. phase = "collect" /\ UNCHANGED <<mapped, disk, phase, flushed, now>>
    BY <1>3 DEF Collect, In
  <2>2. ASSUME NEW g \in Modes, NEW n \in Members(g)'
        PROVE  mapped'[n] = g /\ cols'[g][n].t = now'
    <3>1. n \in Members(g) /\ cols'[g][n].t = cols[g][n].t
      BY <1>0, <1>3, AfterCollect DEF Becomes
    <3>2. QED
      BY <2>1, <3>1 DEF LoopInv, Phased, Counted
  <2>3. Phased'
    BY <2>1, <2>2 DEF LoopInv, Phased
  <2>4. QED
    BY <2>2, <2>3 DEF Counted
<1>4. ASSUME NEW bad \in SUBSET Opening, Initialize(bad)
      PROVE  Phased' /\ Counted'
  <2>1. phase = "setup" /\ phase' = "collect" /\ UNCHANGED <<mapped, flushed, now>>
    BY <1>4 DEF Initialize, In
  <2>2. ASSUME NEW g \in Modes, NEW n \in Members(g)'
        PROVE  mapped'[n] = g /\ cols'[g][n].t = now'
    <3>1. n \in Members(g) /\ cols'[g][n].t = cols[g][n].t
      BY <1>0, <1>4, AfterInitialize DEF Becomes
    <3>2. QED
      BY <2>1, <3>1 DEF LoopInv, Phased, Counted
  <2>3. Phased'
    BY <2>1, <2>2 DEF LoopInv, Phased
  <2>4. QED
    BY <2>2, <2>3 DEF Counted
<1>5. ASSUME NEW md \in Modes \cup {"stream"}, Flush(md)
      PROVE  Phased' /\ Counted'
  <2>1. phase' = "flush" /\ UNCHANGED <<mapped, now>>
    BY <1>5 DEF Flush
  <2>2. ASSUME NEW g \in Modes, NEW n \in Members(g)'
        PROVE  mapped'[n] = g /\ cols'[g][n].t = now'
    <3>1. n \in Members(g) /\ cols'[g][n].t = cols[g][n].t
      BY <1>0, <1>5, AfterFlush DEF Becomes
    <3>2. QED
      BY <2>1, <3>1 DEF LoopInv, Phased, Counted
  <2>3. Phased'
    BY <2>1, <2>2 DEF Phased
  <2>4. QED
    BY <2>2, <2>3 DEF Counted
<1>6. CASE IntervalReset
  <2>1. phase' = "inc" /\ Modes \subseteq flushed /\ UNCHANGED <<mapped, flushed, now>>
    BY <1>6 DEF IntervalReset
  <2>2. ASSUME NEW g \in Modes, NEW n \in Members(g)'
        PROVE  mapped'[n] = g /\ cols'[g][n].t = now'
    <3>1. n \in Members(g) /\ cols'[g][n].t = cols[g][n].t
      BY <1>0, <1>6, AfterIntervalReset DEF Becomes
    <3>2. QED
      BY <2>1, <3>1 DEF LoopInv, Phased, Counted
  <2>3. Phased'
    BY <2>1, <2>2 DEF Phased
  <2>4. QED
    BY <2>2, <2>3 DEF Counted
<1>7. CASE TimestepInc
  <2>1. phase' = "collect" /\ flushed' = {} /\ now' = now + 1 /\ mapped' = mapped
    BY <1>7 DEF TimestepInc
  <2>2. ASSUME NEW g \in Modes, NEW n \in Members(g)'
        PROVE  mapped'[n] = g /\ cols'[g][n].t = now'
    <3>1. n \in Members(g) /\ cols'[g][n].t = cols[g][n].t + 1
      BY <1>0, <1>7, AfterTimestepInc DEF Becomes
    <3>2. QED
      BY <2>1, <3>1 DEF LoopInv, Phased, Counted
  <2>3. Phased'
    BY <2>1, <2>2 DEF Phased
  <2>4. QED
    BY <2>2, <2>3 DEF Counted
<1>8. CASE Finalize
  <2>1. phase' = "done" /\ UNCHANGED <<mapped, now>>
    BY <1>8 DEF Finalize
  <2>2. ASSUME NEW g \in Modes, NEW n \in Members(g)'
        PROVE  mapped'[n] = g /\ cols'[g][n].t = now'
    <3>1. n \in Members(g) /\ cols'[g][n].t = cols[g][n].t
      BY <1>0, <1>8, AfterFinalize DEF Becomes
    <3>2. QED
      BY <2>1, <3>1 DEF LoopInv, Phased, Counted
  <2>3. Phased'
    BY <2>1, <2>2 DEF Phased
  <2>4. QED
    BY <2>2, <2>3 DEF Counted
<1>9. CASE UNCHANGED vars
  BY <1>9 DEF vars, LoopInv, Phased, Counted, Members, Output
<1>10. ASSUME NEW m \in Names, UseNoGroup(m)
      PROVE  Phased' /\ Counted'
  BY <1>10 DEF UseNoGroup, LoopInv, Phased, Counted, Members, Output
<1>11. QED
  BY <1>1, <1>2, <1>3, <1>4, <1>5, <1>6, <1>7, <1>8, <1>9, <1>10 DEF Next

LEMMA InitLoop == Init => LoopInv
<1> SUFFICES ASSUME Init PROVE LoopInv
  OBVIOUS
<1>1. \A g \in Modes : Members(g) = {}
  BY DEF Init, Members
<1>2. \A g \in Modes, n \in Names : Output(g, n) = {}
  BY DEF Init, Output
<1>3. QED
  BY <1>1, <1>2, InitTyped DEF Init, LoopInv, Phased, Counted

LEMMA LoopInvariant ==
  ASSUME ~LateCollect
  PROVE  Spec => []LoopInv
<1>1. LoopInv /\ [Next]_vars => LoopInv'
  <2>1. TypeInv /\ [Next]_vars => TypeInv'
    BY Typed, OpenHasFileKept DEF TypeInv
  <2>2. QED
    BY <2>1, LoopStep DEF LoopInv
<1>2. QED
  BY <1>1, InitLoop, PTL DEF Spec

----------------------------------------------------------------------------
(* Nothing is lost, counted twice or left out if the members of a group    *)
(* have the same interval: flush() stops at one that is not ready.         *)
Regular ==
  /\ ~LateCollect
  /\ NoFile \notin SUBSET Lines
  /\ \A g \in Modes : \A i, j \in Intervals[g] : i = j

(* The lines of a file with collector c are of this timestep or earlier    *)
(* ones, with samples up to their time; that of this timestep is written   *)
(* after the samples are taken, and has the data until it is reset.        *)
LinesFit(g, n) ==
  /\ cols[g][n].interval \in Intervals[g]
  /\ cols[g][n].data \subseteq 0 .. now
  /\ \A l \in Output(g, n) : l.t \in 0 .. now /\ l.data \subseteq 0 .. l.t
  /\ phase = "collect" => \A l \in Output(g, n) : l.t # now
  /\ phase = "flush" => \A l \in Output(g, n) :
                          l.t = now => l.data = cols[g][n].data /\ Ready(g, n)

(* Lines share no samples with each other, nor with the data, which is not *)
(* reset before the line with it was written.                              *)
NoneTwice(g, n) ==
  n \in Resetting =>
    /\ \A k, l \in Output(g, n) : k.t # l.t => k.data \cap l.data \subseteq {0}
    /\ \A l \in Output(g, n) : (phase = "flush" /\ l.t = now)
                               \/ l.data \cap cols[g][n].data \subseteq {0}

(* Every sample is in the data or in a line, and between flush() and       *)
(* interval_reset() the line with the data is written if it is due.        *)
NoneLost(g, n) ==
  (g # "truncate" /\ n \notin failed) =>
    /\ \A x \in got[n] : \/ x \in cols[g][n].data
                         \/ \E l \in Output(g, n) : x \in l.data
    /\ (phase = "flush" /\ g \in flushed /\ Ready(g, n))
         => \E l \in Output(g, n) : l.t = now /\ l.data = cols[g][n].data

(* An open stream has a line for every timestep it was flushed in.         *)
NoGaps(n) ==
  LET F == Output("append", n)
      i == cols["append"][n].interval
      Has(t) == t % i = 0 => \E k \in F : k.t = t
  IN /\ \A l \in F : \A t \in 0 .. l.t : Has(t)
     /\ cols["append"][n].open =>
          \A t \in 0 .. now : (t # now \/ "append" \in flushed) => Has(t)

LinesInv ==
  /\ \A g \in Modes : \A n \in Members(g) :
       LinesFit(g, n) /\ NoneTwice(g, n) /\ NoneLost(g, n)
  /\ \A n \in Members("append") : NoGaps(n)

MetricsInv == LoopInv /\ LinesInv

(* The files of a typed state hold lines.                                  *)
LEMMA OutputTyped ==
  ASSUME TypeInv, NEW g \in Modes, NEW n \in Names
  PROVE  Output(g, n) \subseteq Lines
BY DEF TypeInv, TypeOK, Output

(* The members of a group are ready together.                              *)
LEMMA ReadyTogether ==
  ASSUME Regular, MetricsInv, NEW g \in Modes, NEW n \in Members(g), Ready(g, n)
  PROVE  n \in Due(g)
<1>1. ASSUME NEW k \in Members(g)
      PROVE  Ready(g, k)
  <2>1. /\ cols[g][k].interval \in Intervals[g]
        /\ cols[g][n].interval \in Intervals[g]
    BY DEF MetricsInv, LinesInv, LinesFit
  <2>2. cols[g][k].interval = cols[g][n].interval
    BY <2>1 DEF Regular
  <2>3. cols[g][k].t = cols[g][n].t
    BY DEF MetricsInv, LoopInv, Counted
  <2>4. QED
    BY <2>2, <2>3 DEF Ready
<1>2. QED
  BY <1>1 DEF Due, Reached

(* What flush() makes of the file of a collector.                          *)
LEMMA FileAfterIs ==
  ASSUME NoFile \notin SUBSET Lines, TypeInv, NEW g \in Modes, NEW n \in Members(g),
         NEW r \in Outcomes(g, n), disk'[g][n] = FileAfter(g, n, r)
  PROVE  \/ /\ r = "written"
            /\ g = "append" => cols[g][n].open
            /\ Line(cols[g][n]) \in Output(g, n)'
            /\ \A l \in Output(g, n)' : l = Line(cols[g][n]) \/ l \in Output(g, n)
            /\ g # "truncate" => \A l \in Output(g, n) :
                 (l.t = cols[g][n].t /\ g = "create") \/ l \in Output(g, n)'
         \/ r # "written" /\ g # "truncate" /\ Output(g, n)' = Output(g, n)
         \/ r # "written" /\ g = "truncate" /\ Output(g, n)' \subseteq Output(g, n)
<1> DEFINE c == cols[g][n]
           f == disk[g][n]
<1>0. /\ TypeInv /\ n \in Names /\ c \in Collector
      /\ f \in (SUBSET Lines) \cup {NoFile} /\ Line(c) \in Lines
  <2>1. TypeInv /\ n \in Names
    BY DEF Members
  <2>2. c \in Collector
    BY <2>1, TypedCollector
  <2>3. QED
    BY <2>1, <2>2, Fields DEF TypeInv, TypeOK, Line, Lines
<1>1. CASE r = "written"
  <2>1. g = "append" => c.open /\ f \in SUBSET Lines
    <3>1. g = "append" => c.open
      BY <1>1 DEF Outcomes
    <3>2. QED
      BY <1>0, <3>1 DEF TypeInv, OpenHasFile
  <2>2. disk'[g][n] = Written(g, n)
    BY <1>1 DEF FileAfter
  <2>3. CASE g = "append"
    <3>1. disk'[g][n] = f \cup {Line(c)} /\ Output(g, n) = f
      BY <2>1, <2>2, <2>3 DEF Written, Output
    <3>2. disk'[g][n] \in SUBSET Lines
      BY <1>0, <2>1, <2>3, <3>1
    <3>3. Output(g, n)' = f \cup {Line(c)}
      BY <3>1, <3>2 DEF Output
    <3>4. QED
      BY <1>1, <2>1, <3>1, <3>3
  <2>4. CASE g = "truncate"
    <3>1. disk'[g][n] = {Line(c)}
      BY <2>2, <2>4 DEF Written
    <3>2. Output(g, n)' = {Line(c)}
      BY <1>0, <3>1 DEF Output
    <3>3. QED
      BY <1>1, <2>4, <3>2
  <2>5. CASE g = "create"
    <3>1. disk'[g][n] = {k \in Output(g, n) : k.t # Line(c).t} \cup {Line(c)}
      BY <2>2, <2>5 DEF Written, Output
    <3>2. disk'[g][n] \in SUBSET Lines
      BY <1>0, <3>1, OutputTyped
    <3>3. Output(g, n)' = {k \in Output(g, n) : k.t # c.t} \cup {Line(c)}
      BY <3>1, <3>2 DEF Output, Line
    <3>4. QED
      BY <1>1, <2>5, <3>3
  <2>6. QED
    BY <2>3, <2>4, <2>5 DEF Modes
<1>2. CASE r # "written"
  <2>1. CASE r = "lost" /\ g = "truncate"
    <3>1. Output(g, n)' = {}
      BY <1>2, <2>1 DEF FileAfter, Output
    <3>2. QED
      BY <1>2, <2>1, <3>1
  <2>2. CASE ~(r = "lost" /\ g = "truncate")
    <3>1. Output(g, n)' = Output(g, n)
      BY <1>2, <2>2 DEF FileAfter, Output
    <3>2. QED
      BY <1>2, <3>1
  <2>3. QED
    BY <2>1, <2>2
<1>3. QED
  BY <1>1, <1>2

(* What LinesInv says of collector n of group g.                           *)
LinesOf(g, n) ==
  /\ LinesFit(g, n) /\ NoneTwice(g, n) /\ NoneLost(g, n)
  /\ g = "append" => NoGaps(n)

(* Before the loop there are no lines.                                     *)
LEMMA FreshLines ==
  ASSUME NEW g \in Modes, NEW n,
         Output(g, n)' = {}, now' = 0, flushed' = {},
         cols'[g][n].interval \in Intervals[g],
         cols'[g][n].data \subseteq {0}, got'[n] \subseteq cols'[g][n].data
  PROVE  LinesOf(g, n)'
<1>1. 0 .. now' = {0}
  OBVIOUS
<1>2. LinesFit(g, n)' /\ NoneTwice(g, n)' /\ NoneLost(g, n)'
  BY <1>1 DEF LinesFit, NoneTwice, NoneLost
<1>3. g = "append" => NoGaps(n)'
  BY <1>1 DEF NoGaps
<1>4. QED
  BY <1>2, <1>3 DEF LinesOf

(* A step that leaves the lines and the collector alone, in the same phase *)
(* or in flush() of another mode.                                          *)
LEMMA SteadyLines ==
  ASSUME MetricsInv, NEW g \in Modes, NEW n \in Members(g),
         cols'[g][n] = cols[g][n], Output(g, n)' = Output(g, n),
         now' = now, got'[n] = got[n], failed \subseteq failed',
         phase' = phase \/ (phase' = "flush" /\ phase = "collect"),
         (phase' = "flush" /\ g \in flushed' /\ Ready(g, n))
            => (phase = "flush" /\ g \in flushed) \/ g = "truncate",
         g = "append" /\ "append" \in flushed' /\ Ready(g, n) => "append" \in flushed
  PROVE  LinesOf(g, n)'
<1>1. LinesFit(g, n) /\ NoneTwice(g, n) /\ NoneLost(g, n) /\ (g = "append" => NoGaps(n))
  BY DEF MetricsInv, LinesInv
<1>2. Ready(g, n)' <=> Ready(g, n)
  BY DEF Ready
<1>3. LinesFit(g, n)'
  BY <1>1, <1>2 DEF LinesFit
<1>4. NoneTwice(g, n)'
  BY <1>1 DEF NoneTwice, LinesFit
<1>5. NoneLost(g, n)'
  BY <1>1, <1>2 DEF NoneLost
<1>6. ASSUME g = "append" PROVE NoGaps(n)'
  <2>1. cols[g][n].t = now
    BY DEF MetricsInv, LoopInv, Counted
  <2>2. now % cols[g][n].interval = 0 => Ready(g, n)
    BY <2>1 DEF Ready
  <2>3. QED
    BY <1>1, <1>6, <2>2 DEF NoGaps
<1>7. QED
  BY <1>3, <1>4, <1>5, <1>6 DEF LinesOf

LEMMA LinesFlush ==
  ASSUME Regular, MetricsInv, NEW md \in Modes \cup {"stream"}, Flush(md),
         NEW g \in Modes, NEW n \in Members(g)'
  PROVE  LinesOf(g, n)'
<1>0. /\ TypeInv /\ n \in Members(g) /\ now' = now /\ got' = got /\ phase' = "flush"
      /\ flushed' = flushed \cup {md} /\ failed \subseteq failed'
      /\ phase \in {"collect", "flush"}
      /\ phase = "collect" => flushed = {}
  <2>1. TypeInv
    BY DEF MetricsInv, LoopInv
  <2>2. n \in Members(g)
    BY <2>1, AfterFlush
  <2>3. phase = "collect" => flushed = {}
    BY DEF MetricsInv, LoopInv, Phased
  <2>4. QED
    BY <2>1, <2>2, <2>3 DEF Flush, In
<1>1. ASSUME g # GroupOf(md) \/ n \notin Due(g),
             cols'[g][n] = cols[g][n], disk'[g][n] = disk[g][n]
      PROVE  LinesOf(g, n)'
  <2>1. Output(g, n)' = Output(g, n)
    BY <1>1 DEF Output
  <2>2. ~(g = md /\ Ready(g, n))
    <3>1. g = md => g = GroupOf(md)
      BY DEF GroupOf, Modes
    <3>2. QED
      BY <1>0, <1>1, <3>1, ReadyTogether
  <2>3. g \in flushed' /\ Ready(g, n) => g \in flushed /\ phase = "flush"
    BY <1>0, <2>2
  <2>4. QED
    BY <1>0, <1>1, <2>1, <2>3, SteadyLines
<1>2. ASSUME NEW r \in Outcomes(g, n),
             g = GroupOf(md), n \in Due(g),
             disk'[g][n] = FileAfter(g, n, r),
             IF r = "thrown" THEN cols'[g][n] = cols[g][n]
             ELSE Becomes(g, n, cols[g][n].data, cols[g][n].t,
                          g # "create" /\ r = "written"),
             r # "written" => n \in failed'
      PROVE  LinesOf(g, n)'
  <2> DEFINE c == cols[g][n]
             F == Output(g, n)
             G == Output(g, n)'
             l0 == Line(c)
  <2>1. LinesFit(g, n) /\ NoneTwice(g, n) /\ NoneLost(g, n) /\ (g = "append" => NoGaps(n))
    BY <1>0 DEF MetricsInv, LinesInv
  <2>2. /\ c.t = now /\ now \in Nat /\ l0.t = now /\ l0.data = c.data
        /\ Ready(g, n)
    <3>1. c.t = now
      BY <1>0 DEF MetricsInv, LoopInv, Counted
    <3>2. now \in Nat
      BY <1>0, MetricsAssumption DEF TypeInv, TypeOK, Times
    <3>3. QED
      BY <1>2, <3>1, <3>2 DEF Line, Due
  <2>3. /\ cols'[g][n].interval = c.interval /\ cols'[g][n].data = c.data
        /\ cols'[g][n].t = c.t
    BY <1>2 DEF Becomes
  <2>4. Ready(g, n)'
    BY <2>2, <2>3 DEF Ready
  <2>5. \/ /\ r = "written"
           /\ g = "append" => c.open
           /\ l0 \in G /\ \A l \in G : l = l0 \/ l \in F
           /\ g # "truncate" => \A l \in F : (l.t = now /\ g = "create") \/ l \in G
        \/ r # "written" /\ g # "truncate" /\ G = F
        \/ r # "written" /\ g = "truncate" /\ G \subseteq F
    BY <1>0, <1>2, <2>2, FileAfterIs DEF Regular
  <2>6. \A l \in G : l = l0 \/ l \in F
    BY <2>5
  <2> DEFINE i == c.interval
             HasF(t) == t % i = 0 => \E k \in F : k.t = t
             HasG(t) == t % i = 0 => \E k \in G : k.t = t
  <2>7. /\ i \in Intervals[g] /\ c.data \subseteq 0 .. now
        /\ \A l \in F : l.t \in 0 .. now
        /\ \A l \in F : l.data \subseteq 0 .. l.t
        /\ \A l \in F : l.t = now => l.data = c.data
    <3>1. \A l \in F : l.t \in 0 .. now /\ l.data \subseteq 0 .. l.t
      BY <2>1 DEF LinesFit
    <3>2. \A l \in F : l.t = now => l.data = c.data
      BY <1>0, <2>1 DEF LinesFit
    <3>3. QED
      BY <2>1, <3>1, <3>2 DEF LinesFit
  <2>8. n \in Resetting =>
          /\ \A k, l \in F : k.t # l.t => k.data \cap l.data \subseteq {0}
          /\ \A l \in F : l.t = now \/ l.data \cap c.data \subseteq {0}
    BY <2>1 DEF NoneTwice
  <2>9. g # "truncate" /\ n \notin failed =>
          \A x \in got[n] : x \in c.data \/ \E l \in F : x \in l.data
    BY <2>1 DEF NoneLost
  <2>10. g = "append" =>
           /\ \A l \in F : \A t \in 0 .. l.t : HasF(t)
           /\ c.open => \A t \in 0 .. now : t # now => HasF(t)
    BY <2>1 DEF NoGaps
  <2> HIDE DEF c, F, G, l0, i
  <2>11. LinesFit(g, n)'
    <3>1. \A l \in G : l.t \in 0 .. now
      BY <2>2, <2>6, <2>7
    <3>2. \A l \in G : l.data \subseteq 0 .. l.t
      BY <2>2, <2>6, <2>7
    <3>3. \A l \in G : l.t = now => l.data = c.data
      BY <2>2, <2>6, <2>7
    <3>4. cols'[g][n].interval \in Intervals[g] /\ cols'[g][n].data \subseteq 0 .. now'
      BY <1>0, <2>3, <2>7 DEF i
    <3>5. \A l \in Output(g, n)' : l.t \in 0 .. now' /\ l.data \subseteq 0 .. l.t
      BY <1>0, <3>1, <3>2 DEF G
    <3>6. \A l \in Output(g, n)' : l.t = now' => l.data = cols'[g][n].data /\ Ready(g, n)'
      BY <1>0, <2>3, <2>4, <3>3 DEF G
    <3>7. phase' = "flush"
      BY <1>0
    <3>8. QED
      BY <3>4, <3>5, <3>6, <3>7 DEF LinesFit
  <2>12. NoneTwice(g, n)'
    <3>1. n \in Resetting =>
            /\ \A k, l \in G : k.t # l.t => k.data \cap l.data \subseteq {0}
            /\ \A l \in G : l.t = now \/ l.data \cap c.data \subseteq {0}
      BY <2>2, <2>6, <2>8
    <3>2. QED
      BY <1>0, <2>3, <3>1 DEF NoneTwice, G
  <2>13. NoneLost(g, n)'
    <3>1. ASSUME g # "truncate", n \notin failed'
          PROVE  /\ \A x \in got[n] : x \in c.data \/ \E l \in G : x \in l.data
                 /\ \E l \in G : l.t = now /\ l.data = c.data
      <4>1. l0 \in G /\ \A l \in F : l.t = now \/ l \in G
        BY <1>2, <2>5, <3>1
      <4>2. \A x \in got[n] : x \in c.data \/ \E l \in F : x \in l.data
        BY <1>0, <2>9, <3>1
      <4>3. \A x \in got[n] : x \in c.data \/ \E l \in G : x \in l.data
        BY <2>7, <4>1, <4>2
      <4>4. QED
        BY <2>2, <4>1, <4>3
    <3>2. QED
      BY <1>0, <2>3, <3>1 DEF NoneLost, G
  <2>14. ASSUME g = "append" PROVE NoGaps(n)'
    <3>1. /\ \A l \in G : \A t \in 0 .. l.t : HasG(t)
          /\ cols'[g][n].open => \A t \in 0 .. now : HasG(t)
      <4>1. CASE r = "written"
        <5>1. c.open /\ l0 \in G /\ \A l \in F : l \in G
          BY <2>5, <2>14, <4>1
        <5>2. \A t \in 0 .. now : HasG(t)
          BY <2>2, <2>10, <2>14, <5>1
        <5>3. \A l \in G : l.t \in 0 .. now
          BY <2>2, <2>6, <2>7
        <5>4. QED
          BY <2>2, <5>2, <5>3
      <4>2. CASE r # "written"
        <5>1. G = F
          BY <2>5, <2>14, <4>2
        <5>2. r # "thrown"
          BY <1>2, <2>14 DEF Outcomes
        <5>3. cols'[g][n].open = FALSE
          BY <1>2, <4>2, <5>2 DEF Becomes
        <5>4. QED
          BY <2>10, <2>14, <5>1, <5>3
      <4>3. QED
        BY <4>1, <4>2
    <3>2. QED
      BY <1>0, <2>3, <2>14, <3>1 DEF NoGaps, G, i
  <2>15. QED
    BY <2>11, <2>12, <2>13, <2>14 DEF LinesOf
<1>3. QED
  BY <1>0, <1>1, <1>2, AfterFlush

LEMMA LinesStep ==
  ASSUME Regular, MetricsInv, [Next]_vars
  PROVE  LinesInv'
<1> SUFFICES ASSUME NEW g \in Modes, NEW n \in Members(g)' PROVE LinesOf(g, n)'
  BY DEF LinesInv, LinesOf, Modes
<1>0. /\ TypeInv /\ ~LateCollect /\ n \in Names /\ now \in Nat
      /\ got \in [Names -> SUBSET Times]
  BY MetricsAssumption
     DEF MetricsInv, LoopInv, Regular, Members, TypeInv, TypeOK, Times
<1>a. ASSUME n \in Members(g)
      PROVE  /\ LinesFit(g, n) /\ NoneTwice(g, n) /\ NoneLost(g, n)
             /\ g = "append" => NoGaps(n)
             /\ mapped[n] = g /\ cols[g][n].t = now
  BY <1>a DEF MetricsInv, LinesInv, LoopInv, Phased, Counted
<1>b. ASSUME phase = "setup"
      PROVE  now = 0 /\ flushed = {} /\ Output(g, n) = {} /\ got[n] = {}
  BY <1>0, <1>b DEF MetricsInv, LoopInv, Phased
<1>c. disk' = disk => Output(g, n)' = Output(g, n)
  BY DEF Output
<1>d. ASSUME n \in Members(g), phase = "setup"
      PROVE  cols[g][n].interval \in Intervals[g] /\ cols[g][n].data \subseteq {0}
  <2>1. 0 .. now = {0}
    BY <1>b, <1>d
  <2>2. QED
    BY <1>a, <1>d, <2>1 DEF LinesFit
<1>1. ASSUME NEW m \in Names, NEW h \in Modes, NEW i \in Intervals[h],
             Register(m, h, i)
      PROVE  LinesOf(g, n)'
  <2>1. phase = "setup" /\ UNCHANGED <<disk, flushed, now, got>>
    BY <1>0, <1>1 DEF Register, MayRegister, In
  <2>2. Output(g, n)' = {} /\ now' = 0 /\ flushed' = {} /\ got'[n] = {}
    BY <1>b, <1>c, <2>1
  <2>3. CASE n \in Members(g) /\ cols'[g][n] = cols[g][n]
    BY <1>d, <2>1, <2>2, <2>3, FreshLines
  <2>4. CASE g = h /\ cols'[g][n].interval = i /\ cols'[g][n].data = {}
    BY <2>2, <2>4, FreshLines
  <2>5. \/ n \in Members(g) /\ cols'[g][n] = cols[g][n]
        \/ g = h /\ cols'[g][n].interval = i /\ cols'[g][n].data = {}
    <3>1. TypeInv /\ Register(m, h, i)
      BY <1>0, <1>1
    <3>2. \/ n \in Members(g) /\ cols'[g][n] = cols[g][n]
          \/ /\ g = h /\ n = m /\ mapped'[n] = g
             /\ cols'[g][n].interval = i /\ cols'[g][n].t = 0
             /\ cols'[g][n].data = {} /\ cols'[g][n].open = FALSE
      BY <3>1, AfterRegister, Zenon
    <3>3. QED
      BY <3>2, Zenon
  <2>6. QED
    BY <2>3, <2>4, <2>5
<1>2. ASSUME NEW m \in Names, Unregister(m)
      PROVE  LinesOf(g, n)'
  <2>1. /\ phase = "setup" /\ UNCHANGED <<disk, flushed, now>>
        /\ got' = [got EXCEPT ![m] = {}]
    BY <1>0, <1>2 DEF Unregister, In
  <2>2. Output(g, n)' = {} /\ now' = 0 /\ flushed' = {} /\ got'[n] = {}
    BY <1>0, <1>b, <1>c, <2>1
  <2>3. n \in Members(g) /\ cols'[g][n] = cols[g][n]
    BY <1>0, <1>2, AfterUnregister
  <2>4. QED
    BY <1>d, <2>1, <2>2, <2>3, FreshLines
<1>3. ASSUME NEW m \in Names, Collect(m)
      PROVE  LinesOf(g, n)'
  <2>1. /\ phase = "collect" /\ phase' = "collect" /\ flushed' = flushed /\ now' = now
        /\ failed' = failed /\ disk' = disk /\ got' = [got EXCEPT ![m] = got[m] \cup {now}]
    BY <1>3 DEF Collect, In
  <2>2. Output(g, n)' = Output(g, n)
    BY <1>c, <2>1
  <2>3. CASE ~(n = m /\ g = mapped[m])
    <3>1. n \in Members(g) /\ cols'[g][n] = cols[g][n]
      <4>1. TypeInv /\ Collect(m)
        BY <1>0, <1>3
      <4>2. QED
        BY <2>3, <4>1, AfterCollect, ZenonT(40)
    <3>2. n # m
      BY <1>a, <2>3, <3>1
    <3>3. got'[n] = got[n]
      BY <1>0, <2>1, <3>2
    <3>4. QED
      BY <2>1, <2>2, <3>1, <3>3, SteadyLines
  <2>4. CASE n = m /\ g = mapped[m]
    <3>1. Becomes(g, n, cols[g][n].data \cup {now}, cols[g][n].t, cols[g][n].open)
      BY <1>0, <1>3, <2>4, AfterCollect
    <3> DEFINE F == Output(g, n)
               c == cols[g][n]
               i == c.interval
    <3>2. /\ cols'[g][n].interval = i /\ cols'[g][n].data = c.data \cup {now}
          /\ cols'[g][n].t = c.t /\ cols'[g][n].open = c.open /\ n \in Members(g)
          /\ got'[n] = got[n] \cup {now}
      BY <1>0, <2>1, <2>4, <3>1 DEF Becomes
    <3>3. /\ i \in Intervals[g] /\ c.data \subseteq 0 .. now
          /\ \A l \in F : l.t \in 0 .. now /\ l.data \subseteq 0 .. l.t
          /\ \A l \in F : l.t # now
      BY <1>a, <2>1, <3>2 DEF LinesFit
    <3>4. n \in Resetting => /\ \A k, l \in F : k.t # l.t => k.data \cap l.data \subseteq {0}
                             /\ \A l \in F : l.data \cap c.data \subseteq {0}
      BY <1>a, <2>1, <3>2 DEF NoneTwice
    <3>5. g # "truncate" /\ n \notin failed =>
            \A x \in got[n] : x \in c.data \/ \E l \in F : x \in l.data
      BY <1>a, <3>2 DEF NoneLost
    <3>6. \A l \in F : now \notin l.data
      BY <1>0, <3>3
    <3>7. LinesFit(g, n)'
      <4>1. cols'[g][n].data \subseteq 0 .. now
        BY <1>0, <3>2, <3>3
      <4>2. QED
        BY <2>1, <2>2, <3>2, <3>3, <4>1 DEF LinesFit
    <3>8. NoneTwice(g, n)'
      BY <2>1, <2>2, <3>2, <3>4, <3>6 DEF NoneTwice
    <3>9. NoneLost(g, n)'
      BY <2>1, <2>2, <3>2, <3>5 DEF NoneLost
    <3>10. g = "append" => NoGaps(n)'
      BY <1>a, <2>1, <2>2, <3>2 DEF NoGaps
    <3>11. QED
      BY <3>7, <3>8, <3>9, <3>10 DEF LinesOf
  <2>5. QED
    BY <2>3, <2>4
<1>4. ASSUME NEW bad \in SUBSET Opening, Initialize(bad)
      PROVE  LinesOf(g, n)'
  <2>1. phase = "setup" /\ UNCHANGED <<flushed, now>>
    BY <1>0, <1>4 DEF Initialize, In
  <2>2. now' = 0 /\ flushed' = {} /\ n \in Members(g)
    BY <1>0, <1>4, <1>b, <2>1, AfterInitialize
  <2>3. /\ cols'[g][n].interval = cols[g][n].interval
        /\ cols'[g][n].data \subseteq cols[g][n].data
        /\ got'[n] = {}
    <3>1. CASE UNCHANGED <<cols, disk, got>>
      BY <1>b, <2>1, <3>1
    <3>2. CASE /\ Becomes(g, n, IF n \in Resetting THEN {} ELSE cols[g][n].data,
                          cols[g][n].t, <<g, n>> \in Opening \ bad)
               /\ got'[n] = IF n \in Resetting THEN {} ELSE got[n]
      BY <1>b, <2>1, <3>2 DEF Becomes
    <3>3. QED
      BY <1>0, <1>4, <3>1, <3>2, AfterInitialize
  <2>4. Output(g, n)' = {}
    <3>1. disk'[g][n] = disk[g][n] \/ disk'[g][n] = {}
      BY <1>0, <1>4, AfterInitialize
    <3>2. QED
      BY <1>b, <2>1, <3>1 DEF Output
  <2>5. QED
    BY <1>d, <2>1, <2>2, <2>3, <2>4, FreshLines
<1>5. ASSUME NEW md \in Modes \cup {"stream"}, Flush(md)
      PROVE  LinesOf(g, n)'
  BY <1>5, LinesFlush
<1>6. CASE IntervalReset
  <2>1. /\ phase = "flush" /\ phase' = "inc" /\ Modes \subseteq flushed
        /\ UNCHANGED <<disk, flushed, now, got, failed>>
    BY <1>6 DEF IntervalReset, In
  <2>2. Output(g, n)' = Output(g, n)
    BY <1>c, <2>1
  <2> DEFINE F == Output(g, n)
             c == cols[g][n]
             i == c.interval
             resets == c.t > 0 /\ Ready(g, n) /\ n \in Resetting
  <2>3. /\ n \in Members(g) /\ cols'[g][n].interval = i
        /\ cols'[g][n].data = IF resets THEN {} ELSE c.data
        /\ cols'[g][n].t = c.t /\ cols'[g][n].open = c.open
    BY <1>0, <1>6, AfterIntervalReset DEF Becomes
  <2>4. /\ i \in Intervals[g] /\ c.data \subseteq 0 .. now /\ c.t = now
        /\ \A l \in F : l.t \in 0 .. now /\ l.data \subseteq 0 .. l.t
        /\ \A l \in F : l.t = now => Ready(g, n)
    BY <1>a, <2>1, <2>3 DEF LinesFit
  <2>5. cols'[g][n].data \subseteq c.data
    BY <2>3
  <2>6. LinesFit(g, n)'
    BY <2>1, <2>2, <2>3, <2>4, <2>5 DEF LinesFit
  <2>7. NoneTwice(g, n)'
    <3>1. n \in Resetting => /\ \A k, l \in F : k.t # l.t => k.data \cap l.data \subseteq {0}
                             /\ \A l \in F : l.t = now \/ l.data \cap c.data \subseteq {0}
      BY <1>a, <2>3 DEF NoneTwice
    <3>2. ASSUME n \in Resetting, NEW l \in F
          PROVE  l.data \cap cols'[g][n].data \subseteq {0}
      <4>1. CASE l.t # now
        BY <2>5, <3>1, <3>2, <4>1
      <4>2. CASE l.t = now /\ now > 0
        BY <2>3, <2>4, <3>2, <4>2
      <4>3. CASE l.t = now /\ ~(now > 0)
        <5>1. 0 .. now = {0}
          BY <1>0, <4>3
        <5>2. QED
          BY <2>4, <2>5, <5>1
      <4>4. QED
        BY <4>1, <4>2, <4>3
    <3>3. QED
      BY <2>1, <2>2, <3>1, <3>2 DEF NoneTwice
  <2>8. NoneLost(g, n)'
    <3>1. ASSUME g # "truncate", n \notin failed
          PROVE  \A x \in got[n] : x \in cols'[g][n].data \/ \E l \in F : x \in l.data
      <4>1. /\ \A x \in got[n] : x \in c.data \/ \E l \in F : x \in l.data
            /\ Ready(g, n) => \E l \in F : l.data = c.data
        BY <1>a, <2>1, <2>3, <3>1 DEF NoneLost
      <4>2. QED
        BY <2>3, <4>1
    <3>2. QED
      BY <2>1, <2>2, <3>1 DEF NoneLost
  <2>9. g = "append" => NoGaps(n)'
    BY <1>a, <2>1, <2>2, <2>3 DEF NoGaps
  <2>10. QED
    BY <2>6, <2>7, <2>8, <2>9 DEF LinesOf
<1>7. CASE TimestepInc
  <2>1. /\ phase = "inc" /\ phase' = "collect" /\ flushed' = {} /\ now' = now + 1
        /\ UNCHANGED <<disk, got, failed>>
    BY <1>7 DEF TimestepInc, In
  <2>2. Output(g, n)' = Output(g, n) /\ "append" \in flushed
    BY <1>c, <2>1 DEF MetricsInv, LoopInv, Phased, Modes
  <2> DEFINE F == Output(g, n)
             c == cols[g][n]
             i == c.interval
  <2>3. /\ n \in Members(g) /\ cols'[g][n].interval = i
        /\ cols'[g][n].data = c.data /\ cols'[g][n].open = c.open
    BY <1>0, <1>7, AfterTimestepInc DEF Becomes
  <2>4. /\ i \in Intervals[g] /\ c.data \subseteq 0 .. now
        /\ \A l \in F : l.t \in 0 .. now /\ l.data \subseteq 0 .. l.t
    BY <1>a, <2>3 DEF LinesFit
  <2>5. LinesFit(g, n)'
    <3>1. 0 .. now \subseteq 0 .. now + 1 /\ \A t \in 0 .. now : t # now + 1
      BY <1>0
    <3>2. QED
      BY <2>1, <2>2, <2>3, <2>4, <3>1 DEF LinesFit
  <2>6. NoneTwice(g, n)'
    BY <1>a, <2>1, <2>2, <2>3 DEF NoneTwice
  <2>7. NoneLost(g, n)'
    BY <1>a, <2>1, <2>2, <2>3 DEF NoneLost
  <2>8. g = "append" => NoGaps(n)'
    <3>1. \A t \in 0 .. now + 1 : t # now + 1 => t \in 0 .. now
      BY <1>0
    <3>2. QED
      BY <1>a, <2>1, <2>2, <2>3, <3>1 DEF NoGaps
  <2>9. QED
    BY <2>5, <2>6, <2>7, <2>8 DEF LinesOf
<1>8. CASE Finalize
  <2>1. /\ phase = "inc" /\ phase' = "done"
        /\ UNCHANGED <<disk, flushed, now, got, failed>>
    BY <1>8 DEF Finalize, In
  <2>2. Output(g, n)' = Output(g, n)
    BY <1>c, <2>1
  <2>3. /\ n \in Members(g) /\ cols'[g][n].interval = cols[g][n].interval
        /\ cols'[g][n].data = cols[g][n].data /\ cols'[g][n].open = FALSE
    BY <1>0, <1>8, AfterFinalize DEF Becomes
  <2>4. LinesFit(g, n)' /\ NoneTwice(g, n)'
    BY <1>a, <2>1, <2>2, <2>3 DEF LinesFit, NoneTwice
  <2>5. NoneLost(g, n)'
    BY <1>a, <2>1, <2>2, <2>3 DEF NoneLost
  <2>6. g = "append" => NoGaps(n)'
    BY <1>a, <2>1, <2>2, <2>3 DEF NoGaps
  <2>7. QED
    BY <2>4, <2>5, <2>6 DEF LinesOf
<1>9. CASE UNCHANGED vars
  <2>1. n \in Members(g)
    BY <1>9 DEF vars, Members
  <2>2. QED
    BY <1>9, <1>c, <2>1, SteadyLines DEF vars
<1>10. ASSUME NEW m \in Names, UseNoGroup(m)
      PROVE  LinesOf(g, n)'
  <2>1. n \in Members(g)
    BY <1>10 DEF UseNoGroup, Members
  <2>2. UNCHANGED <<cols, disk, phase, flushed, now, got, failed>>
    BY <1>10 DEF UseNoGroup
  <2>3. QED
    BY <1>c, <2>1, <2>2, SteadyLines
<1>11. QED
  BY <1>1, <1>2, <1>3, <1>4, <1>5, <1>6, <1>7, <1>8, <1>9, <1>10 DEF Next

LEMMA MetricsInvariant ==
  ASSUME Regular
  PROVE  Spec => []MetricsInv
<1>1. Init => LinesInv
  BY DEF Init, LinesInv, Members, Modes
<1>2. MetricsInv /\ [Next]_vars => LinesInv'
  BY LinesStep
<1>3. [](LoopInv /\ LinesInv) => []MetricsInv
  BY PTL DEF MetricsInv
<1>4. Spec => []LoopInv
  BY LoopInvariant DEF Regular
<1>5. LoopInv /\ LinesInv /\ [Next]_vars => LinesInv'
  BY <1>2 DEF MetricsInv
<1>6. QED
  BY <1>1, <1>3, <1>4, <1>5, PTL DEF Spec

(* Between collect(), flush() and interval_reset() no sample is lost but   *)
(* to a failed file, for any number of collectors, if the collectors of a  *)
(* group have one interval and all are registered before the loop.         *)
THEOREM SamplesAreKept ==
  ASSUME Regular
  PROVE  Spec => []NoSampleLost
<1>1. MetricsInv => NoSampleLost
  BY DEF MetricsInv, LinesInv, NoneLost, NoSampleLost
<1>2. QED
  BY <1>1, MetricsInvariant, PTL

(* Under the same assumptions no sample is in the lines of two intervals.  *)
THEOREM SamplesCountOnce ==
  ASSUME Regular
  PROVE  Spec => []CountedOnce
<1>1. MetricsInv => CountedOnce
  BY DEF MetricsInv, LinesInv, NoneTwice, CountedOnce
<1>2. QED
  BY <1>1, MetricsInvariant, PTL

(* Under the same assumptions a file that is appended to has no gaps, also *)
(* when writing it failed at some point.                                   *)
THEOREM AppendedWithoutGaps ==
  ASSUME Regular
  PROVE  Spec => []AppendHasNoGaps
<1>1. MetricsInv => AppendHasNoGaps
  BY DEF MetricsInv, LinesInv, NoGaps, AppendHasNoGaps
<1>2. QED
  BY <1>1, MetricsInvariant, PTL

----------------------------------------------------------------------------
(* What a collector that resets has and wrote, as samples of its history.  *)
(* Kept(S, i, b): those of S that no reset due up to b was to clear.       *)
Kept(S, i, b) == {s \in S : \A t \in s .. b : t = 0 \/ t % i # 0}

(* The last timestep whose interval_reset() is over. *)
Reset == IF phase \in {"inc", "done"} THEN now ELSE now - 1

HeldBy(g, n) ==
  /\ got[n] \subseteq 0 .. now
  /\ \A l \in Output(g, n) : l.t \in 0 .. now
  /\ phase = "collect" => \A l \in Output(g, n) : l.t # now
  /\ n \in Resetting =>
       /\ cols[g][n].data = Kept(got[n], cols[g][n].interval, Reset)
       /\ \A l \in Output(g, n) :
            l.data = {s \in Kept(got[n], cols[g][n].interval, l.t - 1) : s <= l.t}

HeldInv == \A g \in Modes : \A n \in Members(g) : HeldBy(g, n)

(* A step that leaves the samples and lines of a collector alone. *)
LEMMA SteadyHeld ==
  ASSUME NEW g \in Modes, NEW n \in Members(g), HeldBy(g, n),
         cols'[g][n].data = cols[g][n].data,
         cols'[g][n].interval = cols[g][n].interval,
         Output(g, n)' = Output(g, n), got'[n] = got[n],
         now' = now, Reset' = Reset, phase' = "collect" => phase = "collect"
  PROVE  HeldBy(g, n)'
BY DEF HeldBy

(* Before the loop there are no samples and no lines. *)
LEMMA FreshHeld ==
  ASSUME NEW g \in Modes, NEW n, Output(g, n)' = {}, got'[n] = {},
         n \in Resetting => cols'[g][n].data = {}
  PROVE  HeldBy(g, n)'
BY DEF HeldBy, Kept

LEMMA HeldStep ==
  ASSUME ~LateCollect, NoFile \notin SUBSET Lines, LoopInv, HeldInv, [Next]_vars
  PROVE  HeldInv'
<1> SUFFICES ASSUME NEW g \in Modes, NEW n \in Members(g)' PROVE HeldBy(g, n)'
  BY DEF HeldInv
<1>0. /\ TypeInv /\ n \in Names /\ now \in Nat
      /\ got \in [Names -> SUBSET Times]
  BY MetricsAssumption DEF LoopInv, Members, TypeInv, TypeOK, Times
<1>a. ASSUME n \in Members(g)
      PROVE  HeldBy(g, n) /\ mapped[n] = g /\ cols[g][n].t = now
  BY <1>a DEF HeldInv, LoopInv, Phased, Counted
<1>b. ASSUME phase = "setup"
      PROVE  Output(g, n) = {} /\ got[n] = {}
  BY <1>0, <1>b DEF LoopInv, Phased
<1>c. disk' = disk => Output(g, n)' = Output(g, n)
  BY DEF Output
<1>d. ASSUME n \in Members(g), phase = "setup"
      PROVE  n \in Resetting => cols[g][n].data = {}
  BY <1>a, <1>b, <1>d DEF HeldBy, Kept
<1>1. ASSUME NEW m \in Names, NEW h \in Modes, NEW i \in Intervals[h],
             Register(m, h, i)
      PROVE  HeldBy(g, n)'
  <2>1. phase = "setup" /\ UNCHANGED <<disk, got>>
    BY <1>1 DEF Register, MayRegister, In
  <2>2. \/ n \in Members(g) /\ cols'[g][n] = cols[g][n]
        \/ cols'[g][n].data = {}
    <3>1. TypeInv /\ Register(m, h, i)
      BY <1>0, <1>1
    <3>2. QED
      BY <3>1, AfterRegister, ZenonT(40)
  <2>3. QED
    BY <1>b, <1>c, <1>d, <2>1, <2>2, FreshHeld
<1>2. ASSUME NEW m \in Names, Unregister(m)
      PROVE  HeldBy(g, n)'
  <2>1. phase = "setup" /\ disk' = disk /\ got' = [got EXCEPT ![m] = {}]
    BY <1>2 DEF Unregister, In
  <2>2. n \in Members(g) /\ cols'[g][n] = cols[g][n]
    BY <1>0, <1>2, AfterUnregister
  <2>3. got'[n] = {}
    BY <1>0, <1>b, <2>1
  <2>4. QED
    BY <1>b, <1>c, <1>d, <2>1, <2>2, <2>3, FreshHeld
<1>3. ASSUME NEW m \in Names, Collect(m)
      PROVE  HeldBy(g, n)'
  <2>1. /\ phase = "collect" /\ phase' = phase /\ now' = now /\ disk' = disk
        /\ got' = [got EXCEPT ![m] = got[m] \cup {now}]
    BY <1>3 DEF Collect, In
  <2>2. Output(g, n)' = Output(g, n) /\ Reset' = now - 1 /\ Reset = now - 1
    BY <1>c, <2>1 DEF Reset
  <2>3. CASE ~(n = m /\ g = mapped[m])
    <3>1. n \in Members(g) /\ cols'[g][n] = cols[g][n]
      <4>1. TypeInv /\ Collect(m)
        BY <1>0, <1>3
      <4>2. QED
        BY <2>3, <4>1, AfterCollect, ZenonT(40)
    <3>2. got'[n] = got[n]
      BY <1>0, <1>a, <2>1, <2>3, <3>1
    <3>3. QED
      BY <1>a, <2>1, <2>2, <3>1, <3>2, SteadyHeld
  <2>4. CASE n = m /\ g = mapped[m]
    <3> DEFINE c == cols[g][n]
               i == c.interval
               F == Output(g, n)
               S == got[n]
    <3>1. /\ n \in Members(g) /\ cols'[g][n].interval = i
          /\ cols'[g][n].data = c.data \cup {now} /\ got'[n] = S \cup {now}
      BY <1>0, <1>3, <2>1, <2>4, AfterCollect DEF Becomes
    <3>2. /\ S \subseteq 0 .. now /\ \A l \in F : l.t \in 0 .. now /\ l.t # now
          /\ n \in Resetting =>
               /\ c.data = Kept(S, i, now - 1)
               /\ \A l \in F : l.data = {s \in Kept(S, i, l.t - 1) : s <= l.t}
      BY <1>a, <2>1, <2>2, <3>1 DEF HeldBy
    <3> HIDE DEF c, i, F, S
    <3>3. S \cup {now} \subseteq 0 .. now
      BY <1>0, <3>2
    <3>4. Kept(S \cup {now}, i, now - 1) = Kept(S, i, now - 1) \cup {now}
      <4>1. now .. now - 1 = {}
        BY <1>0
      <4>2. QED
        BY <4>1 DEF Kept
    <3>5. ASSUME NEW l \in F
          PROVE  {s \in Kept(S \cup {now}, i, l.t - 1) : s <= l.t}
                   = {s \in Kept(S, i, l.t - 1) : s <= l.t}
      <4>1. ~(now <= l.t)
        BY <1>0, <3>2
      <4>2. QED
        BY <4>1 DEF Kept
    <3>6. /\ got'[n] \subseteq 0 .. now'
          /\ \A l \in Output(g, n)' : l.t \in 0 .. now' /\ (phase' = "collect" => l.t # now')
      BY <2>1, <2>2, <3>1, <3>2, <3>3 DEF F
    <3>7. ASSUME n \in Resetting
          PROVE  /\ cols'[g][n].data = Kept(got'[n], i, now - 1)
                 /\ \A l \in F : l.data = {s \in Kept(got'[n], i, l.t - 1) : s <= l.t}
      BY <3>1, <3>2, <3>4, <3>5, <3>7
    <3>8. QED
      BY <2>2, <3>1, <3>6, <3>7 DEF HeldBy, F, i
  <2>5. QED
    BY <2>3, <2>4
<1>4. ASSUME NEW bad \in SUBSET Opening, Initialize(bad)
      PROVE  HeldBy(g, n)'
  <2>1. phase = "setup"
    BY <1>4 DEF Initialize, In
  <2>2. n \in Members(g)
    BY <1>0, <1>4, AfterInitialize
  <2>3. CASE UNCHANGED <<cols, disk, got>>
    BY <1>b, <1>c, <1>d, <2>1, <2>2, <2>3, FreshHeld
  <2>4. CASE /\ Becomes(g, n, IF n \in Resetting THEN {} ELSE cols[g][n].data,
                        cols[g][n].t, <<g, n>> \in Opening \ bad)
             /\ disk'[g][n] = IF <<g, n>> \in Opening \ bad THEN {} ELSE disk[g][n]
             /\ got'[n] = IF n \in Resetting THEN {} ELSE got[n]
    <3>1. Output(g, n)' = {}
      BY <1>b, <2>1, <2>4 DEF Output
    <3>2. got'[n] = {} /\ (n \in Resetting => cols'[g][n].data = {})
      BY <1>b, <2>1, <2>4 DEF Becomes
    <3>3. QED
      BY <3>1, <3>2, FreshHeld
  <2>5. QED
    BY <1>0, <1>4, <2>3, <2>4, AfterInitialize
<1>5. ASSUME NEW md \in Modes \cup {"stream"}, Flush(md)
      PROVE  HeldBy(g, n)'
  <2>1. /\ phase \in {"collect", "flush"} /\ phase' = "flush" /\ now' = now
        /\ got' = got
    BY <1>5 DEF Flush, In
  <2>2. Reset' = now - 1 /\ Reset = now - 1
    BY <2>1 DEF Reset
  <2>3. CASE cols'[g][n] = cols[g][n] /\ disk'[g][n] = disk[g][n] /\ n \in Members(g)
    <3>1. Output(g, n)' = Output(g, n)
      BY <2>3 DEF Output
    <3>2. QED
      BY <1>a, <2>1, <2>2, <2>3, <3>1, SteadyHeld
  <2>4. ASSUME NEW r \in Outcomes(g, n), n \in Members(g),
               disk'[g][n] = FileAfter(g, n, r),
               IF r = "thrown" THEN cols'[g][n] = cols[g][n]
               ELSE Becomes(g, n, cols[g][n].data, cols[g][n].t,
                            g # "create" /\ r = "written")
        PROVE  HeldBy(g, n)'
    <3> DEFINE c == cols[g][n]
               i == c.interval
               F == Output(g, n)
               G == Output(g, n)'
               S == got[n]
               l0 == Line(c)
    <3>1. cols'[g][n].interval = i /\ cols'[g][n].data = c.data
      BY <2>4 DEF Becomes
    <3>2. \A l \in G : l = l0 \/ l \in F
      BY <1>0, <2>4, FileAfterIs
    <3>3. l0.t = now /\ l0.data = c.data
      BY <1>a, <2>4 DEF Line
    <3>4. /\ S \subseteq 0 .. now /\ \A l \in F : l.t \in 0 .. now
          /\ n \in Resetting =>
               /\ c.data = Kept(S, i, now - 1)
               /\ \A l \in F : l.data = {s \in Kept(S, i, l.t - 1) : s <= l.t}
      BY <1>a, <2>2, <2>4 DEF HeldBy
    <3> HIDE DEF c, i, F, G, S, l0
    <3>5. Kept(S, i, now - 1) = {s \in Kept(S, i, now - 1) : s <= now}
      <4>1. \A s \in S : s <= now
        BY <1>0, <3>4
      <4>2. QED
        BY <4>1 DEF Kept
    <3>6. \A l \in G : l.t \in 0 .. now
      BY <1>0, <3>2, <3>3, <3>4
    <3>7. n \in Resetting =>
            \A l \in G : l.data = {s \in Kept(S, i, l.t - 1) : s <= l.t}
      BY <3>2, <3>3, <3>4, <3>5
    <3>8. QED
      BY <2>1, <2>2, <3>1, <3>4, <3>6, <3>7 DEF HeldBy, S, G, i
  <2>5. \/ cols'[g][n] = cols[g][n] /\ disk'[g][n] = disk[g][n] /\ n \in Members(g)
        \/ \E r \in Outcomes(g, n) :
             /\ n \in Members(g)
             /\ disk'[g][n] = FileAfter(g, n, r)
             /\ IF r = "thrown" THEN cols'[g][n] = cols[g][n]
                ELSE Becomes(g, n, cols[g][n].data, cols[g][n].t,
                             g # "create" /\ r = "written")
    BY <1>0, <1>5, AfterFlush, ZenonT(40)
  <2>6. QED
    BY <2>3, <2>4, <2>5
<1>6. CASE IntervalReset
  <2>1. /\ phase = "flush" /\ phase' = "inc" /\ UNCHANGED <<disk, now, got>>
    BY <1>6 DEF IntervalReset, In
  <2>2. Output(g, n)' = Output(g, n) /\ Reset' = now /\ Reset = now - 1
    BY <1>c, <2>1 DEF Reset
  <2> DEFINE c == cols[g][n]
             i == c.interval
             S == got[n]
             resets == c.t > 0 /\ Ready(g, n) /\ n \in Resetting
  <2>3. /\ n \in Members(g) /\ cols'[g][n].interval = i
        /\ cols'[g][n].data = IF resets THEN {} ELSE c.data
    BY <1>0, <1>6, AfterIntervalReset DEF Becomes
  <2>4. HeldBy(g, n) /\ c.t = now
    BY <1>a, <2>3
  <2>5. S \subseteq 0 .. now
    BY <2>4 DEF HeldBy
  <2>6. n \in Resetting => cols'[g][n].data = Kept(S, i, now)
    <3>1. CASE resets
      <4>1. now # 0 /\ now % i = 0
        BY <1>0, <2>4, <3>1 DEF Ready
      <4>2. \A s \in S : now \in s .. now
        BY <1>0, <2>5
      <4>3. Kept(S, i, now) = {}
        BY <4>1, <4>2 DEF Kept
      <4>4. QED
        BY <2>3, <3>1, <4>3
    <3>2. CASE n \in Resetting /\ ~resets
      <4>1. now = 0 \/ now % i # 0
        BY <1>0, <2>4, <3>2 DEF Ready
      <4>2. c.data = Kept(S, i, now - 1)
        BY <2>2, <2>4, <3>2 DEF HeldBy
      <4>3. ASSUME NEW s \in S
            PROVE  \A t \in s .. now : t \in s .. now - 1 \/ t = now
        BY <1>0, <2>5
      <4>4. ASSUME NEW s \in S
            PROVE  \A t \in s .. now - 1 : t \in s .. now
        BY <1>0, <2>5
      <4>5. Kept(S, i, now) = Kept(S, i, now - 1)
        BY <4>1, <4>3, <4>4 DEF Kept
      <4>6. QED
        BY <2>3, <3>2, <4>2, <4>5
    <3>3. QED
      BY <3>1, <3>2
  <2>7. QED
    BY <2>1, <2>2, <2>3, <2>4, <2>6 DEF HeldBy
<1>7. CASE TimestepInc
  <2>1. /\ phase = "inc" /\ phase' = "collect" /\ now' = now + 1
        /\ UNCHANGED <<disk, got>>
    BY <1>7 DEF TimestepInc, In
  <2>2. Output(g, n)' = Output(g, n) /\ Reset' = now /\ Reset = now
    BY <1>0, <1>c, <2>1 DEF Reset
  <2>3. /\ n \in Members(g) /\ cols'[g][n].interval = cols[g][n].interval
        /\ cols'[g][n].data = cols[g][n].data
    BY <1>0, <1>7, AfterTimestepInc DEF Becomes
  <2>4. HeldBy(g, n)
    BY <1>a, <2>3
  <2>5. 0 .. now \subseteq 0 .. now + 1 /\ \A t \in 0 .. now : t # now + 1
    BY <1>0
  <2>6. QED
    BY <2>1, <2>2, <2>3, <2>4, <2>5 DEF HeldBy
<1>8. CASE Finalize
  <2>1. /\ phase = "inc" /\ phase' = "done" /\ UNCHANGED <<disk, now, got>>
    BY <1>8 DEF Finalize, In
  <2>2. Output(g, n)' = Output(g, n) /\ Reset' = Reset
    BY <1>c, <2>1 DEF Reset
  <2>3. /\ n \in Members(g) /\ cols'[g][n].interval = cols[g][n].interval
        /\ cols'[g][n].data = cols[g][n].data
    BY <1>0, <1>8, AfterFinalize DEF Becomes
  <2>4. QED
    BY <1>a, <2>1, <2>2, <2>3, SteadyHeld
<1>9. ASSUME \/ UNCHANGED vars \/ \E m \in Names : UseNoGroup(m)
      PROVE  HeldBy(g, n)'
  <2>1. UNCHANGED <<cols, disk, phase, now, got>>
    BY <1>9 DEF vars, UseNoGroup
  <2>2. n \in Members(g) /\ Output(g, n)' = Output(g, n) /\ Reset' = Reset
    BY <1>c, <2>1 DEF Members, Reset
  <2>3. QED
    BY <1>a, <2>1, <2>2, SteadyHeld
<1>10. QED
  BY <1>1, <1>2, <1>3, <1>4, <1>5, <1>6, <1>7, <1>8, <1>9 DEF Next

(* The line of a collector that resets holds the samples of the interval   *)
(* that ends at its timestep and no other, whatever the intervals of its   *)
(* group and whatever files fail, if nobody registers once the loop runs.  *)
THEOREM LinesHoldTheirInterval ==
  ASSUME ~LateCollect, NoFile \notin SUBSET Lines
  PROVE  Spec => []LinesHoldInterval
<1>1. Init => HeldInv
  <2> SUFFICES ASSUME Init, NEW g \in Modes PROVE Members(g) = {}
    BY DEF HeldInv
  <2>1. \A n \in Names : cols[g][n] = NoCollector
    BY DEF Init
  <2>2. QED
    BY <2>1 DEF Members
<1>2. LoopInv /\ HeldInv /\ [Next]_vars => HeldInv'
  BY HeldStep
<1>3. LoopInv /\ HeldInv => LinesHoldInterval
  <2> SUFFICES ASSUME LoopInv, HeldInv, NEW g \in Modes,
                      NEW n \in Members(g) \cap Resetting, NEW l \in Output(g, n)
               PROVE  l.data = {s \in got[n] : s <= l.t /\ \A t \in s .. l.t - 1 :
                                  t = 0 \/ t % cols[g][n].interval # 0}
    BY DEF LinesHoldInterval
  <2>1. l.data = {s \in Kept(got[n], cols[g][n].interval, l.t - 1) : s <= l.t}
    BY DEF HeldInv, HeldBy
  <2>2. QED
    BY <2>1 DEF Kept
<1>4. QED
  BY <1>1, <1>2, <1>3, LoopInvariant, PTL DEF Spec
=============================================================================

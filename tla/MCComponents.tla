---------------------------- MODULE MCComponents ----------------------------
(* Small instances of the parts of Components.                             *)
EXTENDS Components, FiniteSets, TLC

(* Two names and two classes of parsers, one of a required section.        *)
MCNames == {1, 2}
MCParserClasses == {"ema", "rng"}
MCConfigOf == "ema" :> "ema_config" @@ "rng" :> "rng_config"
Doc(ema, rng) == "ema" :> ema @@ "rng" :> rng
MCParserDocuments == {Doc("valid", "absent"), Doc("invalid", "incomplete"),
                      Doc("absent", "valid")}
MCObjectClasses == {"mt19937", "other"}

(* One collector, in any subsections of the file section; a network        *)
(* section with it.                                                        *)
MCSubsections == {Absent, [timed |-> FALSE, enabled |-> {}],
                  [timed |-> TRUE, enabled |-> {}],
                  [timed |-> TRUE, enabled |-> {"c"}]}
MCMetricsDocuments ==
  [file : {Absent} \cup [{"create", "append", "truncate"} -> MCSubsections],
   network : {Absent, [timed |-> TRUE, enabled |-> {"c"}]}]
MCAllowed == "c" :> {"append", "create"}

MCDraws == {0, 1, 2}

(* Four points at three places, or three at four.                          *)
MCMeansInputs == [1 .. 4 -> {0, 1, 3}] \cup [1 .. 3 -> 0 .. 3]

MCHorizonInputs == [1 .. 4 -> 0 .. 3]
MCHorizons == <<0, 1, 3>>

(* All sets of up to five of twelve points.                                *)
MCHullPoints == [x : 0 .. 2, y : 0 .. 3]
MCHullInputs == {s \in SUBSET MCHullPoints : Cardinality(s) \in 1 .. 5}

(* One merge over all choices of four points, equal ones included, and of  *)
(* five on two heights, and three nested merges over eight points.         *)
SortedPoints(n, xs, ys) ==
  {s \in [1 .. n -> {[x |-> a, y |-> b] : a \in xs, b \in ys}] :
     \A i \in 1 .. n - 1 : s[i].x <= s[i + 1].x}
Eight(ys) == [i \in 1 .. 8 |-> [x |-> i \div 2, y |-> ys[i]]]
MCPairInputs == SortedPoints(4, {0, 1, 4}, {0, 1, 3})
                  \cup SortedPoints(5, {0, 1, 4}, {0, 2})
                  \cup {Eight(<<0, 4, 8, 2, 6, 10, 4, 9>>),
                        Eight(<<0, 9, 3, 12, 6, 1, 9, 4>>),
                        Eight(<<5, 0, 9, 5, 0, 9, 4, 12>>)}

(* Arguments around the bounds, and angles around those of both ranges.    *)
MCRangeValues == -2 .. 2
MCAngleValues == {-450, -181, -90, 0, 45, 180, 270, 360}
MCFactors == {-1, 2, 3}

MCSizes == [x : {1, 3}, y : {2}, z : {1, 2}]
MCDims == [x : {7, 8, 9}, y : {4}, z : {2}]
MCCoords == [x : 0 .. 2, y : 0 .. 1, z : 0 .. 1]
=============================================================================

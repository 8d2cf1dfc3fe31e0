----------------------------- MODULE MCMetrics -----------------------------
(* Two scoped names, in one group or in two, with two intervals among the  *)
(* modes or two within a mode.                                             *)
EXTENDS Metrics

MCNames     == {1, 2}
MCUniform   == [g \in Modes |-> IF g = "create" THEN {2} ELSE {1}]
MCDifferent == [g \in Modes |-> {1, 2}]
=============================================================================

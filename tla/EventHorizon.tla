---------------------------- MODULE EventHorizon ----------------------------
(***************************************************************************)
(* entropy_balch2000::run() with entropy_eh_omp: for each horizon, a       *)
(* parallel loop gathers for every point the points within the horizon of  *)
(* it, and a copy of these clusters is freed of duplicates, one cluster    *)
(* after another, in place.  (The entropy of the proportions is a real     *)
(* number; the sizes it is computed from are those of the copy.)           *)
(*                                                                         *)
(* Duplicates_Adjacent is a faulty variant; no specification uses it.      *)
(***************************************************************************)
EXTENDS Integers, Sequences, SequencesExt, FiniteSets

CONSTANTS
  Inputs,      \* the sequences of points, on a line
  Horizons     \* the sequence of horizons of a run

VARIABLES
  data,        \* m_data
  round,       \* the loop variable of run()
  membership,  \* m_membership: point -> cluster around it
  copy,        \* m_membership_cp
  todo,        \* the iterations of the parallel loop that are left
  next,        \* the loop variable of balch2000_rm_dup_clusters()
  phase        \* "iterate", "dedup" or "done"

vars == <<data, round, membership, copy, todo, next, phase>>

Points == DOMAIN data
Dist(i, j) == IF data[i] < data[j] THEN data[j] - data[i] ELSE data[i] - data[j]
Ball(i, horizon) == {j \in Points : Dist(i, j) <= horizon}

Init ==
  /\ data \in Inputs
  /\ round = 1
  /\ membership = [i \in Points |-> {}]
  /\ copy = <<>>
  /\ todo = Points
  /\ next = 1
  /\ phase = "iterate"

(* The clusters are not emptied between the rounds: the horizon grows.     *)
Gather(i) ==
  /\ phase = "iterate"
  /\ i \in todo
  /\ membership' =
       [membership EXCEPT ![i] = @ \cup Ball(i, Horizons[round])]
  /\ todo' = todo \ {i}
  /\ UNCHANGED <<data, round, copy, next, phase>>

EndIterate ==
  /\ phase = "iterate"
  /\ todo = {}
  /\ copy' = membership
  /\ next' = 1
  /\ phase' = "dedup"
  /\ UNCHANGED <<data, round, membership, todo>>

(* Mutant: only the neighbour is compared.                                 *)
Duplicates_Adjacent(i) == {j \in DOMAIN copy : j = i + 1 /\ copy[j] = copy[i]}

(* What remove_if() removes: the clusters equal to cluster i but not at    *)
(* its index.                                                              *)
Duplicates(i) == {j \in DOMAIN copy : copy[j] = copy[i] /\ j # i}

(* The sequence of the numbers in S, in a set of its own.                  *)
InOrder(S) ==
  {s \in [1 .. Cardinality(S) -> S] :
     /\ \A x \in S : \E n \in DOMAIN s : s[n] = x
     /\ \A m, n \in DOMAIN s : m < n => s[m] < s[n]}

RemoveDuplicates ==
  /\ phase = "dedup"
  /\ next <= Len(copy)
  /\ \E kept \in InOrder(DOMAIN copy \ Duplicates(next)) :
       copy' = [n \in DOMAIN kept |-> copy[kept[n]]]
  /\ next' = next + 1
  /\ UNCHANGED <<data, round, membership, todo, phase>>

NextHorizon ==
  /\ phase = "dedup"
  /\ next > Len(copy)
  /\ IF round < Len(Horizons)
     THEN round' = round + 1 /\ todo' = Points /\ phase' = "iterate"
     ELSE phase' = "done" /\ UNCHANGED <<round, todo>>
  /\ UNCHANGED <<data, membership, copy, next>>

Next ==
  \/ \E i \in Points : Gather(i)
  \/ EndIterate
  \/ RemoveDuplicates
  \/ NextHorizon

Spec == Init /\ [][Next]_vars

----------------------------------------------------------------------------
TypeOK ==
  /\ \A i \in Points : membership[i] \subseteq Points
  /\ \A n \in DOMAIN copy : copy[n] \subseteq Points
  /\ phase \in {"iterate", "dedup", "done"} /\ todo \subseteq Points

(* When the proportions of a horizon are computed, its clusters are the    *)
(* distinct neighbourhoods of the points under this horizon, each of them  *)
(* once and in the order of the points, although the clusters are filled   *)
(* again and again and the vector shrinks while it is gone through.        *)
ClustersDistinct ==
  (phase = "dedup" /\ next > Len(copy)) =>
    /\ ToSet(copy) = {Ball(i, Horizons[round]) : i \in Points}
    /\ \A m, n \in DOMAIN copy : m < n =>
         LET Around(c) == {i \in Points : Ball(i, Horizons[round]) = c} IN
         /\ copy[m] # copy[n]
         /\ \E i \in Around(copy[m]) : \A j \in Around(copy[n]) : i < j
=============================================================================

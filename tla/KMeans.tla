------------------------------- MODULE KMeans -------------------------------
(***************************************************************************)
(* kmeans::run() with kmeans_omp: the threads of a parallel loop assign    *)
(* each point to its nearest centre, the run ends if no centre changed in  *)
(* the round before, and a second parallel loop computes new centres.  The *)
(* iterations of a loop run in any order, with a barrier at its end.       *)
(*                                                                         *)
(* Points are integers.  A centre is the fraction [sum, n] of its points;  *)
(* that of an empty cluster, n = 0, is not a number: it is nearest to no   *)
(* point and equal to no centre, itself included.  Rounding of doubles is  *)
(* left out, and with it the tolerance with which they are compared.       *)
(*                                                                         *)
(* Operators with a suffix (Converged_Some, ...) are faulty variants of a  *)
(* definition; no specification uses them.                                 *)
(***************************************************************************)
EXTENDS Integers, FiniteSets, FiniteSetsExt, Sequences

CONSTANTS
  Inputs,      \* the sequences of points
  MaxK,        \* bound on the number of clusters
  MaxIter      \* mc_max_iter

VARIABLES
  data,        \* m_data
  k,           \* mc_k
  membership,  \* m_membership: point -> cluster, 0 before the first round
  center, prev,\* m_center and m_prev_center of the clusters
  iter,        \* the rounds done
  todo,        \* the iterations of the parallel loop that are left
  phase,       \* "iterate", "update" or "done"
  converged    \* the run ended because converged() was true

vars == <<data, k, membership, center, prev, iter, todo, phase, converged>>

Points == DOMAIN data
Clusters == 1 .. k

Abs(x) == IF x < 0 THEN -x ELSE x
IsNumber(c) == c.n # 0
SameCenter(a, b) == IsNumber(a) /\ IsNumber(b) /\ a.sum * b.n = b.sum * a.n

(* The distance of x to a centre is less than, or at most, that to another.*)
Nearer(x, a, b) == Abs(x * a.n - a.sum) * b.n < Abs(x * b.n - b.sum) * a.n
AsNear(x, a, b) == ~Nearer(x, b, a)

(* The constructor: the centres are the first k points, the previous ones  *)
(* are zero.                                                               *)
Init ==
  /\ data \in Inputs
  /\ k \in 1 .. MaxK
  /\ k <= Len(data)
  /\ membership = [i \in Points |-> 0]
  /\ center = [j \in Clusters |-> [sum |-> data[j], n |-> 1]]
  /\ prev = [j \in Clusters |-> [sum |-> 0, n |-> 1]]
  /\ iter = 0
  /\ todo = Points
  /\ phase = "iterate"
  /\ converged = FALSE

(* The first of the nearest of the centres c, and of the current ones.     *)
Nearest(c, x) ==
  {j \in Clusters :
     /\ IsNumber(c[j])
     /\ \A l \in Clusters : IsNumber(c[l]) => AsNear(x, c[j], c[l])}
Closest(x) == Min(Nearest(center, x))

Assign(i) ==
  /\ phase = "iterate"
  /\ i \in todo
  /\ membership' = [membership EXCEPT ![i] = Closest(data[i])]
  /\ todo' = todo \ {i}
  /\ UNCHANGED <<data, k, center, prev, iter, phase, converged>>

(* Mutant: one cluster that did not change ends the run.                   *)
Converged_Some == \E j \in Clusters : SameCenter(prev[j], center[j])

(* kmeans_omp::converged(): no cluster changed in the last update.         *)
Converged == \A j \in Clusters : SameCenter(prev[j], center[j])

EndIterate ==
  /\ phase = "iterate"
  /\ todo = {}
  /\ IF Converged
     THEN phase' = "done" /\ converged' = TRUE /\ UNCHANGED todo
     ELSE phase' = "update" /\ todo' = Clusters /\ UNCHANGED converged
  /\ UNCHANGED <<data, k, membership, center, prev, iter>>

(* update_center(): the mean of cluster j under the membership m.          *)
Accum(m, j) ==
  LET accum[i \in 0 .. Len(data)] ==
        IF i = 0 THEN 0
        ELSE accum[i - 1] + (IF m[i] = j THEN data[i] ELSE 0)
  IN accum[Len(data)]
Mean(m, j) ==
  [sum |-> Accum(m, j), n |-> Cardinality({i \in Points : m[i] = j})]
MeanOf(j) == Mean(membership, j)

UpdateCenter(j) ==
  /\ phase = "update"
  /\ j \in todo
  /\ prev' = [prev EXCEPT ![j] = center[j]]
  /\ center' = [center EXCEPT ![j] = MeanOf(j)]
  /\ todo' = todo \ {j}
  /\ UNCHANGED <<data, k, membership, iter, phase, converged>>

EndUpdate ==
  /\ phase = "update"
  /\ todo = {}
  /\ iter' = iter + 1
  /\ IF iter + 1 < MaxIter
     THEN phase' = "iterate" /\ todo' = Points
     ELSE phase' = "done" /\ UNCHANGED todo
  /\ UNCHANGED <<data, k, membership, center, prev, converged>>

Next ==
  \/ \E i \in Points : Assign(i)
  \/ EndIterate
  \/ \E j \in Clusters : UpdateCenter(j)
  \/ EndUpdate

Spec == Init /\ [][Next]_vars

----------------------------------------------------------------------------
TypeOK ==
  /\ \A i \in Points : membership[i] \in 0 .. k
  /\ \A j \in Clusters : center[j].n \in Nat /\ prev[j].n \in Nat
  /\ iter \in 0 .. MaxIter /\ phase \in {"iterate", "update", "done"}
  /\ todo \subseteq Points \cup Clusters /\ converged \in BOOLEAN

(* The previous centres are zero before there are any: with k points at    *)
(* zero in front, the first round ends the run.                            *)
FalseStart == \A j \in Clusters : data[j] = 0

(* A run that ended by convergence returns a fixed point, in whatever      *)
(* order the threads worked: every cluster has members, its centre is      *)
(* their mean, and every point is in the first of its nearest clusters.    *)
(* (So a run with an empty cluster only ends at mc_max_iter.)              *)
ConvergedIsFixpoint ==
  (converged /\ ~FalseStart) =>
    /\ \A j \in Clusters : SameCenter(center[j], MeanOf(j))
    /\ \A i \in Points : membership[i] = Closest(data[i])
=============================================================================

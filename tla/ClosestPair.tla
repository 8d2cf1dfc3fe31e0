----------------------------- MODULE ClosestPair -----------------------------
(***************************************************************************)
(* closest_pair2D with the method "recursive".  The vectors of the calls   *)
(* are segments of the vector sorted by x, one call inside another; they   *)
(* share one buffer for the strip, which is a set here: it is sorted right *)
(* after it is filled.  Distances are squared: fabs(a) < d is              *)
(* a * a < d * d.  Coordinates are signed.                                 *)
(*                                                                         *)
(* Operators with a suffix (Return_Keeps, ...) are faulty variants of a    *)
(* definition; no specification uses them.                                 *)
(***************************************************************************)
EXTENDS Integers, Sequences, SequencesExt

CONSTANTS
  Inputs,      \* sequences of points [x, y], sorted by x, equals in any order
  Far          \* the largest double

VARIABLES
  points,      \* the sorted vector
  calls,       \* the segments of the calls that run, innermost last
  best,        \* segment -> what its call returned
  strip,       \* indices of the points in the strip
  phase,       \* what the innermost call does: "call", "sort" or "pairs"
  order,       \* the indices that it goes through in pairs,
  row, col,    \*   the variables of these two loops,
  min          \*   and their result so far

vars == <<points, calls, best, strip, phase, order, row, col, min>>

Whole == [lo |-> 1, hi |-> Len(points)]
Within(seg) == seg.lo .. seg.hi
Size(seg) == seg.hi - seg.lo + 1
Mid(seg) == seg.lo + Size(seg) \div 2
Left(seg) == [lo |-> seg.lo, hi |-> Mid(seg) - 1]
Right(seg) == [lo |-> Mid(seg), hi |-> seg.hi]

Square(a) == a * a
Dist(i, j) == Square(points[i].x - points[j].x)
                + Square(points[i].y - points[j].y)

Nothing == [dist |-> Far, p1 |-> 0, p2 |-> 0]

Init ==
  /\ points \in Inputs
  /\ calls = <<Whole>>
  /\ best = <<>>
  /\ strip = {}
  /\ phase = "call"
  /\ order = <<>> /\ row = 0 /\ col = 0 /\ min = Nothing

Seg == Last(calls)
Solved(seg) == seg \in DOMAIN best
Called(small) ==
  /\ phase = "call"
  /\ calls # <<>>
  /\ small <=> Size(Seg) <= 3

(* Up to three points: all pairs of them.                                  *)
Base ==
  /\ Called(TRUE)
  /\ phase' = "pairs"
  /\ order' = [n \in 1 .. Size(Seg) |-> Seg.lo + n - 1]
  /\ row' = 1 /\ col' = 2
  /\ UNCHANGED <<points, calls, best, strip, min>>

(* The left half is solved before the right one is.                        *)
Descend ==
  /\ Called(FALSE)
  /\ ~(Solved(Left(Seg)) /\ Solved(Right(Seg)))
  /\ calls' = Append(calls, IF Solved(Left(Seg)) THEN Right(Seg) ELSE Left(Seg))
  /\ UNCHANGED <<points, best, strip, phase, order, row, col, min>>

(* std::min of the results of the halves.                                  *)
BestOf(seg) ==
  IF best[Right(seg)].dist < best[Left(seg)].dist THEN best[Right(seg)]
  ELSE best[Left(seg)]

(* The points nearer to the middle one, in x, than the best so far.        *)
Near(seg, dist) ==
  {i \in Within(seg) : Square(points[i].x - points[Mid(seg)].x) < dist}

Fill ==
  /\ Called(FALSE)
  /\ Solved(Left(Seg)) /\ Solved(Right(Seg))
  /\ min' = BestOf(Seg)
  /\ strip' = strip \cup Near(Seg, min'.dist)
  /\ phase' = "sort"
  /\ UNCHANGED <<points, calls, best, order, row, col>>

(* The sort by y, the lowest of what is left next; equals in any order.    *)
Unsorted == strip \ ToSet(order)
Sort ==
  /\ phase = "sort"
  /\ \E i \in Unsorted :
       /\ \A j \in Unsorted : points[i].y <= points[j].y
       /\ order' = Append(order, i)
  /\ UNCHANGED <<points, calls, best, strip, phase, row, col, min>>

StartPairs ==
  /\ phase = "sort"
  /\ Unsorted = {}
  /\ phase' = "pairs"
  /\ row' = 1 /\ col' = 2
  /\ UNCHANGED <<points, calls, best, strip, order, min>>

(* A pair replaces a result that is not as close.                          *)
Closer(p1, p2) ==
  IF Dist(p1, p2) < min.dist
  THEN [dist |-> Dist(p1, p2), p1 |-> p1, p2 |-> p2]
  ELSE min

(* In a strip the inner loop ends at a point that is too high above the    *)
(* other; the difference is not negative.                                  *)
InReach ==
  /\ col <= Len(order)
  /\ Size(Seg) > 3 =>
       Square(points[order[col]].y - points[order[row]].y) < min.dist

Compare ==
  /\ phase = "pairs"
  /\ row <= Len(order) /\ InReach
  /\ min' = Closer(order[row], order[col])
  /\ col' = col + 1
  /\ UNCHANGED <<points, calls, best, strip, phase, order, row>>

NextRow ==
  /\ phase = "pairs"
  /\ row <= Len(order) /\ ~InReach
  /\ row' = row + 1 /\ col' = row + 2
  /\ UNCHANGED <<points, calls, best, strip, phase, order, min>>

Result ==
  /\ phase = "pairs"
  /\ row > Len(order)
  /\ best' = [s \in DOMAIN best \cup {Seg} |-> IF s = Seg THEN min ELSE best[s]]
  /\ calls' = Front(calls)
  /\ phase' = "call"
  /\ order' = <<>> /\ row' = 0 /\ col' = 0 /\ min' = Nothing
  /\ UNCHANGED points

(* Mutant: the strip of an inner call stays in the buffer.                 *)
Return_Keeps == Result /\ UNCHANGED strip

Return == Result /\ strip' = IF Size(Seg) > 3 THEN {} ELSE strip

Next ==
  Base \/ Descend \/ Fill \/ Sort \/ StartPairs \/ Compare \/ NextRow \/ Return

Spec == Init /\ [][Next]_vars

----------------------------------------------------------------------------
TypeOK ==
  /\ ToSet(calls) \cup DOMAIN best \subseteq
       [lo : 1 .. Len(points) + 1, hi : 0 .. Len(points)]
  /\ strip \cup ToSet(order) \subseteq DOMAIN points
  /\ phase \in {"call", "sort", "pairs"}
  /\ {row, col} \subseteq Nat

(* Whatever a call returns is the closest pair of its own segment, with    *)
(* points on one vertical line, equal points, and pairs across the middle. *)
ClosestFound ==
  \A seg \in DOMAIN best :
    LET r == best[seg] IN
    /\ \A i, j \in Within(seg) : i < j => r.dist <= Dist(i, j)
    /\ r.dist # Far =>
         r.p1 \in Within(seg) /\ r.p2 \in Within(seg) /\ r.p1 # r.p2
           /\ r.dist = Dist(r.p1, r.p2)
=============================================================================

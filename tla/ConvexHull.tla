----------------------------- MODULE ConvexHull -----------------------------
(***************************************************************************)
(* convex_hull2D: the Graham scan of a vector of points.  The points are a *)
(* set: the order of the vector is lost in the sort, and of a point given  *)
(* twice the comparison would say that each copy comes before the other,   *)
(* which std::sort does not allow.                                         *)
(*                                                                         *)
(* Operators with a suffix (Backtracks_Clockwise, ...) are faulty variants *)
(* of a definition; no specification uses them.                            *)
(***************************************************************************)
EXTENDS Integers, Sequences, FiniteSets, SequencesExt

CONSTANT Inputs  \* the sets of points: not empty, with integer x and y

VARIABLES
  data,          \* the vector that is given
  points,        \* the vector while it is worked on
  hull,          \* the list that is returned, its front last
  next,          \* the loop variable of the scan
  phase          \* the part that is next; "some" or "none" at the end

vars == <<data, points, hull, next, phase>>

(* orientation(): negative for a counter-clockwise turn.                   *)
Orientation(p, q, r) ==
  (q.y - p.y) * (r.x - q.x) - (q.x - p.x) * (r.y - q.y)
IsCCW(p, q, r) == Orientation(p, q, r) < 0
IsCollinear(p, q, r) == Orientation(p, q, r) = 0

SquareDist(p, q) == (p.x - q.x) * (p.x - q.x) + (p.y - q.y) * (p.y - q.y)

Init ==
  /\ data \in Inputs
  /\ points = <<>>
  /\ hull = <<>>
  /\ next = 0
  /\ phase = "initialize"

(* The order of the sort: by angle around the first, then by distance.     *)
Before(first, p, q) ==
  \/ IsCCW(first, p, q)
  \/ IsCollinear(first, p, q) /\ SquareDist(first, p) < SquareDist(first, q)

(* initialize(): the bottommost point, the leftmost of several, comes to   *)
(* the front, and the others are sorted around it.                         *)
Lowest(p) == \A q \in data : p.y < q.y \/ (p.y = q.y /\ p.x <= q.x)
Fans ==
  {s \in [1 .. Cardinality(data) -> data] :
     /\ IsInjective(s) /\ ToSet(s) = data
     /\ Lowest(s[1])
     /\ \A m, n \in DOMAIN s \ {1} : m < n => Before(s[1], s[m], s[n])}

Initialize ==
  /\ phase = "initialize"
  /\ points' \in Fans
  /\ phase' = "filter"
  /\ UNCHANGED <<data, hull, next>>

(* The point that is kept of those at one angle.                           *)
Outermost(i) ==
  \/ i \in {1, Len(points)}
  \/ ~IsCollinear(points[1], points[i], points[i + 1])

(* The numbers of the points that are kept, one after the other.           *)
Kept ==
  LET outer == {i \in DOMAIN points : Outermost(i)} IN
  {s \in [1 .. Cardinality(outer) -> outer] :
     /\ ToSet(s) = outer
     /\ \A m, n \in DOMAIN s : m < n => s[m] < s[n]}

Filter ==
  /\ phase = "filter"
  /\ \E s \in Kept : points' = [m \in DOMAIN s |-> points[s[m]]]
  /\ IF Len(points') < 3
     THEN phase' = "none" /\ UNCHANGED <<hull, next>>
     ELSE /\ phase' = "scan"
          /\ hull' = <<points'[1], points'[2], points'[3]>>
          /\ next' = 4
  /\ UNCHANGED data

(* Mutant: only a clockwise turn leads back.                               *)
Backtracks_Clockwise ==
  /\ Len(hull) > 1
  /\ Orientation(hull[Len(hull) - 1], Last(hull), points[next]) > 0

(* The condition of the inner loop.                                        *)
Backtracks ==
  /\ Len(hull) > 1
  /\ ~IsCCW(hull[Len(hull) - 1], Last(hull), points[next])

Pop ==
  /\ phase = "scan"
  /\ next <= Len(points)
  /\ Backtracks
  /\ hull' = Front(hull)
  /\ UNCHANGED <<data, points, next, phase>>

Push ==
  /\ phase = "scan"
  /\ next <= Len(points)
  /\ ~Backtracks
  /\ hull' = Append(hull, points[next])
  /\ next' = next + 1
  /\ UNCHANGED <<data, points, phase>>

Return ==
  /\ phase = "scan"
  /\ next > Len(points)
  /\ phase' = "some"
  /\ UNCHANGED <<data, points, hull, next>>

Next == Initialize \/ Filter \/ Pop \/ Push \/ Return

Spec == Init /\ [][Next]_vars

----------------------------------------------------------------------------
TypeOK ==
  /\ ToSet(points) \subseteq data /\ ToSet(hull) \subseteq data
  /\ next \in Nat
  /\ phase \in {"initialize", "filter", "scan", "some", "none"}

(* A hull is returned unless all points are on one line.  It turns the     *)
(* same way at each of its points, the last and the first included, so it  *)
(* goes around once, and no point is on the other side of an edge.  (Which *)
(* way is left open: documented is counter-clockwise, the test has it      *)
(* clockwise, and so does the code, which adds each point at the front.)   *)
HullEncloses ==
  LET After(i) == IF i = Len(hull) THEN 1 ELSE i + 1
      From(i, p) == Orientation(hull[i], hull[After(i)], p)
      Turn(i) == From(i, hull[After(After(i))])
  IN
  /\ phase = "none" => \A p, q, r \in data : IsCollinear(p, q, r)
  /\ phase = "some" =>
       /\ Len(hull) >= 3 /\ IsInjective(hull)
       /\ \/ \A i \in DOMAIN hull : Turn(i) < 0 /\ \A p \in data : From(i, p) <= 0
          \/ \A i \in DOMAIN hull : Turn(i) > 0 /\ \A p \in data : From(i, p) >= 0
=============================================================================

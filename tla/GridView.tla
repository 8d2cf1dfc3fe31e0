------------------------------ MODULE GridView ------------------------------
(***************************************************************************)
(* hgrid3D::subgraph(): a depth-first visit of a grid graph from a start   *)
(* vertex collects the vertices within a Manhattan distance of it, in its  *)
(* plane if a mask is given, and an hgrid3D_view is made of them.          *)
(*                                                                         *)
(* Vertex descriptors index the graph's vertex vector (boost::vecS), and   *)
(* the visit uses them to index its own colours and distances, which are   *)
(* sized by the distance and not by the graph.  A write past their end     *)
(* ends the model (pc "undefined"); a read past the end of the distances,  *)
(* when the view is listed, returns anything.                              *)
(*                                                                         *)
(* Operators with a suffix (Finish_NoPop, ...) are faulty variants of a    *)
(* definition; no specification uses them.                                 *)
(***************************************************************************)
EXTENDS Sequences, FiniteSets, SequencesExt, Vectors

CONSTANTS
  Vertices,    \* the vertex descriptors
  Coord,       \* vertex -> its coordinates
  Graphs,      \* the graphs of the instance: vertex -> its neighbours
  MaxDists,    \* the distances asked for
  Masks,       \* the unit vectors a view may be restricted with
  NoMask       \* boost::none

ASSUME VerticesAssumption == Vertices \subseteq Nat
(* One vertex per cell, as in a grid.                                      *)
ASSUME CoordAssumption ==
  /\ Coord \in [Vertices -> Vectors(Nat)]
  /\ \A v, w \in Vertices : Coord[v] = Coord[w] => v = w
ASSUME GraphsAssumption == Graphs \subseteq [Vertices -> SUBSET Vertices]
ASSUME DistsAssumption == MaxDists \subseteq Nat

VARIABLES
  graph,       \* the adjacency list, not changed by the visit
  query,       \* the arguments of subgraph()
  pc,
  stack,       \* the vertices of depth_first_visit that are not finished
  color,       \* colormap
  distances,   \* m_distances: -1 until a vertex is included
  ll, ur,      \* m_ll, m_ur
  ul, lr,      \* m_ul, m_lr
  listed       \* what vertices() of the finished view returns

corners == <<ll, ur, ul, lr>>
vars == <<graph, query, pc, stack, color, distances, corners, listed>>

(* lookup(): the included vertices, reached by their coordinates; its size *)
(* is n_vertices() of the view.                                            *)
Included == {v \in Vertices : distances[v] # -1}

(* max_visited_vertices().                                                 *)
Capacity == (2 * query.max) * (2 * query.max) * (2 * query.max)
InBounds(v) == v < Capacity

SameAxis(v) ==
  \/ query.mask = NoMask
  \/ Mask(Coord[v], query.mask) = Mask(Coord[query.start], query.mask)

(* The negation of stop_when().                                            *)
Eligible(v) ==
  SameAxis(v) /\ L1norm(Coord[v], Coord[query.start]) <= query.max

Init ==
  /\ graph \in Graphs
  /\ query \in [start : Vertices, max : MaxDists, mask : Masks \cup {NoMask}]
  /\ pc = "start"
  /\ stack = <<>>
  /\ color = [v \in Vertices |-> "white"]
  /\ distances = [v \in Vertices |-> -1]
  /\ ll = Coord[query.start]
  /\ ur = Coord[query.start]
  /\ ul = Zero
  /\ lr = Zero
  /\ listed = {}

Larger(a, b) == IF a < b THEN b ELSE a
Smaller(a, b) == IF b < a THEN b ELSE a

(* Mutant: the arguments of std::min and std::max are swapped, which is no *)
(* difference under a total order.                                         *)
Update_Swapped(v) ==
  LET c == Coord[v] IN
  /\ ll' = IF ComponentwiseCompare(ll, c) THEN ll ELSE c
  /\ ur' = IF ComponentwiseCompare(c, ur) THEN ur ELSE c
  /\ ul' = Vec(ll'.x, Larger(ul.y, c.y), Larger(ul.z, c.z))
  /\ lr' = Vec(Larger(lr.x, c.x), ll'.y, Smaller(lr.z, c.z))
  /\ distances' = [distances EXCEPT ![v] = L1norm(c, Coord[query.start])]

(* hgrid3D_view_filter_data::update().                                     *)
Update(v) ==
  LET c == Coord[v] IN
  /\ ll' = IF ComponentwiseCompare(c, ll) THEN c ELSE ll
  /\ ur' = IF ComponentwiseCompare(ur, c) THEN c ELSE ur
  /\ ul' = Vec(ll'.x, Larger(ul.y, c.y), Larger(ul.z, c.z))
  /\ lr' = Vec(Larger(lr.x, c.x), ll'.y, Smaller(lr.z, c.z))
  /\ distances' = [distances EXCEPT ![v] = L1norm(c, Coord[query.start])]

(* Mutant: the visit goes on behind a vertex it rejected.                  *)
Frontier_NoStop ==
  CASE pc = "start" -> {query.start}
    [] pc = "visit" ->
         {v \in graph[Last(stack)] : ~InBounds(v) \/ color[v] = "white"}
    [] OTHER -> {}

(* The vertices that the visit may look at next: the start vertex, then    *)
(* the unvisited neighbours of the vertex on top of the stack, unless the  *)
(* visit stopped at that one.  The colour of a vertex beyond the colormap  *)
(* is never known.                                                         *)
Frontier ==
  CASE pc = "start" -> {query.start}
    [] pc = "visit" /\ Eligible(Last(stack)) ->
         {v \in graph[Last(stack)] : ~InBounds(v) \/ color[v] = "white"}
    [] OTHER -> {}

Discover(v) ==
  /\ v \in Frontier
  /\ InBounds(v)
  /\ color' = [color EXCEPT ![v] = "gray"]
  /\ stack' = Append(stack, v)
  /\ IF Eligible(v) THEN Update(v) ELSE UNCHANGED <<distances, corners>>
  /\ pc' = "visit"
  /\ UNCHANGED <<graph, query, listed>>

Overrun(v) ==
  /\ v \in Frontier
  /\ ~InBounds(v)
  /\ pc' = "undefined"
  /\ UNCHANGED <<graph, query, stack, color, distances, corners, listed>>

(* Mutants: the last vertex does not end the visit; a vertex stays on the  *)
(* stack.                                                                  *)
Finish_Empty ==
  /\ pc = "visit"
  /\ Frontier = {}
  /\ color' = [color EXCEPT ![Last(stack)] = "black"]
  /\ stack' = Front(stack)
  /\ UNCHANGED <<graph, query, pc, distances, corners, listed>>

Finish_NoPop ==
  /\ pc = "visit"
  /\ Frontier = {}
  /\ color' = [color EXCEPT ![Last(stack)] = "black"]
  /\ UNCHANGED <<graph, query, pc, stack, distances, corners, listed>>

Finish ==
  /\ pc = "visit"
  /\ Frontier = {}
  /\ color' = [color EXCEPT ![Last(stack)] = "black"]
  /\ stack' = Front(stack)
  /\ pc' = IF Len(stack) = 1 THEN "view" ELSE "visit"
  /\ UNCHANGED <<graph, query, distances, corners, listed>>

(* vertex_filter() of a descriptor that the distances hold.                *)
VertexFilter(v) == distances[v] > -1 /\ distances[v] <= query.max

(* vertices() of the view filters every vertex of the graph.               *)
List ==
  /\ pc = "view"
  /\ \E garbage \in SUBSET {v \in Vertices : ~InBounds(v)} :
       listed' = {v \in Vertices : InBounds(v) /\ VertexFilter(v)} \cup garbage
  /\ pc' = "done"
  /\ UNCHANGED <<graph, query, stack, color, distances, corners>>

(* The bounding box of the constructed view.                               *)
ViewBox ==
  Box(Vec(Larger(ur.x, ul.x) - Smaller(lr.x, ll.x) + 1,
          Larger(ur.y, ul.y) - Smaller(lr.y, ll.y) + 1,
          Larger(ur.z, ul.z) - Smaller(lr.z, ll.z) + 1),
      ll)

(* contains() of the view.                                                 *)
ViewContains(c) == \E v \in Included : Coord[v] = c

Next ==
  \/ \E v \in Vertices : Discover(v) \/ Overrun(v)
  \/ Finish
  \/ List

Spec == Init /\ [][Next]_vars

(* One thread runs the visit to its end.                                   *)
FairSpec == Spec /\ WF_vars(Next)

----------------------------------------------------------------------------
(* The values the variables take.                                          *)
TypeOK ==
  /\ graph \in Graphs
  /\ query \in [start : Vertices, max : MaxDists, mask : Masks \cup {NoMask}]
  /\ pc \in {"start", "visit", "view", "done", "undefined"}
  /\ stack \in Seq(Vertices)
  /\ (pc = "visit") => stack # <<>>
  /\ color \in [Vertices -> {"white", "gray", "black"}]
  /\ distances \in [Vertices -> Int]
  /\ ll \in Vectors(Nat) /\ ur \in Vectors(Nat)
  /\ ul \in Vectors(Nat) /\ lr \in Vectors(Nat)
  /\ listed \subseteq Vertices

(* A set that holds the start vertex and every eligible neighbour of its   *)
(* members.                                                                *)
Closed(S) ==
  /\ query.start \in S
  /\ \A v \in S : \A w \in graph[v] : Eligible(w) => w \in S

(* Whatever the order in which the visit takes the edges, a view holds     *)
(* exactly the connected part of the eligible vertices that the start      *)
(* vertex is in: no eligible vertex behind a rejected one slips in, and    *)
(* none is missed because the visit stopped at a vertex too early.  When   *)
(* the distances cover the graph, listing the view returns that set.       *)
ViewExact ==
  /\ pc \in {"view", "done"} =>
       /\ Closed(Included)
       /\ \A S \in SUBSET Vertices : Closed(S) => Included \subseteq S
  /\ (pc = "done" /\ \A v \in Vertices : InBounds(v)) => listed = Included

(* The lower-left and upper-right corners are cells of the view, and no    *)
(* cell of the view is beyond them in all dimensions.  (They bound the     *)
(* view only if it has a least and a greatest cell.)                       *)
CornersExtremal ==
  pc \in {"visit", "view", "done"} =>
    /\ ViewContains(ll) /\ ViewContains(ur)
    /\ \A v \in Included :
         /\ ComponentwiseCompare(Coord[v], ll) => Coord[v] = ll
         /\ ComponentwiseCompare(ur, Coord[v]) => Coord[v] = ur

(* The visit ends, in a view or at an access outside its vectors.          *)
Terminates == <>(pc \in {"done", "undefined"})

=============================================================================

--------------------------- MODULE GridViewProofs ---------------------------
(***************************************************************************)
(* Theorems about module GridView: the values of its variables, the exact  *)
(* content of a view, and its corners, for every graph, distance and mask; *)
(* and about the vectors that are keys and the boxes of module Vectors.    *)
(***************************************************************************)
EXTENDS GridView, SequenceTheorems, TLAPS

(* A Manhattan distance of two cells is a natural number, 0 from a cell to *)
(* itself.                                                                 *)
LEMMA L1normNat ==
  ASSUME NEW v \in Vectors(Nat), NEW w \in Vectors(Nat)
  PROVE  L1norm(v, w) \in Nat /\ L1norm(v, v) = 0
  BY DEF L1norm, Magnitude, Vectors

(* The componentwise comparison is a partial order on cells.               *)
LEMMA ComponentwiseOrder ==
  ASSUME NEW u \in Vectors(Nat), NEW v \in Vectors(Nat), NEW w \in Vectors(Nat)
  PROVE  /\ ComponentwiseCompare(v, v)
         /\ ComponentwiseCompare(u, v) /\ ComponentwiseCompare(v, w)
              => ComponentwiseCompare(u, w)
         /\ ComponentwiseCompare(u, v) /\ ComponentwiseCompare(v, u) => u = v
  BY DEF ComponentwiseCompare, Vectors

(* A nonempty stack is its front with its last element.                    *)
LEMMA StackTop ==
  ASSUME NEW s \in Seq(Vertices), s # <<>>
  PROVE  /\ Last(s) \in Vertices /\ Front(s) \in Seq(Vertices)
         /\ Len(s) \in 1 .. Len(s) /\ Last(s) = s[Len(s)]
         /\ Len(Front(s)) = Len(s) - 1
         /\ \A i \in 1 .. Len(Front(s)) : i \in 1 .. Len(s) /\ Front(s)[i] = s[i]
<1>1. Len(s) \in Nat /\ Len(s) > 0
  OBVIOUS
<1>2. Last(s) = s[Len(s)] /\ Last(s) \in Vertices
  BY <1>1 DEF Last
<1>3. /\ Front(s) \in Seq(Vertices) /\ Len(Front(s)) = Len(s) - 1
      /\ \A i \in 1 .. Len(s) - 1 : Front(s)[i] = s[i]
  <2> DEFINE n == Len(s) - 1
  <2>1. n \in Nat /\ \A i \in 1 .. n : s[i] \in Vertices
    BY <1>1
  <2> HIDE DEF n
  <2>2. /\ SubSeq(s, 1, n) \in Seq(Vertices)
        /\ Len(SubSeq(s, 1, n)) = IF 1 <= n THEN n - 1 + 1 ELSE 0
        /\ \A i \in 1 .. n - 1 + 1 : SubSeq(s, 1, n)[i] = s[1 + i - 1]
    BY <2>1, SubSeqProperties
  <2>3. /\ Len(SubSeq(s, 1, n)) = n
        /\ \A i \in 1 .. n : SubSeq(s, 1, n)[i] = s[i]
    BY <2>1, <2>2
  <2> QED BY <2>2, <2>3 DEF Front, n
<1> QED BY <1>1, <1>2, <1>3

----------------------------------------------------------------------------
(* The variables keep to their types.                                      *)

LEMMA TypingStep == TypeOK /\ [Next]_vars => TypeOK'
<1> SUFFICES ASSUME TypeOK, [Next]_vars PROVE TypeOK'
  OBVIOUS
<1> USE CoordAssumption, DistsAssumption, VerticesAssumption DEF TypeOK
<1>1. ASSUME NEW v \in Vertices, Discover(v) PROVE TypeOK'
  <2>1. /\ stack' = Append(stack, v)
        /\ stack' \in Seq(Vertices) /\ stack' # <<>>
    BY <1>1 DEF Discover
  <2>2. CASE Eligible(v)
    <3>1. Coord[v] \in Vectors(Nat) /\ Coord[query.start] \in Vectors(Nat)
      OBVIOUS
    <3>2. L1norm(Coord[v], Coord[query.start]) \in Nat
      BY <3>1, L1normNat
    <3>3. ll' \in Vectors(Nat) /\ ur' \in Vectors(Nat)
      BY <1>1, <2>2, <3>1 DEF Discover, Update
    <3>4. ul' \in Vectors(Nat) /\ lr' \in Vectors(Nat)
      <4>1. /\ ll'.x \in Nat /\ ll'.y \in Nat
            /\ ul.y \in Nat /\ ul.z \in Nat /\ lr.x \in Nat /\ lr.z \in Nat
            /\ Coord[v].x \in Nat /\ Coord[v].y \in Nat /\ Coord[v].z \in Nat
        BY <3>1, <3>3 DEF Vectors
      <4>2. \A a, b \in Nat : Larger(a, b) \in Nat /\ Smaller(a, b) \in Nat
        BY DEF Larger, Smaller
      <4>3. /\ ul' = Vec(ll'.x, Larger(ul.y, Coord[v].y), Larger(ul.z, Coord[v].z))
            /\ lr' = Vec(Larger(lr.x, Coord[v].x), ll'.y, Smaller(lr.z, Coord[v].z))
        BY <1>1, <2>2 DEF Discover, Update
      <4> HIDE DEF TypeOK
      <4> QED BY <4>1, <4>2, <4>3 DEF Vec, Vectors
    <3>5. distances' \in [Vertices -> Int]
      BY <1>1, <2>2, <3>2 DEF Discover, Update
    <3> QED BY <1>1, <2>1, <3>3, <3>4, <3>5 DEF Discover
  <2>3. CASE ~Eligible(v)
    BY <1>1, <2>1, <2>3 DEF Discover, corners
  <2> QED BY <2>2, <2>3
<1>2. ASSUME NEW v \in Vertices, Overrun(v) PROVE TypeOK'
  BY <1>2 DEF Overrun, corners
<1>3. ASSUME Finish PROVE TypeOK'
  <2>1. stack # <<>>
    BY <1>3 DEF Finish
  <2>2. /\ Front(stack) \in Seq(Vertices) /\ Last(stack) \in Vertices
        /\ Len(stack) \in Nat /\ Len(Front(stack)) = Len(stack) - 1
    BY <2>1, StackTop
  <2>3. Len(stack) # 1 => Front(stack) # <<>>
    BY <2>2
  <2> QED BY <1>3, <2>2, <2>3 DEF Finish, corners
<1>4. ASSUME List PROVE TypeOK'
  BY <1>4 DEF List, corners
<1>5. ASSUME UNCHANGED vars PROVE TypeOK'
  BY <1>5 DEF vars, corners
<1> QED BY <1>1, <1>2, <1>3, <1>4, <1>5 DEF Next

(* The values the variables take, for every graph and query.               *)
THEOREM Typing == Spec => []TypeOK
<1>1. Init => TypeOK
  BY CoordAssumption DEF Init, TypeOK, Zero, Vec, Vectors
<1> QED BY <1>1, TypingStep, PTL DEF Spec

----------------------------------------------------------------------------
(* The content of a view.  The invariant is that of a depth-first search:  *)
(* gray vertices are on the stack, an eligible black vertex has no white   *)
(* neighbour, and the vertices found lie in every closed set.              *)

Found == {v \in Vertices : color[v] # "white" /\ Eligible(v)}

Colors ==
  /\ pc = "start" =>
       stack = <<>> /\ \A v \in Vertices : color[v] = "white"
  /\ pc \in {"view", "done"} => stack = <<>>
  /\ pc \in {"visit", "view", "done"} => color[query.start] # "white"
  /\ \A i \in 1 .. Len(stack) : color[stack[i]] # "white"
  /\ \A v \in Vertices :
       color[v] = "gray" => \E i \in 1 .. Len(stack) : stack[i] = v
  /\ \A v \in Vertices :
       color[v] = "black" /\ Eligible(v)
         => \A w \in graph[v] : color[w] # "white"

DistanceOf(v) == L1norm(Coord[v], Coord[query.start])

Distances ==
  \A v \in Vertices : distances[v] = IF v \in Found THEN DistanceOf(v) ELSE -1

Minimal == \A S \in SUBSET Vertices : Closed(S) => Found \subseteq S

Listed ==
  (pc = "done" /\ \A v \in Vertices : InBounds(v)) => listed = Included

ViewInv == TypeOK /\ Colors /\ Distances /\ Minimal /\ Listed

(* The start vertex is at distance 0 and in its own plane.                 *)
LEMMA StartEligible == TypeOK => Eligible(query.start)
<1> SUFFICES ASSUME TypeOK PROVE Eligible(query.start)
  OBVIOUS
<1>1. query.start \in Vertices /\ query.max \in Nat
  BY DistsAssumption DEF TypeOK
<1>2. Coord[query.start] \in Vectors(Nat)
  BY <1>1, CoordAssumption
<1>3. L1norm(Coord[query.start], Coord[query.start]) = 0
  BY <1>2, L1normNat
<1> QED BY <1>1, <1>3 DEF Eligible, SameAxis

(* The included vertices are the eligible ones that were reached.          *)
LEMMA IncludedIsFound == TypeOK /\ Distances => Included = Found
<1> SUFFICES ASSUME TypeOK, Distances PROVE Included = Found
  OBVIOUS
<1>1. \A v \in Vertices : DistanceOf(v) \in Nat
  BY CoordAssumption, L1normNat DEF TypeOK, DistanceOf
<1>2. \A v \in Vertices : distances[v] # -1 <=> v \in Found
  BY <1>1 DEF Distances
<1> QED BY <1>2 DEF Included, Found

(* A vertex that is discovered is white, and is the start vertex or a      *)
(* neighbour of a found one.                                               *)
LEMMA DiscoveredNext ==
  ASSUME TypeOK, Colors, NEW v \in Vertices, Discover(v)
  PROVE  /\ color[v] = "white"
         /\ v = query.start \/ \E u \in Found : v \in graph[u]
         /\ pc = "start" => v = query.start
<1> USE DEF TypeOK
<1>1. CASE pc = "start"
  BY <1>1 DEF Discover, Frontier, Colors
<1>2. CASE pc = "visit" /\ Eligible(Last(stack))
  <2>1. /\ Last(stack) \in Vertices /\ Last(stack) = stack[Len(stack)]
        /\ Len(stack) \in 1 .. Len(stack)
    BY <1>2, StackTop
  <2>2. Last(stack) \in Found
    BY <1>2, <2>1 DEF Colors, Found
  <2> QED BY <1>2, <2>2 DEF Discover, Frontier
<1>3. CASE pc # "start" /\ ~(pc = "visit" /\ Eligible(Last(stack)))
  BY <1>3 DEF Discover, Frontier
<1> QED BY <1>1, <1>2, <1>3

LEMMA ColorsDiscover ==
  ASSUME TypeOK, Colors, NEW v \in Vertices, Discover(v)
  PROVE  Colors'
<1> USE DEF TypeOK
<1>1. /\ color[v] = "white"
      /\ pc = "start" => v = query.start
  BY DiscoveredNext
<1>2. /\ color' = [color EXCEPT ![v] = "gray"] /\ stack' = Append(stack, v)
      /\ pc' = "visit" /\ query' = query /\ graph' = graph
  BY DEF Discover
<1>3. /\ Len(stack') = Len(stack) + 1 /\ Len(stack) \in Nat
      /\ stack'[Len(stack) + 1] = v
      /\ \A i \in 1 .. Len(stack) : stack'[i] = stack[i] /\ stack[i] \in Vertices
  BY <1>2
<1>4. \A w \in Vertices : color'[w] = IF w = v THEN "gray" ELSE color[w]
  BY <1>2
<1>5. color'[query'.start] # "white"
  <2>1. pc \in {"start", "visit"}
    BY DEF Discover, Frontier
  <2> QED BY <1>1, <1>2, <1>4, <2>1 DEF Colors
<1>6. \A i \in 1 .. Len(stack') : color'[stack'[i]] # "white"
  <2> SUFFICES ASSUME NEW i \in 1 .. Len(stack')
               PROVE  color'[stack'[i]] # "white"
    OBVIOUS
  <2>1. CASE i = Len(stack) + 1
    BY <1>3, <1>4, <2>1
  <2>2. CASE i \in 1 .. Len(stack)
    BY <1>3, <1>4, <2>2, ZenonT(40) DEF Colors
  <2> QED BY <1>3, <2>1, <2>2
<1>7. ASSUME NEW w \in Vertices, color'[w] = "gray"
      PROVE  \E i \in 1 .. Len(stack') : stack'[i] = w
  <2>1. CASE w = v
    BY <1>3, <2>1
  <2>2. CASE w # v
    <3>1. PICK i \in 1 .. Len(stack) : stack[i] = w
      BY <1>4, <1>7, <2>2 DEF Colors
    <3>2. i \in 1 .. Len(stack') /\ stack'[i] = w
      BY <1>3, <3>1
    <3> QED BY <3>2
  <2> QED BY <2>1, <2>2
<1>8. ASSUME NEW w \in Vertices, color'[w] = "black", Eligible(w)',
             NEW u \in graph'[w]
      PROVE  color'[u] # "white"
  <2>1. color[w] = "black" /\ Eligible(w) /\ u \in graph[w] /\ u \in Vertices
    BY <1>2, <1>4, <1>8, GraphsAssumption DEF Eligible, SameAxis
  <2> QED BY <1>4, <2>1 DEF Colors
<1> QED BY <1>2, <1>5, <1>6, <1>7, <1>8 DEF Colors

LEMMA ColorsFinish ==
  ASSUME TypeOK, Colors, Finish
  PROVE  Colors' /\ Found' = Found
<1> USE DEF TypeOK
<1> DEFINE top == Last(stack)
<1>1. /\ top \in Vertices /\ top = stack[Len(stack)]
      /\ Len(stack) \in Nat /\ Len(stack) > 0
      /\ Len(Front(stack)) = Len(stack) - 1
      /\ \A i \in 1 .. Len(Front(stack)) :
           i \in 1 .. Len(stack) /\ Front(stack)[i] = stack[i]
      /\ Front(stack) \in Seq(Vertices)
  BY StackTop, SMTT(30) DEF Finish
<1>2. /\ color' = [color EXCEPT ![top] = "black"] /\ stack' = Front(stack)
      /\ pc = "visit" /\ pc' = IF Len(stack) = 1 THEN "view" ELSE "visit"
      /\ query' = query /\ graph' = graph
  BY DEF Finish
<1> HIDE DEF top
<1>3. \A w \in Vertices : color'[w] = IF w = top THEN "black" ELSE color[w]
  BY <1>1, <1>2
<1>4. color[top] # "white"
  BY <1>1 DEF Colors
<1>5. \A w \in Vertices : color'[w] = "white" <=> color[w] = "white"
  BY <1>3, <1>4
<1>6. pc' = "view" => stack' = <<>>
  <2>1. Len(stack) = 1 => Len(stack') = 0
    BY <1>1, <1>2
  <2>2. Len(stack') = 0 => stack' = <<>>
    BY <1>1, <1>2
  <2> QED BY <1>2, <2>1, <2>2
<1>7. \A i \in 1 .. Len(stack') : color'[stack'[i]] # "white"
  <2> SUFFICES ASSUME NEW i \in 1 .. Len(stack')
               PROVE  color'[stack'[i]] # "white"
    OBVIOUS
  <2>1. i \in 1 .. Len(stack) /\ stack'[i] = stack[i] /\ stack[i] \in Vertices
    BY <1>1, <1>2, SMTT(30)
  <2> QED BY <1>5, <2>1 DEF Colors
<1>8. ASSUME NEW w \in Vertices, color'[w] = "gray"
      PROVE  \E i \in 1 .. Len(stack') : stack'[i] = w
  <2>1. w # top /\ color[w] = "gray"
    BY <1>3, <1>8
  <2>2. PICK i \in 1 .. Len(stack) : stack[i] = w
    BY <2>1 DEF Colors
  <2>3. i # Len(stack)
    BY <1>1, <2>1, <2>2
  <2>4. i \in 1 .. Len(Front(stack))
    BY <1>1, <2>2, <2>3
  <2>5. Front(stack)[i] = w
    BY <1>1, <2>2, <2>4
  <2> QED BY <1>2, <2>4, <2>5
<1>9. ASSUME NEW w \in Vertices, color'[w] = "black", Eligible(w)',
             NEW u \in graph'[w]
      PROVE  color'[u] # "white"
  <2>1. u \in Vertices /\ u \in graph[w] /\ Eligible(w)
    BY <1>2, <1>9, GraphsAssumption DEF Eligible, SameAxis
  <2>2. CASE w = top
    <3>1. color[u] # "white"
      BY <1>2, <2>1, <2>2 DEF Finish, Frontier, top
    <3> QED BY <1>5, <2>1, <3>1
  <2>3. CASE w # top
    BY <1>3, <1>5, <1>9, <2>1, <2>3 DEF Colors
  <2> QED BY <2>2, <2>3
<1>10. color'[query'.start] # "white"
  BY <1>2, <1>5 DEF Colors
<1>11. Colors'
  BY <1>2, <1>6, <1>7, <1>8, <1>9, <1>10 DEF Colors
<1>12. Found' = Found
  BY <1>2, <1>5 DEF Found, Eligible, SameAxis
<1> QED BY <1>11, <1>12

(* What a discovery adds to the found vertices, and to their distances.    *)
LEMMA FoundDiscover ==
  ASSUME TypeOK, NEW v \in Vertices, Discover(v), color[v] = "white"
  PROVE  /\ Found' = IF Eligible(v) THEN Found \cup {v} ELSE Found
         /\ v \notin Found
         /\ distances' = IF Eligible(v)
                         THEN [distances EXCEPT ![v] = DistanceOf(v)]
                         ELSE distances
<1>1. \A w \in Vertices : Eligible(w)' <=> Eligible(w)
  BY DEF Discover, Eligible, SameAxis
<1>2. \A w \in Vertices : color'[w] = IF w = v THEN "gray" ELSE color[w]
  BY DEF Discover, TypeOK
<1>3. Found' = IF Eligible(v) THEN Found \cup {v} ELSE Found
  BY <1>1, <1>2 DEF Found
<1>4. distances' = IF Eligible(v)
                   THEN [distances EXCEPT ![v] = DistanceOf(v)]
                   ELSE distances
  BY DEF Discover, Update, DistanceOf
<1> QED BY <1>3, <1>4 DEF Found

LEMMA ViewStep == ViewInv /\ [Next]_vars => ViewInv'
<1> SUFFICES ASSUME ViewInv, [Next]_vars PROVE ViewInv'
  OBVIOUS
<1> USE DEF ViewInv
<1>0. TypeOK'
  BY TypingStep
<1>1. ASSUME NEW v \in Vertices, Discover(v) PROVE ViewInv'
  <2>1. /\ color[v] = "white"
        /\ v = query.start \/ \E u \in Found : v \in graph[u]
    BY <1>1, DiscoveredNext
  <2>2. /\ Found' = IF Eligible(v) THEN Found \cup {v} ELSE Found
        /\ distances' = IF Eligible(v)
                        THEN [distances EXCEPT ![v] = DistanceOf(v)]
                        ELSE distances
    BY <1>1, <2>1, FoundDiscover
  <2>3. query' = query /\ graph' = graph /\ pc' = "visit"
    BY <1>1 DEF Discover
  <2>4. Distances'
    <3>1. \A w \in Vertices : DistanceOf(w)' = DistanceOf(w)
      BY <2>3 DEF DistanceOf
    <3>2. \A w \in Vertices :
            distances'[w] = IF w = v /\ Eligible(v) THEN DistanceOf(v)
                                                    ELSE distances[w]
      BY <2>2 DEF TypeOK
    <3> QED BY <2>2, <3>1, <3>2 DEF Distances
  <2>5. Minimal'
    <3> SUFFICES ASSUME NEW S \in SUBSET Vertices, Closed(S)'
                 PROVE  Found' \subseteq S
      BY DEF Minimal
    <3>1. Closed(S)
      BY <2>3 DEF Closed, Eligible, SameAxis
    <3>2. Found \subseteq S
      BY <3>1 DEF Minimal
    <3>3. Eligible(v) => v \in S
      BY <2>1, <3>1, <3>2 DEF Closed
    <3> QED BY <2>2, <3>2, <3>3
  <2>6. Listed'
    BY <2>3 DEF Listed
  <2>7. Colors'
    BY <1>1, ColorsDiscover
  <2> QED BY <1>0, <2>4, <2>5, <2>6, <2>7
<1>2. ASSUME Finish PROVE ViewInv'
  <2>1. Colors' /\ Found' = Found
    BY <1>2, ColorsFinish
  <2>2. query' = query /\ graph' = graph /\ distances' = distances
        /\ pc' # "done"
    BY <1>2 DEF Finish
  <2>3. Distances'
    BY <2>1, <2>2 DEF Distances, DistanceOf
  <2>4. Minimal'
    BY <2>1, <2>2 DEF Minimal, Closed, Eligible, SameAxis
  <2>5. Listed'
    BY <2>2 DEF Listed
  <2> QED BY <1>0, <2>1, <2>3, <2>4, <2>5
<1>3. ASSUME NEW v \in Vertices, Overrun(v) PROVE ViewInv'
  <2>1. /\ query' = query /\ graph' = graph /\ distances' = distances
        /\ color' = color /\ stack' = stack /\ pc' = "undefined"
    BY <1>3 DEF Overrun
  <2>2. Found' = Found
    BY <2>1 DEF Found, Eligible, SameAxis
  <2>3. Colors'
    BY <2>1 DEF Colors, Eligible, SameAxis
  <2>4. Distances'
    BY <2>1, <2>2 DEF Distances, DistanceOf
  <2>5. Minimal'
    BY <2>1, <2>2 DEF Minimal, Closed, Eligible, SameAxis
  <2>6. Listed'
    BY <2>1 DEF Listed
  <2> QED BY <1>0, <2>3, <2>4, <2>5, <2>6
<1>4. ASSUME List PROVE ViewInv'
  <2>1. /\ query' = query /\ graph' = graph /\ distances' = distances
        /\ color' = color /\ stack' = stack /\ pc = "view" /\ pc' = "done"
    BY <1>4 DEF List
  <2>2. Found' = Found
    BY <2>1 DEF Found, Eligible, SameAxis
  <2>3. Colors'
    BY <2>1 DEF Colors, Eligible, SameAxis
  <2>4. Distances'
    BY <2>1, <2>2 DEF Distances, DistanceOf
  <2>5. Minimal'
    BY <2>1, <2>2 DEF Minimal, Closed, Eligible, SameAxis
  <2>6. Listed'
    <3> SUFFICES ASSUME \A v \in Vertices : InBounds(v)
                 PROVE  listed' = Included'
      BY <2>1 DEF Listed, InBounds, Capacity
    <3>1. listed' = {v \in Vertices : VertexFilter(v)}
      BY <1>4 DEF List
    <3>2. ASSUME NEW v \in Vertices
          PROVE  VertexFilter(v) <=> distances[v] # -1
      <4>1. DistanceOf(v) \in Nat
        BY CoordAssumption, L1normNat DEF TypeOK, DistanceOf
      <4>2. v \in Found => DistanceOf(v) <= query.max
        BY DEF Found, Eligible, DistanceOf
      <4>3. distances[v] = IF v \in Found THEN DistanceOf(v) ELSE -1
        BY DEF Distances
      <4> QED BY <4>1, <4>2, <4>3 DEF VertexFilter
    <3> QED BY <2>1, <3>1, <3>2 DEF Included
  <2> QED BY <1>0, <2>3, <2>4, <2>5, <2>6
<1>5. ASSUME UNCHANGED vars PROVE ViewInv'
  <2>1. /\ query' = query /\ graph' = graph /\ distances' = distances
        /\ color' = color /\ stack' = stack /\ pc' = pc /\ listed' = listed
    BY <1>5 DEF vars
  <2>2. Found' = Found
    BY <2>1 DEF Found, Eligible, SameAxis
  <2>3. Colors'
    BY <2>1 DEF Colors, Eligible, SameAxis
  <2>4. Distances'
    BY <2>1, <2>2 DEF Distances, DistanceOf
  <2>5. Minimal'
    BY <2>1, <2>2 DEF Minimal, Closed, Eligible, SameAxis
  <2>6. Listed'
    BY <2>1 DEF Listed, InBounds, Capacity, Included
  <2> QED BY <1>0, <2>3, <2>4, <2>5, <2>6
<1> QED BY <1>1, <1>2, <1>3, <1>4, <1>5 DEF Next

LEMMA ViewInit == Init => ViewInv
<1> SUFFICES ASSUME Init PROVE ViewInv
  OBVIOUS
<1>1. TypeOK
  BY CoordAssumption DEF Init, TypeOK, Zero, Vec, Vectors
<1>2. Found = {} /\ Distances
  BY DEF Init, Found, Distances
<1>3. Colors
  BY DEF Init, Colors
<1> QED BY <1>1, <1>2, <1>3 DEF ViewInv, Minimal, Listed, Init

(* In every finished view the invariant gives the exact content.           *)
LEMMA ViewInvExact == ViewInv => ViewExact
<1> SUFFICES ASSUME ViewInv PROVE ViewExact
  OBVIOUS
<1> USE DEF ViewInv
<1>1. Included = Found
  BY IncludedIsFound
<1>2. ASSUME pc \in {"view", "done"} PROVE Closed(Included)
  <2>1. query.start \in Found
    BY <1>2, StartEligible DEF Found, Colors, TypeOK
  <2>2. ASSUME NEW v \in Found, NEW w \in graph[v], Eligible(w)
        PROVE  w \in Found
    <3>1. v \in Vertices /\ w \in Vertices
      BY GraphsAssumption DEF Found, TypeOK
    <3>2. stack = <<>>
      BY <1>2 DEF Colors
    <3>3. color[v] # "gray"
      BY <3>1, <3>2 DEF Colors
    <3>4. color[v] = "black" /\ Eligible(v)
      BY <3>1, <3>3 DEF Found, TypeOK
    <3> QED BY <2>2, <3>1, <3>4 DEF Colors, Found
  <2> QED BY <1>1, <2>1, <2>2 DEF Closed
<1> QED BY <1>1, <1>2 DEF ViewExact, Minimal, Listed

(* For every graph, start vertex, distance and mask, a view holds exactly  *)
(* the connected part of the eligible vertices around the start vertex.    *)
THEOREM ViewIsExact == Spec => []ViewExact
<1> QED BY ViewInit, ViewStep, ViewInvExact, PTL DEF Spec

----------------------------------------------------------------------------
(* The corners.  A vertex becomes a corner by replacing a smaller (larger) *)
(* one, and the order is transitive.                                       *)

CornersInv ==
  /\ pc = "start" => Found = {} /\ ll = Coord[query.start]
                                /\ ur = Coord[query.start]
  /\ pc \in {"visit", "view", "done"} =>
       /\ \E v \in Found : Coord[v] = ll
       /\ \E v \in Found : Coord[v] = ur
       /\ \A v \in Found :
            /\ ComponentwiseCompare(Coord[v], ll) => Coord[v] = ll
            /\ ComponentwiseCompare(ur, Coord[v]) => Coord[v] = ur

LEMMA CornersDiscover ==
  ASSUME ViewInv, CornersInv, NEW v \in Vertices, Discover(v)
  PROVE  CornersInv'
<1> DEFINE c == Coord[v]
<1> USE DEF ViewInv
<1>1. /\ color[v] = "white"
      /\ pc = "start" => v = query.start
      /\ pc \in {"start", "visit"} /\ pc' = "visit"
  BY DiscoveredNext DEF Discover, Frontier
<1>2. CASE ~Eligible(v)
  <2>1. pc # "start"
    BY <1>1, <1>2, StartEligible
  <2>2. Found' = Found /\ ll' = ll /\ ur' = ur
    BY <1>1, <1>2, FoundDiscover DEF Discover, corners
  <2> QED BY <1>1, <2>1, <2>2 DEF CornersInv
<1>3. CASE Eligible(v)
  <2>1. Found' = Found \cup {v}
    BY <1>1, <1>3, FoundDiscover
  <2>2. /\ ll' = IF ComponentwiseCompare(c, ll) THEN c ELSE ll
        /\ ur' = IF ComponentwiseCompare(ur, c) THEN c ELSE ur
    BY <1>3 DEF Discover, Update
  <2>3. /\ c \in Vectors(Nat) /\ ll \in Vectors(Nat) /\ ur \in Vectors(Nat)
        /\ \A w \in Found : Coord[w] \in Vectors(Nat)
    BY CoordAssumption DEF TypeOK, Found
  <2> HIDE DEF c
  <2>4. CASE pc = "start"
    <3>1. Found' = {v} /\ ll' = c /\ ur' = c
      BY <1>1, <2>1, <2>2, <2>4 DEF CornersInv, c
    <3> QED BY <1>1, <3>1 DEF CornersInv, c
  <2>5. CASE pc = "visit"
    <3>1. \E w \in Found' : Coord[w] = ll'
      BY <2>1, <2>2, <2>5 DEF CornersInv, c
    <3>2. \E w \in Found' : Coord[w] = ur'
      BY <2>1, <2>2, <2>5 DEF CornersInv, c
    <3>3. ASSUME NEW w \in Found', ComponentwiseCompare(Coord[w], ll')
          PROVE  Coord[w] = ll'
      <4>1. CASE w = v
        BY <2>2, <2>3, <3>3, <4>1, ComponentwiseOrder DEF c
      <4>2. CASE w \in Found /\ ComponentwiseCompare(c, ll)
        <5>1. ComponentwiseCompare(Coord[w], c) /\ ll' = c
          BY <2>2, <3>3, <4>2
        <5>2. ComponentwiseCompare(Coord[w], ll)
          BY <2>3, <4>2, <5>1, ComponentwiseOrder
        <5>3. Coord[w] = ll
          BY <2>5, <4>2, <5>2 DEF CornersInv
        <5> QED BY <2>3, <4>2, <5>1, <5>3, ComponentwiseOrder
      <4>3. CASE w \in Found /\ ~ComponentwiseCompare(c, ll)
        BY <2>2, <2>5, <3>3, <4>3 DEF CornersInv
      <4> QED BY <2>1, <4>1, <4>2, <4>3
    <3>4. ASSUME NEW w \in Found', ComponentwiseCompare(ur', Coord[w])
          PROVE  Coord[w] = ur'
      <4>1. CASE w = v
        BY <2>2, <2>3, <3>4, <4>1, ComponentwiseOrder DEF c
      <4>2. CASE w \in Found /\ ComponentwiseCompare(ur, c)
        <5>1. ComponentwiseCompare(c, Coord[w]) /\ ur' = c
          BY <2>2, <3>4, <4>2
        <5>2. ComponentwiseCompare(ur, Coord[w])
          BY <2>3, <4>2, <5>1, ComponentwiseOrder
        <5>3. Coord[w] = ur
          BY <2>5, <4>2, <5>2 DEF CornersInv
        <5> QED BY <2>3, <4>2, <5>1, <5>3, ComponentwiseOrder
      <4>3. CASE w \in Found /\ ~ComponentwiseCompare(ur, c)
        BY <2>2, <2>5, <3>4, <4>3 DEF CornersInv
      <4> QED BY <2>1, <4>1, <4>2, <4>3
    <3> QED BY <1>1, <3>1, <3>2, <3>3, <3>4 DEF CornersInv
  <2> QED BY <1>1, <2>4, <2>5
<1> QED BY <1>2, <1>3

LEMMA CornersStep == ViewInv /\ CornersInv /\ [Next]_vars => CornersInv'
<1> SUFFICES ASSUME ViewInv, CornersInv, [Next]_vars PROVE CornersInv'
  OBVIOUS
<1>1. ASSUME NEW v \in Vertices, Discover(v) PROVE CornersInv'
  BY <1>1, CornersDiscover
<1>2. ASSUME NEW v \in Vertices, Overrun(v) PROVE CornersInv'
  BY <1>2 DEF Overrun, CornersInv
<1>3. ASSUME Finish PROVE CornersInv'
  <2>1. Found' = Found
    BY <1>3, ColorsFinish DEF ViewInv
  <2>2. ll' = ll /\ ur' = ur /\ pc = "visit" /\ pc' \in {"view", "visit"}
    BY <1>3 DEF Finish, corners
  <2> QED BY <2>1, <2>2 DEF CornersInv
<1>4. ASSUME List PROVE CornersInv'
  <2>1. ll' = ll /\ ur' = ur /\ pc = "view" /\ pc' = "done" /\ Found' = Found
    BY <1>4 DEF List, corners, Found, Eligible, SameAxis
  <2> QED BY <2>1 DEF CornersInv
<1>5. ASSUME UNCHANGED vars PROVE CornersInv'
  <2>1. ll' = ll /\ ur' = ur /\ pc' = pc /\ query' = query /\ Found' = Found
    BY <1>5 DEF vars, corners, Found, Eligible, SameAxis
  <2> QED BY <2>1 DEF CornersInv
<1> QED BY <1>1, <1>2, <1>3, <1>4, <1>5 DEF Next

LEMMA CornersInvExtremal == ViewInv /\ CornersInv => CornersExtremal
  BY IncludedIsFound DEF ViewInv, CornersInv, CornersExtremal, ViewContains

(* The corners of a view are cells of it, and none of its cells is beyond  *)
(* them in every dimension.                                                *)
THEOREM CornersAreExtremal == Spec => []CornersExtremal
<1>1. Init => CornersInv
  BY DEF Init, CornersInv, Found
<1> QED BY <1>1, ViewInit, ViewStep, CornersStep, CornersInvExtremal, PTL
        DEF Spec

----------------------------------------------------------------------------
(* Vectors as keys.                                                        *)
(* key_compare of integers is a strict total order: maps and sets with     *)
(* vectors as keys tell any two of them apart.                             *)
THEOREM KeysAreOrdered ==
  ASSUME NEW u \in Vectors(Int), NEW v \in Vectors(Int),
         NEW w \in Vectors(Int)
  PROVE  /\ ~KeyCompare(u, u)
         /\ KeyCompare(u, v) /\ KeyCompare(v, w) =>
              KeyCompare(u, w)
         /\ KeyCompare(u, v) \/ KeyCompare(v, u) \/ u = v
<1>1. u = v <=> u.x = v.x /\ u.y = v.y /\ u.z = v.z
  BY DEF Vectors
<1>2. QED
  BY <1>1 DEF KeyCompare, Vectors

(* With the tolerance it is that order too, on keys whose first two        *)
(* coordinates are each equal or further apart than the tolerance ...      *)
THEOREM SeparatedKeysAreOrdered ==
  ASSUME NEW eps \in Nat,
         NEW u \in Vectors(Int), NEW v \in Vectors(Int),
         u.x = v.x \/ ~Near(eps, u.x, v.x),
         u.y = v.y \/ ~Near(eps, u.y, v.y)
  PROVE  KeyCompareWithin(eps, u, v) <=> KeyCompare(u, v)
  BY DEF KeyCompareWithin, KeyCompare, Near,
         Magnitude, Vectors

(* ... but no order at all on others, whatever the tolerance is: there are *)
(* three keys of which each comes before the next, in a circle.            *)
THEOREM NearKeysFormACircle ==
  ASSUME NEW eps \in Nat, eps > 0
  PROVE  \E u, v, w \in Vectors(Int) :
           /\ KeyCompareWithin(eps, u, v)
           /\ KeyCompareWithin(eps, v, w)
           /\ KeyCompareWithin(eps, w, u)
<1> DEFINE u == Vec(0, 2 * eps + 2, 0)
           v == Vec(2 * eps, 0, 0)
           w == Vec(eps, eps + 1, 0)
<1>1. /\ u \in Vectors(Int) /\ v \in Vectors(Int)
      /\ w \in Vectors(Int)
  BY DEF Vec, Vectors
<1>2. KeyCompareWithin(eps, u, v)
  BY DEF KeyCompareWithin, Near, Magnitude, Vec
<1>3. KeyCompareWithin(eps, v, w)
  BY DEF KeyCompareWithin, Near, Magnitude, Vec
<1>4. KeyCompareWithin(eps, w, u)
  BY DEF KeyCompareWithin, Near, Magnitude, Vec
<1> HIDE DEF u, v, w
<1>5. QED
  BY <1>1, <1>2, <1>3, <1>4

(* bounding_box: the centre of a box that is not empty is one of its       *)
(* cells.                                                                  *)
THEOREM CenterIsInside ==
  ASSUME NEW dims \in Vectors(Nat \ {0}),
         NEW anchor \in Vectors(Nat)
  PROVE  BoxCenter(Box(dims, anchor))
           \in BoxCells(Box(dims, anchor))
  BY DEF BoxCenter, BoxCells, Box, Span, Plus,
         Over, Vec, Vectors
=============================================================================

----------------------------- MODULE MCGridView -----------------------------
(* Two layers of 2 x 2 cells and a ninth cell beside them: complete, and   *)
(* with walls.  A distance of 1 makes vectors of 8 elements, one too few   *)
(* for this graph; a distance of 0 makes empty ones.                       *)
EXTENDS GridView

MCVertices == 0 .. 8
MCCoord ==
  [v \in MCVertices |->
     IF v = 8 THEN Vec(2, 0, 1) ELSE Vec(v % 2, (v \div 2) % 2, 1 + v \div 4)]
Grid == [v \in MCVertices |->
           {w \in MCVertices : L1norm(MCCoord[v], MCCoord[w]) = 1}]
Walled == [v \in MCVertices |->
             {w \in Grid[v] : {v, w} \notin {{0, 1}, {0, 4}, {3, 7}}}]
MCGraphs == {Grid, Walled}
MCMasks == {Vec(1, 0, 0), Vec(0, 0, 1)}
=============================================================================

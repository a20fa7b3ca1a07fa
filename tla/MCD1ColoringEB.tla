--------------------------- MODULE MCD1ColoringEB ---------------------------
(***************************************************************************)
(* Two colours to a word, so that a triangle needs more than one; K4 with  *)
(* a word full of colours of the caller; a path and a square, whose edges  *)
(* race for every vertex; colours of the caller that are in conflict;      *)
(* worklists that are compacted at once and never.                         *)
(***************************************************************************)
EXTENDS D1ColoringEB

GraphOf(E) == [v \in V |-> {u \in V : {u, v} \in E}]
Path     == GraphOf({{0, 1}, {1, 2}, {2, 3}})
Triangle == GraphOf({{0, 1}, {0, 2}, {1, 2}, {2, 3}})
K4       == [v \in V |-> V \ {v}]
Square   == GraphOf({{0, 1}, {1, 2}, {2, 3}, {3, 0}})

None == [v \in V |-> 0]
On(g, c, min) == [adj |-> g, colors |-> c, ps_min |-> min, pps_cutoff |-> 35]

MCProblems ==
  {On(Path, None, 0), On(Triangle, None, 0), On(Triangle, None, 1000),
   On(Square, None, 0), On(K4, [v \in V |-> IF v < 2 THEN v + 1 ELSE 0], 0),
   On(Path, [v \in V |-> IF v < 3 THEN 3 ELSE 0], 0)}
=============================================================================

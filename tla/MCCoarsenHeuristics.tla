------------------------- MODULE MCCoarsenHeuristics -------------------------
(***************************************************************************)
(* HEC on a ring, on a path next to vertices without edges, and on a graph *)
(* with a self loop; GOSHv2 on a star with a long tail, whose end is left  *)
(* for the rounds; Match on a ring with a chord and on a path with a self  *)
(* loop; MtMetis on a star whose leaves are left over, and on a triangle   *)
(* with two tails, whose third vertex is related to the ends of both.      *)
(* All choices of hn.                                                      *)
(***************************************************************************)
EXTENDS CoarsenHeuristics

GraphOf(m, E) == [u \in 0 .. m - 1 |-> {v \in 0 .. m - 1 : <<u, v>> \in E \/ <<v, u>> \in E}]
Straight(g) == [u \in DOMAIN g |-> u]
Shuffled(g) == [u \in DOMAIN g |-> (3 * u + 1) % Cardinality(DOMAIN g)]
On(h, g, o) == [heuristic |-> h, adj |-> g, ordering |-> o]

Ring   == GraphOf(4, {<<0, 1>>, <<1, 2>>, <<2, 3>>, <<3, 0>>})
Chord  == GraphOf(4, {<<0, 1>>, <<1, 2>>, <<2, 3>>, <<3, 0>>, <<1, 3>>})
Loop   == GraphOf(4, {<<0, 1>>, <<1, 2>>, <<2, 2>>, <<2, 3>>})
Apart  == GraphOf(4, {<<0, 1>>, <<1, 2>>})
Tail   == GraphOf(8, {<<0, 1>>, <<0, 2>>, <<0, 3>>, <<3, 4>>, <<4, 5>>, <<5, 6>>, <<6, 7>>})
Star   == GraphOf(5, {<<2, 0>>, <<2, 1>>, <<2, 3>>, <<2, 4>>})
Bull   == GraphOf(5, {<<0, 1>>, <<0, 2>>, <<0, 3>>, <<1, 3>>, <<1, 4>>})

MCProblems ==
  {On("HEC", Ring, Straight(Ring)), On("HEC", Ring, Shuffled(Ring)), On("HEC", Loop, Straight(Loop)),
   On("HEC", Apart, Shuffled(Apart)), On("GOSHv2", Tail, Straight(Tail)),
   On("Match", Chord, Shuffled(Chord)), On("Match", Loop, Straight(Loop)),
   On("MtMetis", Star, Straight(Star)), On("MtMetis", Bull, Straight(Bull))}
=============================================================================

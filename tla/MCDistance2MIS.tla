--------------------------- MODULE MCDistance2MIS ---------------------------
(***************************************************************************)
(* Both algorithms on a path, on a ring (all degrees equal) and on a star; *)
(* aggregation also where a vertex of a primary aggregate is next to the   *)
(* root of a secondary one, and of more aggregates than it can track.      *)
(* Column n is not a row.  Three vertices: numVerts + 1 needs one bit more *)
(* than numVerts.  The hashes are all zeros and all ones.                  *)
(***************************************************************************)
EXTENDS Distance2MIS, SequencesExt

RowsOf(m, E) == [u \in 0 .. m - 1 |-> SetToSortSeq({v \in 0 .. m : <<u, v>> \in E \/ <<v, u>> \in E}, <)]

Path(m) == RowsOf(m, {<<u, u + 1>> : u \in 0 .. m - 2} \union {<<0, m>>})
Ring(m) == RowsOf(m, {<<u, (u + 1) % m>> : u \in 0 .. m - 1})
Star    == RowsOf(5, {<<2, 0>>, <<2, 1>>, <<2, 2>>, <<2, 3>>})
\* with the root 0, vertex 1 ends in the aggregate of 3, and 5 in that of 0
Fan     == RowsOf(6, {<<0, 1>>, <<1, 2>>, <<1, 3>>, <<1, 4>>, <<2, 3>>, <<3, 4>>, <<1, 5>>})

On(api_, g) == [api |-> api_, rows |-> g]

MCProblems ==
  {On("FAST", Path(6)), On("FAST", Ring(5)), On("FAST", Star), On("FAST", Ring(3)),
   On("QUALITY", Path(6)), On("QUALITY", Ring(5)), On("QUALITY", Star), On("QUALITY", Ring(3)),
   On("COARSEN", Path(5)), On("COARSEN", Star),
   On("AGGREGATE", Path(6)), On("AGGREGATE", Fan)}
=============================================================================

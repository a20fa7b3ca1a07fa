--------------------------- MODULE MCSpgemmNumeric ---------------------------
(***************************************************************************)
(* Two or three rows of C on a first map of two slots and two hashes and a *)
(* second of four of each.  A row of four columns fills both maps and      *)
(* borrows a chunk, a row of two columns needs none; a row on a chunk      *)
(* follows another.  The columns 0, 2, 4 and 8 meet in one list of the     *)
(* first map, 0, 4 and 8 in one of the second, and every later entry has   *)
(* keys that are in a map next to keys that are not.                       *)
(***************************************************************************)
EXTENDS SpgemmNumeric

Large  == <<{0, 4, 8}, {0, 2, 4}, {2, 8}>>
Large2 == <<{0, 1, 5}, {0, 4, 5}>>
Three  == <<{0, 2}, {0, 2, 4}>>
Four   == <<{0, 2, 4, 8}, {4, 8}>>
Small  == <<{0, 4}, {0, 4}>>

MCProblems == {<<Large, Small>>, <<Four, Small>>, <<Small, Large2>>, <<Large2, Large>>, <<Three, <<>>, Large>>}
MCCols == {0, 1, 2, 4, 5, 8}
MCVal == <<1, 4, 16>>
MCKeySize == <<2, 4>>
MCHashSize == <<2, 4>>
=============================================================================

------------------------- MODULE MCSpgemmTeamNumeric -------------------------
(***************************************************************************)
(* Three lanes on a first table of four slots, which is full enough with   *)
(* two columns.  Times 107, the columns 0 to 3 start their probes there at *)
(* 0, 3, 2 and 1, the columns 4 and 5 at 0 and 3.  The rows of four or five*)
(* columns need both tables, and have the same column in products that are *)
(* inserted at once; the others fit the first.                             *)
(***************************************************************************)
EXTENDS SpgemmTeamNumeric

Wide  == << <<0, 1>>, <<4, 1>>, <<3, 1>>, <<4, 2>>, <<5, 2>>, <<1, 3>> >>
Wide2 == << <<1, 1>>, <<2, 1>>, <<1, 2>>, <<5, 2>>, <<0, 3>>, <<5, 3>> >>
Small == << <<0, 1>>, <<4, 1>>, <<0, 2>>, <<4, 2>> >>
Thrice == << <<0, 1>>, <<0, 2>>, <<0, 3>>, <<4, 1>> >>
Same  == << <<5, 1>>, <<5, 2>>, <<5, 3>>, <<1, 3>>, <<3, 3>> >>

MCProblems == {<<Wide>>, <<Wide2>>, <<Small, <<>>, Same>>, <<Thrice>>}
MCVal == <<1, 4, 16>>
MCTableSize == <<4, 8>>
=============================================================================

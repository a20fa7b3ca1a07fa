------------------------ MODULE MCUniformMemoryPool ------------------------
(***************************************************************************)
(* Three threads with the ids 0, 1 and 4 and two rows each on pools that   *)
(* ask for 2, 3 or 5 chunks.  Two chunks: more threads than chunks.  Three *)
(* chunks round up to four: the ids 0 and 4 start their searches at the    *)
(* same chunk, so a thread pushes another off its home, but there is a     *)
(* chunk for each.  Five round up to eight, where the ids are private and  *)
(* both pool types are legal.                                              *)
(***************************************************************************)
EXTENDS UniformMemoryPool

CONSTANTS t1, t2, t3

MCThreads == {t1, t2, t3}
MCThreadIndex == [t \in MCThreads |-> CASE t = t1 -> 0 [] t = t2 -> 1 [] t = t3 -> 4]
=============================================================================

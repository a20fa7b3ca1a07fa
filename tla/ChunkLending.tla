---------------------------- MODULE ChunkLending ----------------------------
(***************************************************************************)
(* What KokkosKernels::Impl::UniformMemoryPool promises the kernels that   *)
(* use it: a thread borrows a whole chunk that nobody else has and that    *)
(* still holds the initialisation value, works on it alone, and gives it   *)
(* back as it found it.  How a free chunk is found is left open.           *)
(***************************************************************************)
CONSTANTS Threads, Chunk, NoChunk

VARIABLES lent,    \* lent[t]: the chunk thread t has, or NoChunk
          soiled   \* the chunks that no longer hold the initialisation value

Init == /\ lent = [t \in Threads |-> NoChunk]
        /\ soiled = {}

\* t is given a chunk that is free and clean
Take(t) == /\ lent[t] = NoChunk
           /\ \E c \in Chunk \ soiled :
                 /\ \A u \in Threads : lent[u] # c
                 /\ lent' = [lent EXCEPT ![t] = c]
           /\ UNCHANGED soiled

\* t writes to its own chunk, or resets what it wrote
Work(t) == /\ lent[t] # NoChunk
           /\ soiled' \in {soiled \union {lent[t]}, soiled \ {lent[t]}}
           /\ UNCHANGED lent

\* t gives its chunk back, and only a clean one
Return(t) == /\ lent[t] \notin soiled \union {NoChunk}
             /\ lent' = [lent EXCEPT ![t] = NoChunk]
             /\ UNCHANGED soiled

Next == \E t \in Threads : Take(t) \/ Work(t) \/ Return(t)

Spec == Init /\ [][Next]_<<lent, soiled>>
=============================================================================

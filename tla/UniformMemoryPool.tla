-------------------------- MODULE UniformMemoryPool --------------------------
(***************************************************************************)
(* common/src/KokkosKernels_Uniform_Initialized_MemoryPool.hpp: the pool   *)
(* of equally sized, initialised chunks from which the threads of a kernel *)
(* borrow their hash maps and dense accumulators, one row at a time.       *)
(*                                                                         *)
(* Every compare-exchange on a chunk lock is a step of its own, so the     *)
(* searches and releases of the threads interleave freely.  The memory of  *)
(* a chunk is abstracted to the set of threads whose values are in it: the *)
(* empty set is the initialisation value.                                  *)
(*                                                                         *)
(* The rows, the work and the reset belong to the kernels (the loop the    *)
(* header's comment prescribes, lines 103-126); a thread has a finite      *)
(* number of rows, as every parallel_for has.                              *)
(***************************************************************************)
EXTENDS Naturals, FiniteSets

CONSTANTS
  Threads,     \* the threads of one kernel launch
  thread_index,\* thread_index[t]: the id that t passes to allocate_chunk
  SetCounts,   \* the chunk counts asked of the constructor
  Rows,        \* rows that a thread processes
  NoChunk      \* the chunk of a thread that has none

(***************************************************************************)
(* The constructor rounds the count up to a power of two, so that the      *)
(* mask  & modular_num_chunks  is the remainder modulo num_chunks.         *)
(***************************************************************************)
PowersOfTwo(n) == {p \in 1 .. 2 * n + 1 : \E k \in 0 .. n : p = 2 ^ k}

RoundsUp(p, n) == /\ p \in PowersOfTwo(n)
                  /\ n <= p
                  /\ \A q \in PowersOfTwo(n) : n <= q => p <= q

RoundUp(n) == CHOOSE p \in PowersOfTwo(n) : RoundsUp(p, n)

AllChunks == UNION {0 .. RoundUp(n) - 1 : n \in SetCounts}

ASSUME ThreadAssumption == thread_index \in [Threads -> Nat] /\ IsFiniteSet(Threads)
ASSUME RowsAssumption == Rows \in Nat
ASSUME NoChunkAssumption == NoChunk \notin Nat
\* every number has a least power of two above it (1 for 0)
ASSUME CountAssumption ==
  /\ SetCounts \subseteq Nat
  /\ \A n \in SetCounts : \E p \in PowersOfTwo(n) : RoundsUp(p, n)

PoolType == {"OneThread2OneChunk", "ManyThread2OneChunk"}

VARIABLES
  pool_type,    \* fixed by the constructor
  num_chunks,   \* fixed by the constructor
  chunk_locks,  \* ManyThread2OneChunk: 0 free, 1 taken
  data,         \* data[c]: the threads whose values are in chunk c
  pc,           \* where each thread is
  chunk_index,  \* local of get_arbitrary_free_chunk, then the chunk t has
  num_try,      \* local of get_arbitrary_free_chunk
  rows,         \* rows left to thread t
  refused       \* history: the chunks that t's search in progress found taken

vars == <<pool_type, num_chunks, chunk_locks, data, pc, chunk_index, num_try, rows, refused>>
pool == <<pool_type, num_chunks>>

Modulo(i, n) == i % n

\* thread_index & modular_num_chunks
Home(t) == Modulo(thread_index[t], num_chunks)

\* The threads have chunks of their own when their ids differ in the mask: the
\* condition under which get_my_chunk returns a private chunk.
PrivateIds(n) == \A t, u \in Threads :
                   t # u => Modulo(thread_index[t], n) # Modulo(thread_index[u], n)

Init ==
  /\ pool_type \in PoolType
  /\ \E n \in SetCounts : num_chunks = RoundUp(n)
  /\ pool_type = "OneThread2OneChunk" => PrivateIds(num_chunks)
  /\ chunk_locks = [c \in AllChunks |-> 0]
  /\ data = [c \in AllChunks |-> {}]
  /\ pc = [t \in Threads |-> "row"]
  /\ chunk_index = [t \in Threads |-> 0]
  /\ num_try = [t \in Threads |-> 0]
  /\ rows = [t \in Threads |-> Rows]
  /\ refused = [t \in Threads |-> {}]

\* allocate_chunk, OneThread2OneChunk: the chunk of the thread, no lock
get_my_chunk(t) ==
  /\ pool_type = "OneThread2OneChunk"
  /\ pc[t] = "row" /\ rows[t] > 0
  /\ chunk_index' = [chunk_index EXCEPT ![t] = Home(t)]
  /\ pc' = [pc EXCEPT ![t] = "have"]
  /\ UNCHANGED <<pool, chunk_locks, data, num_try, rows, refused>>

\* allocate_chunk, ManyThread2OneChunk: the search starts at the thread's chunk
get_arbitrary_free_chunk(t) ==
  /\ pool_type = "ManyThread2OneChunk"
  /\ pc[t] = "row" /\ rows[t] > 0
  /\ chunk_index' = [chunk_index EXCEPT ![t] = Home(t)]
  /\ num_try' = [num_try EXCEPT ![t] = 0]
  /\ refused' = [refused EXCEPT ![t] = {}]
  /\ pc' = [pc EXCEPT ![t] = "search"]
  /\ UNCHANGED <<pool, chunk_locks, data, rows>>

\* a fetch_add in the place of the compare-exchange
MUT_FetchAdd(t) ==
  /\ pc[t] = "search"
  /\ chunk_locks' = [chunk_locks EXCEPT ![chunk_index[t]] = @ + 1]
  /\ pc' = [pc EXCEPT ![t] = "have"]
  /\ UNCHANGED <<pool, data, chunk_index, num_try, rows, refused>>

\* the compare-exchange finds 0 and stores 1
ExchangeSucceeds(t) ==
  /\ pc[t] = "search"
  /\ chunk_locks[chunk_index[t]] = 0
  /\ chunk_locks' = [chunk_locks EXCEPT ![chunk_index[t]] = 1]
  /\ pc' = [pc EXCEPT ![t] = "have"]
  /\ UNCHANGED <<pool, data, chunk_index, num_try, rows, refused>>

\* a search that gives up one try early, with its first chunk tried only once
MUT_OneTryLess(t) ==
  /\ pc[t] = "search"
  /\ chunk_locks[chunk_index[t]] = 1
  /\ chunk_index' = [chunk_index EXCEPT ![t] = Modulo(@ + 1, num_chunks)]
  /\ num_try' = [num_try EXCEPT ![t] = @ + 1]
  /\ pc' = [pc EXCEPT ![t] = IF num_try[t] + 1 >= num_chunks THEN "row" ELSE "search"]
  /\ refused' = [refused EXCEPT ![t] = @ \union {chunk_index[t]}]
  /\ UNCHANGED <<pool, chunk_locks, data, rows>>

\* the compare-exchange finds 1: the next chunk, or NULL after max_tries; the
\* caller that gets NULL calls again
ExchangeFails(t) ==
  /\ pc[t] = "search"
  /\ chunk_locks[chunk_index[t]] = 1
  /\ chunk_index' = [chunk_index EXCEPT ![t] = Modulo(@ + 1, num_chunks)]
  /\ num_try' = [num_try EXCEPT ![t] = @ + 1]
  /\ pc' = [pc EXCEPT ![t] = IF num_try[t] + 1 > num_chunks THEN "row" ELSE "search"]
  /\ refused' = [refused EXCEPT ![t] = @ \union {chunk_index[t]}]
  /\ UNCHANGED <<pool, chunk_locks, data, rows>>

\* the kernel fills the chunk it was given ...
Fill(t) ==
  /\ pc[t] = "have"
  /\ data' = [data EXCEPT ![chunk_index[t]] = @ \union {t}]
  /\ pc' = [pc EXCEPT ![t] = "filled"]
  /\ UNCHANGED <<pool, chunk_locks, chunk_index, num_try, rows, refused>>

\* ... and resets the entries it used
Reset(t) ==
  /\ pc[t] = "filled"
  /\ data' = [data EXCEPT ![chunk_index[t]] = @ \ {t}]
  /\ pc' = [pc EXCEPT ![t] = "reset"]
  /\ UNCHANGED <<pool, chunk_locks, chunk_index, num_try, rows, refused>>

\* a release that forgets the lock
MUT_KeepLocked(t) ==
  /\ pc[t] = "reset"
  /\ UNCHANGED chunk_locks
  /\ pc' = [pc EXCEPT ![t] = "row"]
  /\ rows' = [rows EXCEPT ![t] = @ - 1]
  /\ UNCHANGED <<pool, data, chunk_index, num_try, refused>>

\* the release before the reset: a chunk goes back with the thread's values
MUT_ReleaseEarly(t) ==
  /\ pc[t] = "filled"
  /\ chunk_locks' = [chunk_locks EXCEPT ![chunk_index[t]] = 0]
  /\ pc' = [pc EXCEPT ![t] = "row"]
  /\ rows' = [rows EXCEPT ![t] = @ - 1]
  /\ UNCHANGED <<pool, data, chunk_index, num_try, refused>>

\* release_chunk: a plain store of 0 to the lock, nothing to do for one chunk
\* per thread
release_chunk(t) ==
  /\ pc[t] = "reset"
  /\ chunk_locks' = IF pool_type = "ManyThread2OneChunk"
                    THEN [chunk_locks EXCEPT ![chunk_index[t]] = 0] ELSE chunk_locks
  /\ pc' = [pc EXCEPT ![t] = "row"]
  /\ rows' = [rows EXCEPT ![t] = @ - 1]
  /\ UNCHANGED <<pool, data, chunk_index, num_try, refused>>

Step(t) == \/ get_my_chunk(t) \/ get_arbitrary_free_chunk(t)
           \/ ExchangeSucceeds(t) \/ ExchangeFails(t)
           \/ Fill(t) \/ Reset(t) \/ release_chunk(t)

AllRowsDone == \A t \in Threads : rows[t] = 0

\* the kernel has ended
Finished == AllRowsDone /\ UNCHANGED vars

Next == (\E t \in Threads : Step(t)) \/ Finished

(***************************************************************************)
(* A thread that can move eventually moves: what the spinning callers      *)
(* (while (tmp == NULL) tmp = allocate_chunk(tid)) need of the execution   *)
(* space, and what threads of the host backends are given.                 *)
(***************************************************************************)
Spec == Init /\ [][Next]_vars
FairSpec == Spec /\ \A t \in Threads : WF_vars(Step(t))

-----------------------------------------------------------------------------
Has(t) == pc[t] \in {"have", "filled", "reset"}

TypeOK ==
  /\ pool_type \in PoolType
  /\ num_chunks \in {RoundUp(n) : n \in SetCounts}
  /\ chunk_locks \in [AllChunks -> {0, 1}]
  /\ data \in [AllChunks -> SUBSET Threads]
  /\ pc \in [Threads -> {"row", "search", "have", "filled", "reset"}]
  /\ chunk_index \in [Threads -> Nat]
  /\ num_try \in [Threads -> Nat]
  /\ rows \in [Threads -> 0 .. Rows]
  /\ refused \in [Threads -> SUBSET AllChunks]

\* No two threads have the same chunk at once, whichever way they got it and
\* whatever the searches and releases of the others (lines 289-305, 330-353).
PrivateChunk ==
  \A t, u \in Threads : Has(t) /\ Has(u) /\ chunk_index[t] = chunk_index[u] => t = u

\* The memory that allocate_chunk returns holds the initialisation value, and
\* nothing of another thread appears in it before it is released: what "as long
\* as threads reset the memory they use" (lines 141-144) is to guarantee.
InitializedMemory ==
  \A t \in Threads :
    Has(t) => data[chunk_index[t]] = IF pc[t] = "filled" THEN {t} ELSE {}

\* allocate_chunk returns NULL (lines 294-302) only to a thread that has found
\* every chunk of the pool taken and stands at its first one, about to be
\* refused it a second time; and that happens only with more threads than
\* chunks: with a chunk for every thread no order of searches and releases
\* sends a thread round the whole pool.
NullAfterFullSweep ==
  [][\A t \in Threads :
       pc[t] = "search" /\ pc'[t] = "row" =>
         /\ refused[t] = 0 .. num_chunks - 1
         /\ chunk_index[t] = Home(t)
         /\ Cardinality(Threads) > num_chunks]_vars

\* No chunk is lost: a lock that is set has a thread that will clear it.
LockHasOwner ==
  pool_type = "ManyThread2OneChunk" =>
    \A c \in AllChunks :
      chunk_locks[c] = 1 <=> \E t \in Threads : Has(t) /\ chunk_index[t] = c

\* With more threads than chunks, every thread gets its chunk for every row.
EveryRowProcessed == <>AllRowsDone

\* The pool implements the lending of private, initialised chunks.
lentTo == [t \in Threads |-> IF Has(t) THEN chunk_index[t] ELSE NoChunk]
soiledChunks == {c \in AllChunks : data[c] # {}}
Lending == INSTANCE ChunkLending WITH Chunk <- AllChunks, lent <- lentTo, soiled <- soiledChunks
LendsInitializedChunks == Lending!Spec
=============================================================================

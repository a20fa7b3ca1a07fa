---------------------- MODULE UniformMemoryPool_proofs ----------------------
(***************************************************************************)
(* For every set of threads, every thread_index and every list of chunk    *)
(* counts: the pool never lends a chunk twice, what it lends holds the     *)
(* initialisation value, no lock is lost, the pool implements ChunkLending,*)
(* and allocate_chunk returns NULL only after a full round of the pool, and*)
(* never while there is a chunk for every thread.                          *)
(***************************************************************************)
EXTENDS UniformMemoryPool, FiniteSetTheorems, WellFoundedInduction, TLAPS

-----------------------------------------------------------------------------
\* A thread that searches or has a chunk stands at a chunk of the pool.
PositionOK == \A t \in Threads :
                Has(t) \/ pc[t] = "search" => chunk_index[t] \in 0 .. num_chunks - 1

\* With one thread per chunk nobody searches, and a thread has its home chunk.
HomeOnly == pool_type = "OneThread2OneChunk" =>
              /\ PrivateIds(num_chunks)
              /\ \A t \in Threads : pc[t] # "search"
              /\ \A t \in Threads : Has(t) => chunk_index[t] = Home(t)

\* A chunk holds the values of exactly the threads that have it filled.
DataOfFillers == \A c \in AllChunks, t \in Threads :
                   t \in data[c] <=> pc[t] = "filled" /\ chunk_index[t] = c

\* Only a thread with a row left searches or has a chunk.
RowLeft == \A t \in Threads : pc[t] # "row" => rows[t] > 0

\* The inductive invariant.
IInv == /\ TypeOK
        /\ PositionOK
        /\ HomeOnly
        /\ PrivateChunk
        /\ LockHasOwner
        /\ DataOfFillers
        /\ RowLeft

-----------------------------------------------------------------------------
LEMMA ModuloInRange ==
  ASSUME NEW i \in Nat, NEW n \in Nat \ {0}
  PROVE  Modulo(i, n) \in 0 .. n - 1
  BY DEF Modulo

\* The constructor's rounding gives a positive number of chunks.
LEMMA RoundUpPositive ==
  ASSUME NEW n \in SetCounts
  PROVE  /\ RoundUp(n) \in Nat \ {0}
         /\ 0 .. RoundUp(n) - 1 \subseteq AllChunks
  <1>1. PICK p \in PowersOfTwo(n) : RoundsUp(p, n)
    BY CountAssumption
  <1>2. RoundUp(n) \in PowersOfTwo(n)
    BY <1>1 DEF RoundUp
  <1>3. n \in Nat
    BY CountAssumption
  <1>4. RoundUp(n) \in Nat \ {0}
    BY <1>2, <1>3 DEF PowersOfTwo
  <1> QED
    BY <1>4 DEF AllChunks

LEMMA ChunkCount ==
  ASSUME TypeOK
  PROVE  /\ num_chunks \in Nat \ {0}
         /\ 0 .. num_chunks - 1 \subseteq AllChunks
  <1>1. PICK n \in SetCounts : num_chunks = RoundUp(n)
    BY DEF TypeOK
  <1> QED
    BY <1>1, RoundUpPositive

LEMMA HomeInRange ==
  ASSUME TypeOK, NEW t \in Threads
  PROVE  Home(t) \in 0 .. num_chunks - 1
  BY ChunkCount, ModuloInRange, ThreadAssumption DEF Home

LEMMA InitEstablishes == Init => IInv
  <1> SUFFICES ASSUME Init PROVE IInv
    OBVIOUS
  <1>1. TypeOK
    BY RowsAssumption DEF Init, TypeOK
  <1>2. \A t \in Threads : pc[t] = "row"
    BY DEF Init
  <1>3. \A c \in AllChunks : chunk_locks[c] = 0 /\ data[c] = {}
    BY DEF Init
  <1> QED
    BY <1>1, <1>2, <1>3 DEF Init, IInv, PositionOK, HomeOnly, PrivateChunk, LockHasOwner,
       DataOfFillers, RowLeft, Has

\* Every action of a thread keeps the inductive invariant.
LEMMA StepPreserves ==
  ASSUME IInv, NEW t \in Threads, Step(t)
  PROVE  IInv'
  <1> USE DEF IInv
  <1>a. /\ num_chunks \in Nat \ {0}
        /\ 0 .. num_chunks - 1 \subseteq AllChunks
    BY ChunkCount
  <1>b. Home(t) \in 0 .. num_chunks - 1
    BY HomeInRange
  <1>c. Home(t) \in Nat /\ \A u \in Threads : Has(u) => chunk_index[u] \in AllChunks
    BY <1>a, <1>b DEF PositionOK
  <1>1. CASE get_my_chunk(t)
    <2>1. TypeOK'
      BY <1>1, <1>c DEF get_my_chunk, pool, TypeOK
    <2>2. PositionOK'
      BY <1>1, <1>b DEF get_my_chunk, pool, TypeOK, PositionOK, Has
    <2>3. HomeOnly'
      BY <1>1 DEF get_my_chunk, pool, TypeOK, HomeOnly, Has, Home, PrivateIds
    <2>4. PrivateChunk'
      <3>1. \A u \in Threads : Has(u)' => chunk_index'[u] = Home(u)
        BY <1>1 DEF get_my_chunk, TypeOK, HomeOnly, Has
      <3>2. \A u, v \in Threads : u # v => Home(u) # Home(v)
        BY <1>1 DEF get_my_chunk, HomeOnly, PrivateIds, Home
      <3> QED
        BY <3>1, <3>2 DEF PrivateChunk
    <2>5. LockHasOwner'
      BY <1>1 DEF get_my_chunk, pool, LockHasOwner
    <2>6. DataOfFillers'
      BY <1>1 DEF get_my_chunk, TypeOK, DataOfFillers
    <2>7. RowLeft'
      BY <1>1 DEF get_my_chunk, pool, TypeOK, RowLeft
    <2> QED
      BY <2>1, <2>2, <2>3, <2>4, <2>5, <2>6, <2>7
  <1>2. CASE get_arbitrary_free_chunk(t)
    <2>1. TypeOK'
      BY <1>2, <1>c DEF get_arbitrary_free_chunk, pool, TypeOK
    <2>2. PositionOK'
      BY <1>2, <1>b DEF get_arbitrary_free_chunk, pool, TypeOK, PositionOK, Has
    <2>3. HomeOnly'
      BY <1>2 DEF get_arbitrary_free_chunk, pool, HomeOnly
    <2>4. /\ \A u \in Threads : Has(u)' <=> Has(u)
          /\ \A u \in Threads : Has(u) => chunk_index'[u] = chunk_index[u]
      BY <1>2 DEF get_arbitrary_free_chunk, TypeOK, Has
    <2>5. PrivateChunk'
      BY <2>4 DEF PrivateChunk
    <2>6. LockHasOwner'
      BY <1>2, <2>4 DEF get_arbitrary_free_chunk, pool, LockHasOwner
    <2>7. DataOfFillers'
      BY <1>2 DEF get_arbitrary_free_chunk, TypeOK, DataOfFillers
    <2>8. RowLeft'
      BY <1>2 DEF get_arbitrary_free_chunk, pool, TypeOK, RowLeft
    <2> QED
      BY <2>1, <2>2, <2>3, <2>5, <2>6, <2>7, <2>8
  <1>3. CASE ExchangeSucceeds(t)
    <2>0. chunk_index[t] \in AllChunks /\ pool_type = "ManyThread2OneChunk"
      BY <1>3, <1>a DEF ExchangeSucceeds, PositionOK, HomeOnly, TypeOK, PoolType
    <2>1. TypeOK'
      BY <1>3 DEF ExchangeSucceeds, pool, TypeOK
    <2>2. PositionOK'
      BY <1>3 DEF ExchangeSucceeds, pool, TypeOK, PositionOK, Has
    <2>3. HomeOnly'
      BY <1>3, <2>0 DEF ExchangeSucceeds, pool, HomeOnly
    <2>4. \A u \in Threads : Has(u)' <=> Has(u) \/ u = t
      BY <1>3 DEF ExchangeSucceeds, TypeOK, Has
    <2>5. \A u \in Threads : Has(u) => chunk_index[u] # chunk_index[t]
      BY <1>3, <2>0 DEF ExchangeSucceeds, LockHasOwner
    <2>6. PrivateChunk'
      BY <1>3, <2>4, <2>5 DEF ExchangeSucceeds, PrivateChunk
    <2>7. LockHasOwner'
      BY <1>3, <2>0, <2>4 DEF ExchangeSucceeds, pool, TypeOK, LockHasOwner
    <2>8. DataOfFillers'
      BY <1>3 DEF ExchangeSucceeds, TypeOK, DataOfFillers
    <2>9. RowLeft'
      BY <1>3 DEF ExchangeSucceeds, pool, TypeOK, RowLeft
    <2> QED
      BY <2>1, <2>2, <2>3, <2>6, <2>7, <2>8, <2>9
  <1>4. CASE ExchangeFails(t)
    <2>0. /\ pool_type = "ManyThread2OneChunk"
          /\ Modulo(chunk_index[t] + 1, num_chunks) \in 0 .. num_chunks - 1
      BY <1>4, <1>a, ModuloInRange DEF ExchangeFails, HomeOnly, TypeOK, PoolType
    <2>1. TypeOK'
      <3>1. chunk_index[t] \in AllChunks
        BY <1>4, <1>a DEF ExchangeFails, PositionOK
      <3>2. refused' \in [Threads -> SUBSET AllChunks]
        BY <1>4, <3>1 DEF ExchangeFails, TypeOK
      <3> QED
        BY <1>4, <2>0, <1>a, <3>2 DEF ExchangeFails, pool, TypeOK
    <2>2. PositionOK'
      BY <1>4, <2>0 DEF ExchangeFails, pool, TypeOK, PositionOK, Has
    <2>3. HomeOnly'
      BY <1>4, <2>0 DEF ExchangeFails, pool, HomeOnly
    <2>4. /\ \A u \in Threads : Has(u)' <=> Has(u)
          /\ \A u \in Threads : Has(u) => chunk_index'[u] = chunk_index[u]
      BY <1>4 DEF ExchangeFails, TypeOK, Has
    <2>5. PrivateChunk'
      BY <2>4 DEF PrivateChunk
    <2>6. LockHasOwner'
      BY <1>4, <2>4 DEF ExchangeFails, pool, LockHasOwner
    <2>7. DataOfFillers'
      BY <1>4 DEF ExchangeFails, TypeOK, DataOfFillers
    <2>8. RowLeft'
      BY <1>4 DEF ExchangeFails, pool, TypeOK, RowLeft
    <2> QED
      BY <2>1, <2>2, <2>3, <2>5, <2>6, <2>7, <2>8
  <1>5. CASE Fill(t) \/ Reset(t)
    <2>1. TypeOK'
      BY <1>5 DEF Fill, Reset, pool, TypeOK
    <2>2. \A u \in Threads : Has(u)' <=> Has(u)
      BY <1>5 DEF Fill, Reset, TypeOK, Has
    <2>3. PositionOK'
      BY <1>5, <2>2 DEF Fill, Reset, pool, TypeOK, PositionOK
    <2>4. HomeOnly'
      BY <1>5, <2>2 DEF Fill, Reset, pool, TypeOK, HomeOnly, Home, PrivateIds
    <2>5. PrivateChunk'
      BY <1>5, <2>2 DEF Fill, Reset, PrivateChunk
    <2>6. LockHasOwner'
      BY <1>5, <2>2 DEF Fill, Reset, pool, LockHasOwner
    <2>7. DataOfFillers'
      BY <1>5 DEF Fill, Reset, TypeOK, DataOfFillers
    <2>8. RowLeft'
      BY <1>5 DEF Fill, Reset, pool, TypeOK, RowLeft
    <2> QED
      BY <2>1, <2>3, <2>4, <2>5, <2>6, <2>7, <2>8
  <1>6. CASE release_chunk(t)
    <2>0. Has(t) /\ chunk_index[t] \in AllChunks
      BY <1>6, <1>c DEF release_chunk, Has
    <2>1. TypeOK'
      <3>1. rows[t] \in 0 .. Rows /\ rows[t] > 0
        BY <1>6 DEF release_chunk, TypeOK, RowLeft
      <3>2. rows[t] - 1 \in 0 .. Rows
        BY <3>1, RowsAssumption
      <3>3. rows' \in [Threads -> 0 .. Rows]
        BY <1>6, <3>2 DEF release_chunk, TypeOK
      <3>4. chunk_locks' \in [AllChunks -> {0, 1}]
        BY <1>6 DEF release_chunk, TypeOK
      <3> QED
        BY <1>6, <3>3, <3>4 DEF release_chunk, pool, TypeOK
    <2>2. \A u \in Threads : Has(u)' <=> Has(u) /\ u # t
      BY <1>6 DEF release_chunk, TypeOK, Has
    <2>3. PositionOK'
      BY <1>6, <2>2 DEF release_chunk, pool, TypeOK, PositionOK
    <2>4. HomeOnly'
      BY <1>6, <2>2 DEF release_chunk, pool, TypeOK, HomeOnly, Home, PrivateIds
    <2>5. PrivateChunk'
      BY <1>6, <2>2 DEF release_chunk, PrivateChunk
    <2>6. LockHasOwner'
      BY <1>6, <2>0, <2>2 DEF release_chunk, pool, TypeOK, LockHasOwner, PrivateChunk
    <2>7. DataOfFillers'
      BY <1>6 DEF release_chunk, TypeOK, DataOfFillers
    <2>8. RowLeft'
      BY <1>6 DEF release_chunk, pool, TypeOK, RowLeft
    <2> QED
      BY <2>1, <2>3, <2>4, <2>5, <2>6, <2>7, <2>8
  <1> QED
    BY <1>1, <1>2, <1>3, <1>4, <1>5, <1>6 DEF Step

LEMMA NextPreserves == IInv /\ [Next]_vars => IInv'
  <1> SUFFICES ASSUME IInv, [Next]_vars PROVE IInv'
    OBVIOUS
  <1>1. CASE UNCHANGED vars
    BY <1>1 DEF vars, pool, IInv, TypeOK, PositionOK, HomeOnly, PrivateChunk, LockHasOwner,
       DataOfFillers, RowLeft, Has, Home
  <1>2. CASE \E t \in Threads : Step(t)
    BY <1>2, StepPreserves
  <1> QED
    BY <1>1, <1>2 DEF Next, Finished

LEMMA Inductive == Spec => []IInv
  BY InitEstablishes, NextPreserves, PTL DEF Spec

-----------------------------------------------------------------------------
\* The variables keep their types, whatever the threads do.
THEOREM TypeCorrect == Spec => []TypeOK
  <1>1. IInv => TypeOK
    BY DEF IInv
  <1> QED
    BY <1>1, Inductive, PTL

\* No chunk is ever lent to two threads, for either pool type.
THEOREM ChunksArePrivate == Spec => []PrivateChunk
  <1>1. IInv => PrivateChunk
    BY DEF IInv
  <1> QED
    BY <1>1, Inductive, PTL

\* A lock that is set always has exactly the thread that will clear it.
THEOREM NoLockIsLost == Spec => []LockHasOwner
  <1>1. IInv => LockHasOwner
    BY DEF IInv
  <1> QED
    BY <1>1, Inductive, PTL

LEMMA InitializedFromIInv == IInv => InitializedMemory
  <1> SUFFICES ASSUME IInv, NEW t \in Threads, Has(t)
               PROVE  data[chunk_index[t]] = IF pc[t] = "filled" THEN {t} ELSE {}
    BY DEF InitializedMemory
  <1>1. chunk_index[t] \in AllChunks
    BY ChunkCount DEF IInv, PositionOK
  <1>2. data[chunk_index[t]] \subseteq Threads
    BY <1>1 DEF IInv, TypeOK
  <1>3. \A u \in Threads : u \in data[chunk_index[t]] =>
                             u = t /\ pc[t] = "filled"
    BY <1>1 DEF IInv, DataOfFillers, PrivateChunk, Has
  <1>4. pc[t] = "filled" => t \in data[chunk_index[t]]
    BY <1>1 DEF IInv, DataOfFillers
  <1> QED
    BY <1>2, <1>3, <1>4

\* A thread is lent initialised memory, and finds in it only what it wrote.
THEOREM MemoryIsInitialized == Spec => []InitializedMemory
  BY InitializedFromIInv, Inductive, PTL

-----------------------------------------------------------------------------
(***************************************************************************)
(* The search: num_try steps after its home chunk.                         *)
(***************************************************************************)
LEMMA RemainderIsUnique ==
  ASSUME NEW i \in Nat, NEW n \in Nat \ {0}, NEW q \in Nat, NEW r \in 0 .. n - 1,
         i = n * q + r
  PROVE  Modulo(i, n) = r
  BY SMTT(30) DEF Modulo

LEMMA NoRemainder ==
  ASSUME NEW i \in Nat, NEW n \in Nat \ {0}, NEW q \in Nat, i = n * q
  PROVE  Modulo(i, n) = 0
  BY SMTT(30) DEF Modulo

\* (chunk_index + 1) & modular_num_chunks: the next chunk, or the first
LEMMA NextChunk ==
  ASSUME NEW n \in Nat \ {0}, NEW c \in 0 .. n - 1
  PROVE  Modulo(c + 1, n) = IF c + 1 = n THEN 0 ELSE c + 1
  <1>1. CASE c + 1 < n
    <2>1. c + 1 = n * 0 + (c + 1) /\ c + 1 \in 0 .. n - 1
      BY <1>1
    <2> QED
      BY <1>1, <2>1, RemainderIsUnique
  <1>2. CASE c + 1 = n
    <2>1. n = n * 1
      OBVIOUS
    <2>2. Modulo(n, n) = 0
      BY <2>1, NoRemainder
    <2> QED
      BY <1>2, <2>2
  <1> QED
    BY <1>1, <1>2

\* How far chunk x is behind chunk c in the cyclic order of the search.
Behind(c, x) == IF c <= x THEN x - c ELSE x + num_chunks - c

\* The chunk i steps after chunk c, for at most one round.
After(c, i) == IF c + i < num_chunks THEN c + i ELSE c + i - num_chunks

\* A search stands num_try steps after its home chunk, was refused the chunks
\* in between, and has not passed its home a second time.
SearchOK ==
  pool_type = "ManyThread2OneChunk" =>
    \A t \in Threads : pc[t] # "row" =>
      /\ num_try[t] <= num_chunks
      /\ chunk_index[t] = After(Home(t), num_try[t])
      /\ refused[t] = {c \in 0 .. num_chunks - 1 : Behind(Home(t), c) < num_try[t]}

LEMMA SearchStep ==
  ASSUME num_chunks \in Nat \ {0},
         NEW h \in 0 .. num_chunks - 1, NEW k \in 0 .. num_chunks - 1
  PROVE  /\ After(h, k) \in 0 .. num_chunks - 1
         /\ Modulo(After(h, k) + 1, num_chunks) = After(h, k + 1)
         /\ {c \in 0 .. num_chunks - 1 : Behind(h, c) < k + 1}
              = {c \in 0 .. num_chunks - 1 : Behind(h, c) < k} \union {After(h, k)}
  <1>1. After(h, k) \in 0 .. num_chunks - 1
    BY DEF After
  <1>2. Modulo(After(h, k) + 1, num_chunks) = IF After(h, k) + 1 = num_chunks THEN 0
                                                          ELSE After(h, k) + 1
    BY <1>1, NextChunk
  <1>3. (IF After(h, k) + 1 = num_chunks THEN 0 ELSE After(h, k) + 1) = After(h, k + 1)
    BY DEF After
  <1>4. \A c \in 0 .. num_chunks - 1 : Behind(h, c) < k + 1 <=> Behind(h, c) < k \/ c = After(h, k)
    BY DEF Behind, After
  <1> QED
    BY <1>1, <1>2, <1>3, <1>4

LEMMA SearchPreserved == IInv /\ SearchOK /\ [Next]_vars => SearchOK'
  <1> SUFFICES ASSUME IInv, SearchOK, [Next]_vars PROVE SearchOK'
    OBVIOUS
  <1>0. /\ num_chunks \in Nat \ {0} /\ num_chunks' = num_chunks /\ pool_type' = pool_type
        /\ \A u \in Threads : Home(u) \in 0 .. num_chunks - 1
    <2>1. num_chunks' = num_chunks /\ pool_type' = pool_type
      BY DEF Next, Finished, Step, vars, pool, get_my_chunk, get_arbitrary_free_chunk,
         ExchangeSucceeds, ExchangeFails, Fill, Reset, release_chunk
    <2> QED
      BY <2>1, ChunkCount, HomeInRange DEF IInv
  <1>h. /\ \A u \in Threads : Home(u)' = Home(u)
        /\ \A c, i : After(c, i)' = After(c, i) /\ Behind(c, i)' = Behind(c, i)
    BY <1>0 DEF Home, After, Behind
  <1>1. ASSUME NEW t \in Threads, get_arbitrary_free_chunk(t) PROVE SearchOK'
    <2> SUFFICES ASSUME pool_type = "ManyThread2OneChunk",
                        NEW u \in Threads, pc'[u] # "row"
                 PROVE  /\ num_try'[u] <= num_chunks
                        /\ chunk_index'[u] = After(Home(u), num_try'[u])
                        /\ refused'[u] = {c \in 0 .. num_chunks - 1 :
                                            Behind(Home(u), c) < num_try'[u]}
      BY <1>0, <1>h DEF SearchOK
    <2>1. CASE u # t
      BY <1>1, <2>1 DEF get_arbitrary_free_chunk, IInv, TypeOK, SearchOK
    <2>2. CASE u = t
      <3>1. num_try'[t] = 0 /\ chunk_index'[t] = Home(t) /\ refused'[t] = {}
        BY <1>1 DEF get_arbitrary_free_chunk, IInv, TypeOK
      <3>2. \A c \in 0 .. num_chunks - 1 : ~(Behind(Home(t), c) < 0)
        BY <1>0 DEF Behind
      <3>3. After(Home(t), 0) = Home(t)
        BY <1>0 DEF After
      <3> QED
        BY <1>0, <2>2, <3>1, <3>2, <3>3
    <2> QED
      BY <2>1, <2>2
  <1>2. ASSUME NEW t \in Threads, ExchangeFails(t) PROVE SearchOK'
    <2> SUFFICES ASSUME pool_type = "ManyThread2OneChunk",
                        NEW u \in Threads, pc'[u] # "row"
                 PROVE  /\ num_try'[u] <= num_chunks
                        /\ chunk_index'[u] = After(Home(u), num_try'[u])
                        /\ refused'[u] = {c \in 0 .. num_chunks - 1 :
                                            Behind(Home(u), c) < num_try'[u]}
      BY <1>0, <1>h DEF SearchOK
    <2>1. CASE u # t
      BY <1>2, <2>1 DEF ExchangeFails, IInv, TypeOK, SearchOK
    <2>2. CASE u = t
      <3>1. /\ chunk_index[t] = After(Home(t), num_try[t])
            /\ num_try[t] \in Nat
            /\ refused[t] = {c \in 0 .. num_chunks - 1 : Behind(Home(t), c) < num_try[t]}
        BY <1>2 DEF ExchangeFails, IInv, TypeOK, SearchOK
      <3>2. /\ num_try'[t] = num_try[t] + 1
            /\ chunk_index'[t] = Modulo(chunk_index[t] + 1, num_chunks)
            /\ refused'[t] = refused[t] \union {chunk_index[t]}
            /\ ~(num_try[t] + 1 > num_chunks)
        BY <1>2, <2>2 DEF ExchangeFails, IInv, TypeOK
      <3>3. num_try[t] \in 0 .. num_chunks - 1
        BY <1>0, <3>1, <3>2
      <3>4. /\ Modulo(chunk_index[t] + 1, num_chunks) = After(Home(t), num_try[t] + 1)
            /\ refused[t] \union {chunk_index[t]}
                 = {c \in 0 .. num_chunks - 1 : Behind(Home(t), c) < num_try[t] + 1}
        <4>1. Home(t) \in 0 .. num_chunks - 1
          BY <1>0
        <4>2. /\ Modulo(After(Home(t), num_try[t]) + 1, num_chunks)
                   = After(Home(t), num_try[t] + 1)
              /\ {c \in 0 .. num_chunks - 1 : Behind(Home(t), c) < num_try[t] + 1}
                   = {c \in 0 .. num_chunks - 1 : Behind(Home(t), c) < num_try[t]}
                       \union {After(Home(t), num_try[t])}
          BY <1>0, <3>3, <4>1, SearchStep
        <4> QED
          BY <3>1, <4>2
      <3> QED
        BY <1>0, <2>2, <3>2, <3>3, <3>4
    <2> QED
      BY <2>1, <2>2
  <1>3. ASSUME NEW t \in Threads,
               \/ get_my_chunk(t) \/ ExchangeSucceeds(t)
               \/ Fill(t) \/ Reset(t) \/ release_chunk(t)
        PROVE  SearchOK'
    <2>1. CASE get_my_chunk(t)
      BY <1>0, <2>1 DEF get_my_chunk, SearchOK
    <2>2. CASE ~get_my_chunk(t)
      <3>1. \A u \in Threads : pc'[u] # "row" =>
              /\ pc[u] # "row" /\ chunk_index'[u] = chunk_index[u]
              /\ num_try'[u] = num_try[u] /\ refused'[u] = refused[u]
        BY <1>3, <2>2 DEF ExchangeSucceeds, Fill, Reset, release_chunk, IInv, TypeOK
      <3> QED
        BY <1>0, <1>h, <3>1 DEF SearchOK
    <2> QED
      BY <2>1, <2>2 DEF SearchOK
  <1>4. CASE UNCHANGED vars
    BY <1>0, <1>h, <1>4 DEF vars, pool, SearchOK
  <1> QED
    BY <1>1, <1>2, <1>3, <1>4 DEF Next, Finished, Step

-----------------------------------------------------------------------------
(***************************************************************************)
(* With a chunk for every thread no search goes round the pool.  Cut the   *)
(* cyclic order of the chunks at a chunk such that no final part of the    *)
(* round from there holds the homes of more threads than it has chunks.    *)
(* Then no final part ever holds more threads than chunks: a thread enters *)
(* it only when it is refused the chunk before, whose holder is then still *)
(* outside.  So no thread is refused the last chunk before the cut.        *)
(***************************************************************************)
Place(cut, t) == IF pc[t] = "row" THEN Behind(cut, Home(t))
                                  ELSE Behind(cut, Home(t)) + num_try[t]

From(cut, i) == {t \in Threads : i <= Place(cut, t)}

Uncrowded(cut) == \A i \in 0 .. num_chunks : Cardinality(From(cut, i)) <= num_chunks - i

RoomForAll ==
  pool_type = "ManyThread2OneChunk" /\ Cardinality(Threads) <= num_chunks =>
    \E cut \in 0 .. num_chunks - 1 : Uncrowded(cut)

\* A set of numbers that is not empty has a least.
LEMMA LeastOf ==
  ASSUME NEW S \in SUBSET Nat, S # {}
  PROVE  \E b \in S : \A c \in S : b <= c
  <1> DEFINE R == OpToRel(<, Nat)
  <1>1. IsWellFoundedOn(R, Nat)
    BY NatLessThanWellFounded
  <1>2. \A b, c \in Nat : <<c, b>> \in R <=> c < b
    BY DEF OpToRel
  <1> HIDE DEF R
  <1>3. PICK b \in S : \A c \in S : ~ (<<c, b>> \in R)
    BY <1>1, WFMin
  <1>4. \A c \in S : b \in Nat /\ c \in Nat /\ ~ (c < b)
    BY <1>2, <1>3
  <1> QED
    BY <1>4

LEMMA FiniteSubset ==
  ASSUME NEW S \in SUBSET Threads
  PROVE  IsFiniteSet(S) /\ Cardinality(S) \in Nat
  BY ThreadAssumption, FS_Subset, FS_CardinalityType

LEMMA Monotone ==
  ASSUME NEW S \in SUBSET Threads, NEW T \in SUBSET S
  PROVE  Cardinality(T) <= Cardinality(S)
  BY FiniteSubset, FS_Subset

LEMMA Disjoint ==
  ASSUME NEW S \in SUBSET Threads, NEW T \in SUBSET Threads, S \cap T = {}
  PROVE  Cardinality(S \union T) = Cardinality(S) + Cardinality(T)
  <1>1. Cardinality(S \union T) = Cardinality(S) + Cardinality(T) - Cardinality({})
    BY FiniteSubset, FS_Union
  <1> QED
    BY <1>1, FiniteSubset, FS_EmptySet

\* The chunk to cut at: where the homes before it exceed the chunks before it
\* the least.
LEMMA CutExists ==
  ASSUME NEW n \in Nat \ {0}, num_chunks = n, Cardinality(Threads) <= n,
         \A t \in Threads : Home(t) \in 0 .. n - 1
  PROVE  \E cut \in 0 .. n - 1 : \A i \in 0 .. n :
           Cardinality({t \in Threads : i <= Behind(cut, Home(t))}) <= n - i
  <1> DEFINE Below(x) == {t \in Threads : Home(t) < x}
             f[x \in 0 .. n - 1] == Cardinality(Below(x)) + (n - x)
             S == {f[x] : x \in 0 .. n - 1}
  <1>1. \A x \in 0 .. n : Cardinality(Below(x)) \in Nat
    BY FiniteSubset
  <1>2. \A x \in 0 .. n - 1 : f[x] = Cardinality(Below(x)) + (n - x) /\ f[x] \in Nat
    BY <1>1
  <1>3. PICK cut \in 0 .. n - 1 : \A x \in 0 .. n - 1 : f[cut] <= f[x]
    <2> HIDE DEF f
    <2>1. S \in SUBSET Nat
      BY <1>2
    <2>2. 0 \in 0 .. n - 1
      OBVIOUS
    <2>3. f[0] \in S
      BY <2>2
    <2>4. PICK m \in S : \A k \in S : m <= k
      BY <2>1, <2>3, LeastOf
    <2> QED
      BY <2>4
  <1>4. \A x \in 0 .. n - 1 :
          Cardinality(Below(cut)) + (n - cut) <= Cardinality(Below(x)) + (n - x)
    BY <1>2, <1>3
  <1> HIDE DEF f, S
  <1>5. Cardinality(Below(cut)) <= cut
    <2>1. Below(0) = {}
      OBVIOUS
    <2>2. Cardinality(Below(0)) = 0
      BY <2>1, FS_EmptySet
    <2>3. Cardinality(Below(cut)) + (n - cut) <= Cardinality(Below(0)) + (n - 0)
      BY <1>4
    <2> HIDE DEF Below
    <2> QED
      BY <1>1, <2>2, <2>3
  <1> SUFFICES ASSUME NEW i \in 0 .. n
               PROVE  Cardinality({t \in Threads : i <= Behind(cut, Home(t))}) <= n - i
    BY <1>3
  <1> DEFINE G == {t \in Threads : i <= Behind(cut, Home(t))}
  <1> SUFFICES Cardinality(G) <= n - i
    OBVIOUS
  <1>6. Cardinality(Threads) \in Nat /\ Cardinality(G) \in Nat
    BY FiniteSubset
  <1>7. CASE cut + i <= n
    <2> DEFINE j == cut + i
    <2>1. G = (Threads \ Below(j)) \union Below(cut) /\ Below(cut) \subseteq Below(j)
      BY <1>7 DEF Behind
    <2>2. /\ (Threads \ Below(j)) \cap Below(cut) = {}
          /\ (Threads \ Below(j)) \cap Below(j) = {}
          /\ (Threads \ Below(j)) \union Below(j) = Threads
      BY <2>1
    <2>3. Cardinality(G) = Cardinality(Threads \ Below(j)) + Cardinality(Below(cut))
      BY <2>1, <2>2, Disjoint
    <2>4. Cardinality(Threads) = Cardinality(Threads \ Below(j)) + Cardinality(Below(j))
      BY <2>2, Disjoint
    <2>5. Cardinality(Threads \ Below(j)) \in Nat
      BY FiniteSubset
    <2>6. CASE j < n
      <3>1. j \in 0 .. n - 1
        BY <2>6
      <3>2. Cardinality(Below(cut)) + (n - cut) <= Cardinality(Below(j)) + (n - j)
        BY <1>4, <3>1
      <3> HIDE DEF Below, G
      <3> QED
        BY <1>1, <1>6, <2>3, <2>4, <2>5, <3>1, <3>2
    <2>7. CASE j = n
      <3>1. Threads \ Below(j) = {}
        BY <2>7
      <3>2. Cardinality(Threads \ Below(j)) = 0
        BY <3>1, FS_EmptySet
      <3> HIDE DEF Below, G
      <3> QED
        BY <1>1, <1>5, <1>6, <2>3, <2>7, <3>2
    <2> QED
      BY <1>7, <2>6, <2>7
  <1>8. CASE cut + i > n
    <2> DEFINE j == cut + i - n
    <2>1. /\ j \in 0 .. n - 1 /\ j <= cut
          /\ G = Below(cut) \ Below(j) /\ Below(j) \subseteq Below(cut)
      BY <1>8 DEF Behind
    <2>2. G \cap Below(j) = {} /\ G \union Below(j) = Below(cut)
      BY <2>1
    <2>3. Cardinality(Below(cut)) = Cardinality(G) + Cardinality(Below(j))
      BY <2>2, Disjoint
    <2>4. Cardinality(Below(cut)) + (n - cut) <= Cardinality(Below(j)) + (n - j)
      BY <1>4, <2>1
    <2> HIDE DEF Below, G
    <2> QED
      BY <1>1, <1>6, <2>1, <2>3, <2>4
  <1> QED
    BY <1>7, <1>8

LEMMA RoomInitially == Init => RoomForAll
  <1> SUFFICES ASSUME Init, Cardinality(Threads) <= num_chunks
               PROVE  \E cut \in 0 .. num_chunks - 1 : Uncrowded(cut)
    BY DEF RoomForAll
  <1>1. /\ num_chunks \in Nat \ {0}
        /\ \A t \in Threads : Home(t) \in 0 .. num_chunks - 1
    BY InitEstablishes, ChunkCount, HomeInRange DEF IInv
  <1>2. PICK cut \in 0 .. num_chunks - 1 : \A i \in 0 .. num_chunks :
          Cardinality({t \in Threads : i <= Behind(cut, Home(t))}) <= num_chunks - i
    BY <1>1, CutExists
  <1>3. \A i : From(cut, i) = {t \in Threads : i <= Behind(cut, Home(t))}
    BY DEF Init, From, Place
  <1> QED
    BY <1>2, <1>3 DEF Uncrowded

\* A thread that is not before the cut stands at the chunk of its place.
LEMMA PlaceIsPosition ==
  ASSUME IInv, SearchOK, pool_type = "ManyThread2OneChunk",
         NEW cut \in 0 .. num_chunks - 1, Uncrowded(cut), NEW t \in Threads
  PROVE  /\ Place(cut, t) \in 0 .. num_chunks - 1
         /\ pc[t] # "row" => chunk_index[t] = After(cut, Place(cut, t))
  <1>1. /\ num_chunks \in Nat \ {0} /\ num_try[t] \in Nat
        /\ Home(t) \in 0 .. num_chunks - 1
    BY ChunkCount, HomeInRange DEF IInv, TypeOK
  <1>2. Behind(cut, Home(t)) \in 0 .. num_chunks - 1
    BY <1>1 DEF Behind
  <1>3. Place(cut, t) \in Nat
    BY <1>1, <1>2 DEF Place
  <1>4. Place(cut, t) < num_chunks
    <2> SUFFICES ASSUME num_chunks <= Place(cut, t) PROVE FALSE
      BY <1>1, <1>3
    <2>1. From(cut, num_chunks) \subseteq Threads /\ t \in From(cut, num_chunks)
      BY DEF From
    <2>2. Cardinality(From(cut, num_chunks)) <= num_chunks - num_chunks
      BY <1>1 DEF Uncrowded
    <2>3. Cardinality(From(cut, num_chunks)) = 0
      BY <1>1, <2>1, <2>2, FiniteSubset
    <2>4. From(cut, num_chunks) = {}
      BY <2>1, <2>3, FiniteSubset, FS_EmptySet
    <2> QED
      BY <2>1, <2>4
  <1>5. ASSUME pc[t] # "row" PROVE chunk_index[t] = After(cut, Place(cut, t))
    <2>1. chunk_index[t] = After(Home(t), num_try[t])
      BY <1>5 DEF SearchOK
    <2>2. Place(cut, t) = Behind(cut, Home(t)) + num_try[t]
      BY <1>5 DEF Place
    <2> QED
      BY <1>1, <1>4, <2>1, <2>2 DEF After, Behind
  <1> QED
    BY <1>1, <1>3, <1>4, <1>5

\* A refused thread goes on one place: the holder of the chunk leaves room.
LEMMA RefusedHasRoom ==
  ASSUME IInv, SearchOK, pool_type = "ManyThread2OneChunk",
         NEW cut \in 0 .. num_chunks - 1, Uncrowded(cut),
         NEW t \in Threads, ExchangeFails(t)
  PROVE  LET i == Place(cut, t) + 1
         IN  /\ i \in 1 .. num_chunks
             /\ Cardinality(From(cut, i) \union {t}) <= num_chunks - i
  <1> DEFINE p == Place(cut, t)
             i == p + 1
  <1>1. num_chunks \in Nat \ {0} /\ p \in 0 .. num_chunks - 1
    BY ChunkCount, PlaceIsPosition DEF IInv
  <1>2. PICK q \in Threads : Has(q) /\ chunk_index[q] = chunk_index[t]
    <2>1. chunk_index[t] \in AllChunks
      BY ChunkCount DEF ExchangeFails, IInv, PositionOK
    <2> QED
      BY <2>1 DEF ExchangeFails, IInv, LockHasOwner
  <1>3. q # t /\ pc[q] # "row" /\ pc[t] # "row"
    BY <1>2 DEF ExchangeFails, Has
  <1>4. Place(cut, q) = p
    <2>1. /\ Place(cut, q) \in 0 .. num_chunks - 1
          /\ After(cut, Place(cut, q)) = After(cut, p)
      BY <1>2, <1>3, PlaceIsPosition
    <2> QED
      BY <1>1, <2>1 DEF After
  <1>5. /\ From(cut, i) \subseteq Threads /\ From(cut, p) \subseteq Threads
        /\ t \notin From(cut, i) /\ q \notin From(cut, i)
        /\ From(cut, i) \union {t, q} \subseteq From(cut, p)
    <2>1. \A u \in Threads : Place(cut, u) \in Nat
      BY PlaceIsPosition
    <2> QED
      BY <1>1, <1>4, <2>1 DEF From
  <1> HIDE DEF p, i
  <1>6. Cardinality({t, q}) = 2 /\ {t, q} \subseteq Threads
    <2>1. {t, q} = {t} \union {q} /\ {t} \cap {q} = {}
      BY <1>3
    <2>2. {t} \in SUBSET Threads /\ {q} \in SUBSET Threads
      OBVIOUS
    <2>3. Cardinality({t}) = 1 /\ Cardinality({q}) = 1
      BY FS_Singleton
    <2>4. Cardinality({t} \union {q}) = Cardinality({t}) + Cardinality({q})
      BY <2>1, <2>2, Disjoint
    <2> QED
      BY <2>1, <2>3, <2>4
  <1>7. Cardinality(From(cut, i) \union {t, q}) = Cardinality(From(cut, i)) + 2
    <2>1. From(cut, i) \cap {t, q} = {}
      BY <1>5
    <2> QED
      BY <1>5, <1>6, <2>1, Disjoint
  <1>8. Cardinality(From(cut, i)) + 2 <= num_chunks - p
    <2>1. Cardinality(From(cut, i) \union {t, q}) <= Cardinality(From(cut, p))
      BY <1>5, Monotone
    <2>2. Cardinality(From(cut, p)) <= num_chunks - p
      BY <1>1 DEF Uncrowded
    <2>3. Cardinality(From(cut, p)) \in Nat /\ Cardinality(From(cut, i)) \in Nat
      BY <1>5, FiniteSubset
    <2> QED
      BY <1>1, <1>7, <2>1, <2>2, <2>3
  <1>9. Cardinality(From(cut, i) \union {t}) = Cardinality(From(cut, i)) + 1
    BY <1>5, FiniteSubset, FS_AddElement
  <1>10. Cardinality(From(cut, i)) \in Nat /\ i = p + 1
    BY <1>5, FiniteSubset DEF i
  <1>11. i \in 1 .. num_chunks /\ Cardinality(From(cut, i) \union {t}) <= num_chunks - i
    BY <1>1, <1>8, <1>9, <1>10
  <1> QED
    BY <1>11 DEF i, p

LEMMA RoomPreserved == IInv /\ SearchOK /\ RoomForAll /\ [Next]_vars => RoomForAll'
  <1> SUFFICES ASSUME IInv, SearchOK, RoomForAll, [Next]_vars,
                      pool_type' = "ManyThread2OneChunk", Cardinality(Threads) <= num_chunks'
               PROVE  \E cut \in 0 .. num_chunks' - 1 : Uncrowded(cut)'
    BY DEF RoomForAll
  <1>0. num_chunks \in Nat \ {0} /\ num_chunks' = num_chunks /\ pool_type' = pool_type
    <2>1. num_chunks' = num_chunks /\ pool_type' = pool_type
      BY DEF Next, Finished, Step, vars, pool, get_my_chunk, get_arbitrary_free_chunk,
         ExchangeSucceeds, ExchangeFails, Fill, Reset, release_chunk
    <2> QED
      BY <2>1, ChunkCount DEF IInv
  <1>1. PICK cut \in 0 .. num_chunks - 1 : Uncrowded(cut)
    BY <1>0 DEF RoomForAll
  <1>2. \A u \in Threads : /\ Home(u)' = Home(u)
                           /\ Behind(cut, Home(u))' = Behind(cut, Home(u))
                           /\ Behind(cut, Home(u)) \in Nat
                           /\ num_try[u] \in Nat
                           /\ Place(cut, u) \in 0 .. num_chunks - 1
    <2>1. \A u \in Threads : Home(u) \in 0 .. num_chunks - 1 /\ num_try[u] \in Nat
      BY HomeInRange DEF IInv, TypeOK
    <2> QED
      BY <1>0, <1>1, <2>1, PlaceIsPosition DEF Home, Behind
  <1>3. ASSUME \A u \in Threads : Place(cut, u)' \in Nat /\ Place(cut, u)' <= Place(cut, u)
        PROVE  Uncrowded(cut)'
    <2> SUFFICES ASSUME NEW i \in 0 .. num_chunks
                 PROVE  Cardinality(From(cut, i)') <= num_chunks - i
      BY <1>0 DEF Uncrowded
    <2>1. From(cut, i)' \subseteq From(cut, i) /\ From(cut, i) \subseteq Threads
      BY <1>2, <1>3 DEF From
    <2>2. Cardinality(From(cut, i)') <= Cardinality(From(cut, i))
      BY <2>1, Monotone
    <2>3. Cardinality(From(cut, i)) <= num_chunks - i
      BY <1>1 DEF Uncrowded
    <2>4. Cardinality(From(cut, i)') \in Nat /\ Cardinality(From(cut, i)) \in Nat
      BY <2>1, FiniteSubset
    <2> QED
      BY <1>0, <2>2, <2>3, <2>4
  <1>4. ASSUME NEW t \in Threads, ExchangeFails(t) PROVE Uncrowded(cut)'
    <2>1. \A u \in Threads : u # t => Place(cut, u)' = Place(cut, u)
      BY <1>2, <1>4 DEF ExchangeFails, IInv, TypeOK, Place
    <2>2. CASE pc'[t] = "row"
      <3>1. Place(cut, t)' \in Nat /\ Place(cut, t)' <= Place(cut, t)
        BY <1>2, <1>4, <2>2 DEF ExchangeFails, Place
      <3> QED
        BY <1>2, <1>3, <2>1, <3>1
    <2>3. CASE pc'[t] # "row"
      <3> DEFINE p == Place(cut, t)
      <3>1. Place(cut, t)' = p + 1
        BY <1>2, <1>4, <2>3 DEF ExchangeFails, IInv, TypeOK, Place
      <3>2. /\ p + 1 \in 1 .. num_chunks
            /\ Cardinality(From(cut, p + 1) \union {t}) <= num_chunks - (p + 1)
        BY <1>0, <1>1, <1>4, RefusedHasRoom
      <3> SUFFICES ASSUME NEW i \in 0 .. num_chunks
                   PROVE  Cardinality(From(cut, i)') <= num_chunks - i
        BY <1>0 DEF Uncrowded
      <3>3. CASE i = p + 1
        <4>1. From(cut, i)' = From(cut, i) \union {t}
          BY <1>2, <2>1, <3>1, <3>3 DEF From
        <4> QED
          BY <3>2, <3>3, <4>1
      <3>4. CASE i # p + 1
        <4>1. From(cut, i)' = From(cut, i)
          BY <1>2, <2>1, <3>1, <3>4 DEF From
        <4> QED
          BY <1>1, <4>1 DEF Uncrowded
      <3> QED
        BY <3>3, <3>4
    <2> QED
      BY <2>2, <2>3
  <1>5. ASSUME NEW t \in Threads,
               \/ get_my_chunk(t) \/ get_arbitrary_free_chunk(t) \/ ExchangeSucceeds(t)
               \/ Fill(t) \/ Reset(t) \/ release_chunk(t)
        PROVE  Uncrowded(cut)'
    <2>1. ~get_my_chunk(t)
      BY <1>0 DEF get_my_chunk
    <2>2. \A u \in Threads : Place(cut, u)' \in Nat /\ Place(cut, u)' <= Place(cut, u)
      BY <1>2, <1>5, <2>1 DEF get_arbitrary_free_chunk, ExchangeSucceeds, Fill, Reset,
         release_chunk, IInv, TypeOK, Place
    <2> QED
      BY <1>3, <2>2
  <1>6. ASSUME UNCHANGED vars PROVE Uncrowded(cut)'
    <2>1. \A u \in Threads : Place(cut, u)' = Place(cut, u)
      BY <1>2, <1>6 DEF vars, Place
    <2> QED
      BY <1>2, <1>3, <2>1
  <1>7. Uncrowded(cut)'
    BY <1>4, <1>5, <1>6 DEF Next, Finished, Step
  <1> QED
    BY <1>0, <1>7

\* A thread gets NULL only after a full round in which every chunk was taken,
\* at its first chunk, and only where the threads outnumber the chunks.
THEOREM NullOnlyAfterFullSweep == Spec => NullAfterFullSweep
  <1>1. ASSUME IInv, SearchOK, RoomForAll, [Next]_vars,
               NEW t \in Threads, pc[t] = "search", pc'[t] = "row"
        PROVE  /\ refused[t] = 0 .. num_chunks - 1
               /\ chunk_index[t] = Home(t)
               /\ Cardinality(Threads) > num_chunks
    <2>1. ExchangeFails(t) /\ num_try[t] + 1 > num_chunks
      BY <1>1 DEF Next, Finished, Step, vars, get_my_chunk, get_arbitrary_free_chunk,
         ExchangeSucceeds, ExchangeFails, Fill, Reset, release_chunk, IInv, TypeOK
    <2>2. /\ num_chunks \in Nat \ {0} /\ num_try[t] \in Nat
          /\ Home(t) \in 0 .. num_chunks - 1
          /\ pool_type = "ManyThread2OneChunk"
      BY <1>1, ChunkCount, HomeInRange DEF IInv, TypeOK, PoolType, HomeOnly
    <2>3. /\ num_try[t] = num_chunks
          /\ chunk_index[t] = After(Home(t), num_try[t])
          /\ refused[t] = {c \in 0 .. num_chunks - 1 : Behind(Home(t), c) < num_try[t]}
      BY <1>1, <2>1, <2>2 DEF SearchOK
    <2>4. \A c \in 0 .. num_chunks - 1 : Behind(Home(t), c) < num_chunks
      BY <2>2 DEF Behind
    <2>5. chunk_index[t] = Home(t)
      BY <2>2, <2>3 DEF After
    <2>6. ASSUME Cardinality(Threads) <= num_chunks PROVE FALSE
      <3>1. PICK cut \in 0 .. num_chunks - 1 : Uncrowded(cut)
        BY <1>1, <2>2, <2>6 DEF RoomForAll
      <3>2. Place(cut, t) \in 0 .. num_chunks - 1
        BY <1>1, <2>2, <3>1, PlaceIsPosition
      <3>3. Place(cut, t) = Behind(cut, Home(t)) + num_chunks
        BY <1>1, <2>3 DEF Place
      <3> QED
        BY <2>2, <3>2, <3>3 DEF Behind
    <2>7. Cardinality(Threads) \in Nat
      BY FiniteSubset
    <2> QED
      BY <2>2, <2>3, <2>4, <2>5, <2>6, <2>7
  <1>2. Init => SearchOK
    BY DEF Init, SearchOK
  <1>3. IInv /\ SearchOK /\ RoomForAll /\ [Next]_vars =>
          [\A t \in Threads :
             pc[t] = "search" /\ pc'[t] = "row" =>
               /\ refused[t] = 0 .. num_chunks - 1
               /\ chunk_index[t] = Home(t)
               /\ Cardinality(Threads) > num_chunks]_vars
    BY <1>1
  <1> QED
    BY <1>2, <1>3, Inductive, SearchPreserved, RoomInitially, RoomPreserved, PTL
       DEF Spec, NullAfterFullSweep

-----------------------------------------------------------------------------
(***************************************************************************)
(* The refinement: get_my_chunk and a successful exchange are Take, Fill   *)
(* and Reset are Work, release_chunk is Return, the search is a stutter.   *)
(***************************************************************************)
LEMMA InitRefines == Init => Lending!Init
  <1> SUFFICES ASSUME Init PROVE Lending!Init
    OBVIOUS
  <1>1. \A t \in Threads : ~Has(t)
    BY DEF Init, Has
  <1>2. lentTo = [t \in Threads |-> NoChunk]
    BY <1>1 DEF lentTo
  <1>3. soiledChunks = {}
    BY DEF Init, soiledChunks
  <1> QED
    BY <1>2, <1>3 DEF Lending!Init

LEMMA StepRefines ==
  ASSUME IInv, IInv', NEW t \in Threads, Step(t)
  PROVE  Lending!Next \/ UNCHANGED <<lentTo, soiledChunks>>
  <1>a. \A u \in Threads : Has(u) => chunk_index[u] \in AllChunks
    BY ChunkCount DEF IInv, PositionOK
  <1>b. NoChunk \notin AllChunks
    BY RoundUpPositive, NoChunkAssumption DEF AllChunks
  <1>1. CASE get_my_chunk(t) \/ ExchangeSucceeds(t)
    <2> DEFINE c == chunk_index'[t]
    <2>1. /\ pc' = [pc EXCEPT ![t] = "have"]
          /\ ~Has(t) /\ Has(t)'
          /\ chunk_index' = [chunk_index EXCEPT ![t] = c]
      BY <1>1 DEF get_my_chunk, ExchangeSucceeds, IInv, TypeOK, Has
    <2>2. \A u \in Threads : u # t => (Has(u)' <=> Has(u)) /\ chunk_index'[u] = chunk_index[u]
      BY <2>1 DEF IInv, TypeOK, Has
    <2>3. \A u \in Threads : u # t /\ Has(u) => chunk_index[u] # c
      BY <2>1, <2>2 DEF IInv, PrivateChunk
    <2>4. c \in AllChunks
      <3>1. CASE get_my_chunk(t)
        BY <3>1, HomeInRange, ChunkCount DEF get_my_chunk, IInv, TypeOK
      <3>2. CASE ExchangeSucceeds(t)
        BY <3>2, ChunkCount DEF ExchangeSucceeds, IInv, PositionOK
      <3> QED
        BY <1>1, <3>1, <3>2
    <2>5. data' = data
      BY <1>1 DEF get_my_chunk, ExchangeSucceeds
    <2>6. data[c] = {}
      <3>1. \A u \in Threads : u \notin data[c]
        BY <2>1, <2>3, <2>4 DEF IInv, DataOfFillers, Has
      <3> QED
        BY <2>4, <3>1 DEF IInv, TypeOK
    <2>7. c \in AllChunks \ soiledChunks /\ UNCHANGED soiledChunks
      BY <2>4, <2>5, <2>6 DEF soiledChunks
    <2>8. lentTo' = [lentTo EXCEPT ![t] = c]
      BY <2>1, <2>2 DEF lentTo
    <2>9. lentTo[t] = NoChunk /\ \A u \in Threads : lentTo[u] # c
      BY <1>b, <2>1, <2>3, <2>4 DEF lentTo
    <2>10. Lending!Take(t)
      BY <2>7, <2>8, <2>9 DEF Lending!Take
    <2> QED
      BY <2>10 DEF Lending!Next
  <1>2. CASE get_arbitrary_free_chunk(t) \/ ExchangeFails(t)
    <2>1. \A u \in Threads : /\ Has(u)' <=> Has(u)
                             /\ Has(u) => chunk_index'[u] = chunk_index[u]
      BY <1>2 DEF get_arbitrary_free_chunk, ExchangeFails, IInv, TypeOK, Has
    <2>2. data' = data
      BY <1>2 DEF get_arbitrary_free_chunk, ExchangeFails
    <2> QED
      BY <2>1, <2>2 DEF lentTo, soiledChunks
  <1>3. CASE Fill(t) \/ Reset(t)
    <2> DEFINE c == chunk_index[t]
    <2>1. /\ Has(t) /\ c \in AllChunks
          /\ \A u \in Threads : Has(u)' <=> Has(u)
          /\ chunk_index' = chunk_index
      BY <1>3, <1>a DEF Fill, Reset, IInv, TypeOK, Has
    <2>2. UNCHANGED lentTo
      BY <2>1 DEF lentTo
    <2>3. \A d \in AllChunks : d # c => data'[d] = data[d]
      BY <1>3, <2>1 DEF Fill, Reset, IInv, TypeOK
    <2>4. soiledChunks' \in {soiledChunks \union {c}, soiledChunks \ {c}}
      BY <2>1, <2>3 DEF soiledChunks
    <2>5. lentTo[t] = c /\ c # NoChunk
      BY <1>b, <2>1 DEF lentTo
    <2>6. Lending!Work(t)
      BY <2>2, <2>4, <2>5 DEF Lending!Work
    <2> QED
      BY <2>6 DEF Lending!Next
  <1>4. CASE release_chunk(t)
    <2> DEFINE c == chunk_index[t]
    <2>1. /\ Has(t) /\ c \in AllChunks /\ pc[t] = "reset"
          /\ \A u \in Threads : Has(u)' <=> Has(u) /\ u # t
          /\ chunk_index' = chunk_index /\ data' = data
      BY <1>4, <1>a DEF release_chunk, IInv, TypeOK, Has
    <2>2. lentTo' = [lentTo EXCEPT ![t] = NoChunk]
      BY <2>1 DEF lentTo
    <2>3. data[c] = {}
      BY <2>1, InitializedFromIInv DEF InitializedMemory
    <2>4. lentTo[t] = c /\ c # NoChunk /\ c \notin soiledChunks
      BY <1>b, <2>1, <2>3 DEF lentTo, soiledChunks
    <2>5. UNCHANGED soiledChunks
      BY <2>1 DEF soiledChunks
    <2>6. Lending!Return(t)
      BY <2>2, <2>4, <2>5 DEF Lending!Return
    <2> QED
      BY <2>6 DEF Lending!Next
  <1> QED
    BY <1>1, <1>2, <1>3, <1>4 DEF Step

LEMMA NextRefines == IInv /\ IInv' /\ [Next]_vars => [Lending!Next]_<<lentTo, soiledChunks>>
  <1> SUFFICES ASSUME IInv, IInv', [Next]_vars
               PROVE  Lending!Next \/ UNCHANGED <<lentTo, soiledChunks>>
    OBVIOUS
  <1>1. CASE UNCHANGED vars
    BY <1>1 DEF vars, lentTo, soiledChunks, Has
  <1>2. CASE \E t \in Threads : Step(t)
    BY <1>2, StepRefines
  <1> QED
    BY <1>1, <1>2 DEF Next, Finished

\* The pool implements the lending of private, initialised chunks.
THEOREM PoolImplementsLending == Spec => LendsInitializedChunks
  BY InitRefines, NextRefines, Inductive, PTL DEF Spec, LendsInitializedChunks, Lending!Spec
=============================================================================

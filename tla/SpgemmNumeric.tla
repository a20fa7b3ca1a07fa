---------------------------- MODULE SpgemmNumeric ----------------------------
(***************************************************************************)
(* sparse/impl/KokkosSparse_spgemm_impl_kkmem.hpp: the rows of C = A * B   *)
(* that one thread of the numeric phase computes with hash maps, one row   *)
(* after the other.                                                        *)
(*                                                                         *)
(* GPUTag: the vector lanes of the thread insert the products of one entry *)
(* of A at a time.  They try a small map in shared memory; what does not   *)
(* fit goes to a second map whose keys and values are the row of C itself  *)
(* and whose lists are in a chunk of the memory pool.  Every access of a   *)
(* lane to a map is a step.  One lane per product: the products that one   *)
(* lane inserts after each other are a special case of their interleaving. *)
(*                                                                         *)
(* MultiCoreTag: one lane, only the second map, and a chunk for all rows.  *)
(*                                                                         *)
(* How a chunk is found is UniformMemoryPool's.  B is given by the columns *)
(* of the row that an entry of A selects: a row of B has no column twice.  *)
(***************************************************************************)
EXTENDS HashmapAccumulator, Sequences, FiniteSetsExt

CONSTANTS
  Problems,   \* sequences of rows of A: for every entry the columns of its row of B
  Val,        \* what an entry of A contributes to its products
  Cols,       \* column numbers
  KeySize,    \* KeySize[1]: thread_shmem_key_size, KeySize[2]: pow2_hash_size
  HashSize    \* HashSize[1]: thread_shmem_hash_size, HashSize[2]: pow2_hash_size

ASSUME ColsAssumption == Cols \subseteq Nat /\ IsFiniteSet(Cols)
ASSUME SizeAssumption == KeySize \in [{1, 2} -> Nat \ {0}] /\ HashSize \in [{1, 2} -> Nat \ {0}]
ASSUME ValAssumption == Val \in [DOMAIN Val -> Int]
ASSUME ProblemAssumption ==
  /\ Problems \subseteq Seq(Seq(SUBSET Cols))
  /\ \A p \in Problems : \A r \in DOMAIN p : DOMAIN p[r] \subseteq DOMAIN Val

VARIABLES
  exec,     \* lanes that advance independently, lanes in lockstep, a host thread
  rows,     \* the rows of A this thread works on
  row,      \* the row in work
  ph,       \* where the thread is in its row
  ii,       \* entries of A not yet multiplied
  held,     \* is a chunk of the pool allocated?
  map,      \* map[1], map[2]: hm and hm2
  dirty,    \* globally_used_hash_indices
  lane      \* lane[k]: the lane that inserts column k

kernel == <<exec, rows, row>>
vars == <<exec, rows, row, ph, ii, held, map, dirty, lane>>

Execs == {"independent", "lockstep", "multicore"}

Idle == [pc |-> "idle", lvl |-> 1, at |-> Nil, my |-> Nil, tmp |-> Nil]

\* The columns of C's row, which the symbolic phase has counted exactly.
ColsOf(r) == UNION {rows[r][e] : e \in DOMAIN rows[r]}
CSize(r) == Cardinality(ColsOf(r))

\* The entry that is multiplied next: the device counts down, the host up.
Entry == IF exec = "multicore" THEN Len(rows[row]) + 1 - ii ELSE ii

Level == {1, 2}
Unlinked(l) == [h \in 0 .. HashSize[l] - 1 |-> Nil]
SlotsOf(l) == 0 .. KeySize[l] - 1

\* The pool initialises a chunk with -1; shared memory is not initialised, and
\* links that lead from every slot to slot 0 stand for what may be in it.
Init ==
  /\ exec \in Execs
  /\ rows \in Problems
  \* the size of the second map is that of the largest row, rounded up (1340-1345)
  /\ \A r \in DOMAIN rows : CSize(r) <= KeySize[2]
  /\ row = 1 /\ ph = "row" /\ ii = 0
  /\ held = FALSE
  /\ map = [l \in Level |-> [begins |-> Unlinked(l),
                             nexts |-> [s \in SlotsOf(l) |-> IF l = 1 THEN 0 ELSE Nil],
                             keys |-> [s \in SlotsOf(l) |-> Nil],
                             values |-> [s \in SlotsOf(l) |-> 0],
                             used |-> 0]]
  /\ dirty = <<>>
  /\ lane = [k \in Cols |-> Idle]

-----------------------------------------------------------------------------
(***************************************************************************)
(* The start of a row: the chunk, on a host unless the thread has it from  *)
(* its first row, on a device if the row of C is larger than the first     *)
(* map; the heads of the first map; the counters.  hm2's keys and values   *)
(* are the row of C, in which nothing is written yet.                      *)
(***************************************************************************)
StartRow ==
  /\ ph = "row" /\ row <= Len(rows)
  /\ held' = (exec = "multicore" \/ CSize(row) > KeySize[1])
  /\ map' = [map EXCEPT ![1].begins = Unlinked(1), ![1].used = 0, ![2].used = 0,
                        ![2].keys = [s \in SlotsOf(2) |-> Nil],
                        ![2].values = [s \in SlotsOf(2) |-> 0]]
  /\ dirty' = <<>>
  /\ ii' = Len(rows[row])
  /\ ph' = "entries"
  /\ UNCHANGED <<kernel, lane>>

\* the lanes take the products of the next entry of A
NextEntry ==
  /\ ph = "entries" /\ ii > 0
  /\ lane' = [k \in Cols |-> IF k \in rows[row][Entry] THEN [Idle EXCEPT !.pc = "hash"] ELSE Idle]
  /\ ph' = "lanes"
  /\ UNCHANGED <<kernel, ii, held, map, dirty>>

\* the nested vector loop ends when all its lanes have ended
EntryDone ==
  /\ ph = "lanes"
  /\ \A k \in Cols : lane[k].pc \in {"idle", "done"}
  /\ ii' = ii - 1
  /\ ph' = "entries"
  /\ lane' = [k \in Cols |-> Idle]
  /\ UNCHANGED <<kernel, held, map, dirty>>

-----------------------------------------------------------------------------
(***************************************************************************)
(* vector_atomic_insert_into_hash_mergeAdd on hm, and where it returns     *)
(* __insert_full ..._mergeAdd_TrackHashes on hm2.                          *)
(***************************************************************************)
M(k) == map[lane[k].lvl]
H(k) == Hash(k, HashSize[lane[k].lvl])

\* Without independent thread scheduling the lanes of a warp meet again where
\* their paths join: none is past a point that another has yet to reach.
Order == [hash |-> 1, walk |-> 2, store |-> 3, check |-> 4, reserve |-> 5, write |-> 6,
          link |-> 7, exchange |-> 8, track |-> 9, next |-> 10]
Stage(r) == IF r.pc \in {"idle", "done"} THEN 100 ELSE 10 * r.lvl + Order[r.pc]
Turn(k) == \/ exec = "independent"
           \/ exec = "lockstep" /\ \A j \in Cols : Stage(lane[k]) <= Stage(lane[j])

At(k, pc) == ph = "lanes" /\ lane[k].pc = pc /\ Turn(k)

\* lane k goes on at pc, with what it read in the local var
Goto(k, pc) == lane' = [lane EXCEPT ![k].pc = pc]
Read(k, var, v, pc) == lane' = [lane EXCEPT ![k] = [@ EXCEPT ![var] = v, !.pc = pc]]

ReadHead(k) ==
  /\ At(k, "hash")
  /\ Read(k, "at", M(k).begins[H(k)], "walk")
  /\ UNCHANGED <<kernel, ph, ii, held, map, dirty>>

WalkOn(k) ==
  /\ At(k, "walk")
  /\ lane[k].at # Nil /\ M(k).keys[lane[k].at] # k
  /\ Read(k, "at", M(k).nexts[lane[k].at], "walk")
  /\ UNCHANGED <<kernel, ph, ii, held, map, dirty>>

\* values[i] = values[i] + value is a read ...
Found(k) ==
  /\ At(k, "walk")
  /\ lane[k].at # Nil /\ M(k).keys[lane[k].at] = k
  /\ Read(k, "tmp", M(k).values[lane[k].at], "store")
  /\ UNCHANGED <<kernel, ph, ii, held, map, dirty>>

\* ... and a write, not an atomic addition
Accumulate(k) ==
  /\ At(k, "store")
  /\ map' = [map EXCEPT ![lane[k].lvl].values[lane[k].at] = lane[k].tmp + Val[Entry]]
  /\ Goto(k, "done")
  /\ UNCHANGED <<kernel, ph, ii, held, dirty>>

\* only the first map looks at its counter before it takes a slot
NotFound(k) ==
  /\ At(k, "walk")
  /\ lane[k].at = Nil
  /\ Goto(k, IF lane[k].lvl = 1 THEN "check" ELSE "reserve")
  /\ UNCHANGED <<kernel, ph, ii, held, map, dirty>>

\* what a lane does when a map is full: hm2 in the place of hm, and nothing when
\* hm2 is full too, for nobody looks at what its insertion returns
Full(k) == lane' = [lane EXCEPT ![k] = IF lane[k].lvl = 1 THEN [Idle EXCEPT !.pc = "hash", !.lvl = 2]
                                       ELSE [@ EXCEPT !.pc = "done"]]

CheckUsed(k) ==
  /\ At(k, "check")
  /\ IF M(k).used >= KeySize[1] THEN Full(k) ELSE Goto(k, "reserve")
  /\ UNCHANGED <<kernel, ph, ii, held, map, dirty>>

\* a slot taken without a look at the capacity
MUT_NoCapacity(k) ==
  /\ At(k, "reserve")
  /\ map' = [map EXCEPT ![lane[k].lvl].used = @ + 1]
  /\ Read(k, "my", M(k).used, "write")
  /\ UNCHANGED <<kernel, ph, ii, held, dirty>>

\* the atomic_fetch_add takes the counter past the capacity when it fails
Reserve(k) ==
  /\ At(k, "reserve")
  /\ map' = [map EXCEPT ![lane[k].lvl].used = @ + 1]
  /\ IF M(k).used >= KeySize[lane[k].lvl] THEN Full(k) ELSE Read(k, "my", M(k).used, "write")
  /\ UNCHANGED <<kernel, ph, ii, held, dirty>>

WriteSlot(k) ==
  /\ At(k, "write")
  /\ map' = [map EXCEPT ![lane[k].lvl] = [@ EXCEPT !.keys[lane[k].my] = k,
                                                   !.values[lane[k].my] = Val[Entry]]]
  /\ Goto(k, IF exec = "independent" THEN "link" ELSE "exchange")
  /\ UNCHANGED <<kernel, ph, ii, held, dirty>>

\* the build without KOKKOSKERNELS_CUDA_INDEPENDENT_THREADS, on lanes that do
\* advance independently
MUT_NoLink(k) ==
  /\ At(k, "link")
  /\ Goto(k, "exchange")
  /\ UNCHANGED <<kernel, ph, ii, held, map, dirty>>

\* the slot leads to the current head before it becomes the head
LinkSlot(k) ==
  /\ At(k, "link")
  /\ map' = [map EXCEPT ![lane[k].lvl].nexts[lane[k].my] = M(k).begins[H(k)]]
  /\ Goto(k, "exchange")
  /\ UNCHANGED <<kernel, ph, ii, held, dirty>>

\* the slot becomes the head; until SetNext only the lane knows the old one
ExchangeHead(k) ==
  /\ At(k, "exchange")
  /\ Read(k, "tmp", M(k).begins[H(k)],
          IF lane[k].lvl = 2 /\ M(k).begins[H(k)] = Nil THEN "track" ELSE "next")
  /\ map' = [map EXCEPT ![lane[k].lvl].begins[H(k)] = lane[k].my]
  /\ UNCHANGED <<kernel, ph, ii, held, dirty>>

\* a tracked hash that is lost when two lanes write the same place
MUT_TrackLast(k) ==
  /\ At(k, "track")
  /\ dirty' = <<H(k)>>
  /\ Goto(k, "next")
  /\ UNCHANGED <<kernel, ph, ii, held, map>>

TrackHash(k) ==
  /\ At(k, "track")
  /\ dirty' = Append(dirty, H(k))
  /\ Goto(k, "next")
  /\ UNCHANGED <<kernel, ph, ii, held, map>>

SetNext(k) ==
  /\ At(k, "next")
  /\ map' = [map EXCEPT ![lane[k].lvl].nexts[lane[k].my] = lane[k].tmp]
  /\ Goto(k, "done")
  /\ UNCHANGED <<kernel, ph, ii, held, dirty>>

Lane(k) == \/ ReadHead(k) \/ WalkOn(k) \/ Found(k) \/ Accumulate(k) \/ NotFound(k)
           \/ CheckUsed(k) \/ Reserve(k) \/ WriteSlot(k) \/ LinkSlot(k)
           \/ ExchangeHead(k) \/ TrackHash(k) \/ SetNext(k)

\* MultiCoreTag: one product after the other, into hm2
InsertSequentially(k) ==
  /\ exec = "multicore" /\ ph = "lanes"
  /\ lane[k].pc = "hash"
  /\ map' = [map EXCEPT ![2] = SequentialInsert(@, k, Val[Entry], HashSize[2])]
  /\ dirty' = IF map'[2].used > map[2].used /\ map[2].begins[Hash(k, HashSize[2])] = Nil
              THEN Append(dirty, Hash(k, HashSize[2])) ELSE dirty
  /\ Goto(k, "done")
  /\ UNCHANGED <<kernel, ph, ii, held>>

-----------------------------------------------------------------------------
\* the heads of the hashes that were used are reset, if the row has a chunk
ResetBegins ==
  /\ ph = "entries" /\ ii = 0
  /\ map' = IF held THEN [map EXCEPT ![2].begins = [h \in DOMAIN @ |->
                           IF \E n \in DOMAIN dirty : dirty[n] = h THEN Nil ELSE @[h]]]
            ELSE map
  /\ ph' = "reset"
  /\ UNCHANGED <<kernel, ii, held, dirty, lane>>

\* the device gives its chunk back after every row, the host after the last
ReleaseChunk ==
  /\ ph = "reset"
  /\ held' = (exec = "multicore" /\ row < Len(rows))
  /\ ph' = IF exec = "multicore" THEN "written" ELSE "copy"
  /\ UNCHANGED <<kernel, ii, map, dirty, lane>>

\* the first map is copied with its counter as it stands
MUT_NoClamp ==
  /\ ph = "copy"
  /\ LET n == map[1].used
         w == map[2].used
         from(s) == (s - w) % KeySize[1]
     IN  map' = [map EXCEPT
           ![2].keys = [s \in DOMAIN @ |-> IF s \in w .. w + n - 1 THEN map[1].keys[from(s)] ELSE @[s]],
           ![2].values = [s \in DOMAIN @ |-> IF s \in w .. w + n - 1 THEN map[1].values[from(s)] ELSE @[s]]]
  /\ ph' = "written"
  /\ UNCHANGED <<kernel, ii, held, dirty, lane>>

\* the first map goes behind the entries of the second, its counter clamped
CopyFirstLevel ==
  /\ ph = "copy"
  /\ LET n == IF map[1].used > KeySize[1] THEN KeySize[1] ELSE map[1].used
         w == map[2].used
     IN  map' = [map EXCEPT
           ![1].used = n,
           ![2].keys = [s \in DOMAIN @ |-> IF s \in w .. w + n - 1 THEN map[1].keys[s - w] ELSE @[s]],
           ![2].values = [s \in DOMAIN @ |-> IF s \in w .. w + n - 1 THEN map[1].values[s - w] ELSE @[s]]]
  /\ ph' = "written"
  /\ UNCHANGED <<kernel, ii, held, dirty, lane>>

NextRow ==
  /\ ph = "written"
  /\ row' = row + 1
  /\ ph' = "row"
  /\ UNCHANGED <<exec, rows, ii, held, map, dirty, lane>>

Terminated == ph = "row" /\ row > Len(rows) /\ UNCHANGED vars

Next == \/ StartRow \/ NextEntry \/ EntryDone
        \/ \E k \in Cols : Lane(k) \/ InsertSequentially(k)
        \/ ResetBegins \/ ReleaseChunk \/ CopyFirstLevel \/ NextRow
        \/ Terminated

Spec == Init /\ [][Next]_vars

-----------------------------------------------------------------------------
TypeOK ==
  /\ exec \in Execs /\ rows \in Problems /\ row \in 1 .. Len(rows) + 1
  /\ ph \in {"row", "entries", "lanes", "reset", "copy", "written"}
  /\ ii \in Nat /\ held \in BOOLEAN
  /\ \A l \in Level :
       /\ map[l].begins \in [0 .. HashSize[l] - 1 -> SlotsOf(l) \union {Nil}]
       /\ map[l].nexts \in [SlotsOf(l) -> SlotsOf(l) \union {Nil}]
       /\ map[l].keys \in [SlotsOf(l) -> Cols \union {Nil}]
       /\ map[l].values \in [SlotsOf(l) -> Int]
       /\ map[l].used \in Nat
  /\ dirty \in Seq(0 .. HashSize[2] - 1)
  /\ lane \in [Cols -> [pc : {"idle", "done"} \union DOMAIN Order, lvl : Level,
                        at : SlotsOf(1) \union SlotsOf(2) \union {Nil},
                        my : Nat \union {Nil}, tmp : Int]]
  /\ \A k \in Cols : lane[k].my \in SlotsOf(lane[k].lvl) \union {Nil}

\* The product: when a row is written, its entries are exactly its columns, each
\* once, with the sum of all its products, and nothing is written behind it,
\* whichever lanes found, added or linked what, and whatever earlier rows left in
\* the maps (kkmem.hpp:513-544).
Products(k) == {e \in DOMAIN rows[row] : k \in rows[row][e]}

RowCorrect ==
  ph = "written" =>
    LET c == map[2].keys
    IN  /\ {c[s] : s \in 0 .. CSize(row) - 1} = ColsOf(row)
        /\ \A s \in 0 .. CSize(row) - 1 : map[2].values[s] = MapThenSumSet(LAMBDA e : Val[e], Products(c[s]))
        /\ \A s \in SlotsOf(2) : s >= CSize(row) => c[s] = Nil

\* "threads of execution can still access the old linked list"
\* (HashmapAccumulator.hpp:413-418): a lane that looks for a key that is in the
\* map finds it from where it stands, while other lanes put slots in front.
KeyAhead ==
  \A k \in Cols : lane[k].pc = "walk" =>
    \A s \in SlotsOf(lane[k].lvl) :
      /\ s < M(k).used /\ M(k).keys[s] = k
      /\ \A j \in Cols : lane[j].my = s => lane[j].lvl # lane[k].lvl
      => s \in Ahead(M(k), lane[k].at)

\* The thread is a borrower as the pool wants it: it writes lists only to a chunk
\* it has, and gives it back with every head it set reset, also when lanes track
\* hashes at the same time (kkmem.hpp:523-532, HashmapAccumulator.hpp:422-425).
lentTo == [t \in {1} |-> IF held THEN 1 ELSE 0]
soiledChunks == IF map[2].begins = Unlinked(2) THEN {} ELSE {1}
Lending == INSTANCE ChunkLending
             WITH Threads <- {1}, Chunk <- {1}, NoChunk <- 0, lent <- lentTo, soiled <- soiledChunks
ReturnsCleanChunk == Lending!Spec
=============================================================================

# TLA+ models of Kokkos Kernels

Kokkos Kernels is a library of parallel kernels for sparse and dense linear
algebra and for graphs.  A call launches a handful of kernels; a kernel is a
function applied to many work items by threads that share arrays.  Most of the
library is arithmetic on which TLA+ has nothing to say.  What can go wrong
without any arithmetic is the coordination between work items: speculative
kernels that race on purpose, work lists built with atomic counters and swapped
between launches, spin locks, and rounds that have to come to an end.  That is
what these modules are about.

Everywhere below, a *step* is an access to shared memory that another work item
can observe, the steps of all running items interleave freely, and a *fence* is a
step of the host that is enabled when every item of the launched kernel has ended.

## Inventory

| Part | State | Operations | Hard behaviour | What makes it correct |
|---|---|---|---|---|
| Uniform memory pool (`common/src/KokkosKernels_Uniform_Initialized_MemoryPool.hpp`) | chunk locks, chunk memory | `allocate_chunk`, `get_my_chunk`, `get_arbitrary_free_chunk`, `release_chunk` | lock-free search against releases; more threads than chunks; bounded tries and spinning callers | a chunk has one owner, arrives initialised, no lock is lost, everybody is served |
| Distance-1 colouring VB, VBBIT, VBCS (`graph/impl/KokkosGraph_Distance1Color_impl.hpp`, 162-1586) | colours, two work lists with lengths and an atomic counter | greedy kernel, conflict kernel (three schemes), list swap, serial resolution | both kernels race on colours; lists appended by atomics or compacted by a prefix sum; last iteration | complete proper colouring, fixed colours kept, no vertex lost, progress in each iteration |
| Distance-1 colouring VBD, VBDBIT (same file, 1591-1967) | colours, dependency counters, two frontiers | dependency kernel, swap, colouring kernel | racing decrements, atomic appends, 64-colour window | each vertex once, frontier independent, result independent of the schedule, rounds minimal |
| Distance-1 colouring EB (same file, 1974-2870) | edge work list, ban words, tentative bans | mark, count, compact, ban, expand, choose | ban words read and written from both ends of an edge | proper colouring; loop ends |
| Colouring handles (`graph/src/*Handle.hpp`) | parameters, lists, times | setters, defaults, lower triangle | call sequences | parameters in range |
| Distance-2 colouring, MIS-2 and aggregation (`graph/impl/KokkosGraph_Distance2*`) | forbidden words, statuses, work lists | speculative rounds | two-hop reads while neighbours write | distance-2 property; maximality; progress |
| Coarsening (`graph/src/KokkosGraph_Coarsen*`) | match, vertex map, counters, hash maps in pool chunks | match by two compare-exchanges, deduplicate | hard stalls, undo of a half-made match | symmetric matching, each vertex mapped, edges counted once |
| RCM, triangle counting | queue and labels; as SpGEMM | sequential; as SpGEMM | - | a permutation |
| Hash map accumulator (`common/src/KokkosKernels_HashmapAccumulator.hpp`) | list heads, links, keys, values, counters | `sequential_insert*`, `vector_atomic_insert*` | insertion while others walk the list; counter beyond capacity | each key once, nothing lost |
| SpGEMM, SpAdd (`sparse/impl/KokkosSparse_spgemm_*`, `spadd_*`) | handle, row sizes, two-level maps | symbolic, numeric | chunk use; reuse of a handle | sizes agree between the phases; chunks reset |
| SpMV, triangular solve, Gauss-Seidel, ILU, MDF, GMRES | levels, chains, colour sets, handles | symbolic, numeric, solve | level order; reuse of a handle | a row after its dependencies |
| Containers, sorting, handle, I/O | - | conversions, sorting networks | pure algorithms | permutation, order |
| BLAS, LAPACK, batched, ODE | floating-point data | kernels and vendor calls | none in control | numerical, not modelled |

Interactions: the sparse and graph kernels borrow memory from the pool and build
hash maps in it; Gauss-Seidel and the colour-based SpGEMM call the colouring;
aggregation calls MIS-2; coarsening uses MIS-2, the pool and the hash map.  The
calls are synchronous, so the interfaces are the results (a proper colouring) and,
for the pool, the lending protocol.

## Modules

| Module | Models | Role |
|---|---|---|
| `ChunkLending` | the promise in the header comment of the pool, lines 103-145 | abstract specification |
| `UniformMemoryPool` | the pool and the loop of its users | detailed specification, implements `ChunkLending` |
| `UniformMemoryPool_proofs` | - | theorems about it |
| `D1ColoringVB` | `GraphColor_VB` | VB and VBBIT |
| `D1ColoringVB_proofs` | - | theorems about its colours, its work lists, and first fit |
| `D1ColoringVBD` | `GraphColor_VBD` | VBD and VBDBIT |
| `D1ColoringVBD_proofs` | - | theorems about it |
| `D1ColoringEB` | `GraphColor_EB` | edge based colouring |
| `D1ColoringEB_proofs` | - | theorems about it |
| `HashmapAccumulator` | the chained hash map: hash, walk, sequential insertion | operators, used by `SpgemmNumeric` |
| `SpgemmNumeric` | rows of KKMEM with chained maps (`GPUTag`, `MultiCoreTag`) and the concurrent insertions of the hash map | composes the hash map with the lending of chunks |
| `SpgemmNumeric_proofs` | - | theorems about it |
| `SpgemmTeamNumeric` | rows of KKMEM with linear probing (`GPUTag4`, `GPUTag6`, `MultiCoreTag4`) | uses the lending of chunks |
| `SpgemmTeamNumeric_proofs` | - | theorems about it |
| `CoarsenHeuristics` | HEC, GOSHv2, Match, MtMetis | matching by compare-exchanges |
| `CoarsenHeuristics_proofs` | - | theorems about it |
| `Distance2MIS` | both MIS-2 algorithms and both aggregations | rounds of kernels |
| `Distance2MIS_proofs` | - | theorems about it |
| `MC...` | - | small instances for TLC, one for each of the above |

Definitions whose names start with `MUT_` are faulty variants of the definition
that follows them: each property is checked to fail with one of them, so that none
of them holds for want of anything to violate it.

### UniformMemoryPool

`chunk_locks` is the lock array, `chunk_index` and `num_try` are the locals of the
search, `pc` says where a thread is between two rows, and `data` abstracts the
memory of a chunk to the set of threads whose values are in it.  `refused` is a
history variable, the chunks that the search in progress was refused; no guard reads
it.  `get_my_chunk`
and `get_arbitrary_free_chunk` are the two branches of `allocate_chunk`;
`ExchangeSucceeds` and `ExchangeFails` the two results of the compare-exchange,
the second with the return of `NULL` after more than `num_chunks` tries, after
which the caller calls again; `release_chunk` the plain store.  `Fill` and `Reset`
stand for the work of the kernels, after `MultiCoreTag4` of
`sparse/impl/KokkosSparse_spgemm_impl_kkmem.hpp` (207-269).  The constructor's
rounding is part of `Init`.  With `OneThread2OneChunk` the initial states are those
where the ids differ in the mask, the condition under which that type is used.

The refinement maps a chunk that a thread has to `lent` and the chunks with
values in them to `soiled`.

### D1ColoringVB

An item per position of the vertex list.  `GreedyRead` reads one neighbour,
`GreedyColor` writes the first free colour of the window, `GreedyNextPass` moves
the window (rows with more than 64 colours); `ConflictPass`, `ConflictSeen` and
`Uncolor` are the conflict kernel, with the read that finds the conflict and the
writes that follow in separate steps; `GreedyFence` and `ConflictFence` are the
host, the latter with the prefix sum, the swap of the lists and the decision to go
on; `SerialStep` is one round of `resolveConflicts`.  `forbidden` there is never
initialised, so its contents are arbitrary.  VB and VBBIT differ in where their
windows start and how far they go; edge filtering keeps a set of the neighbours
that need not be read again.  An item has one vertex: a longer chunk runs the same
steps in sequence and so allows fewer interleavings.  The early exit of VBBIT from
a row once the window is full skips reads that can have no effect on it.

### D1ColoringVBD

`InitialDependency` is an item of the first kernel in one step (nothing it writes
is read before the fence except the atomic counter it increments); `Visit` bans
the colour of a neighbour and tests its counter, `Decrement` is the atomic
decrement with the append, `Color` the choice, `NextWindow` the second branch of
VBDBIT; `NextRound` is the head of the while loop with the swap.  `visited` is a
history variable: the vertices whose item has ended.

### D1ColoringEB

A work item per edge `src < dst`. `LoadSource`, `LoadDest`, `ClearDest` are
`halfedge_mark_conflicts`, `ExpandLoadDest` to `SendChoice` are
`halfedge_expand_ban_for_unmatched_neighbors`: these two kernels write to vertices that other items
read, and interleave load by load. `CountConflicts` (which edges stay in the
worklist), `ShrinkWorklist`, `BanColors`, `ChooseColors` and `SetFinalColors` are one
step each: their items write only what no other item reads, or set bits by atomic
operations whose order does not show. A colour is a bit of a word and the number
of the word; here the place of the bit, and a word of bans is a set. The worklist
is a set, its order has no effect. `max_number_of_iterations` does not bound the
loop: the code says `while (1)` (line 2110).

### SpgemmNumeric

One thread of the numeric phase. With `exec = "independent"` its vector lanes advance in
any order (the build with `KOKKOSKERNELS_CUDA_INDEPENDENT_THREADS` relinks a slot before
it publishes it, `LinkSlot`), with `"lockstep"` none passes a point another has yet to
reach (the build without), and `"multicore"` is a host thread with sequential insertion.
`map[1]` is the map in shared memory, `map[2]` the row of C with lists in a pool chunk.
`ReadHead` ... `SetNext` are the lines of `vector_atomic_insert_into_hash_mergeAdd`
(HashmapAccumulator.hpp 540-607) and of the insertion with tracked hashes (367-429),
access by access; `CopyFirstLevel` the copy behind the row. `Val` gives the values of
the entries of A, any integers; TLC has powers of four, so that a sum tells what is in
it. The rows are those for which the second map is large enough: its size is that of the
largest row, rounded up (kkmem.hpp 1340-1345), which is a conjunct of `Init`. `Ahead` is
what a walk along the links can still meet, the least set that has the slot it stands at
and is closed under `nexts`; links in shared memory that were never set are arbitrary,
so that the list may lead into slots of no meaning or in a circle. The composition with
the pool is the property `ReturnsCleanChunk`: seen through the refinement mapping a row
is a user of `ChunkLending`, which `UniformMemoryPool` implements.

### SpgemmTeamNumeric

The lanes of a team insert products into two tables with linear probing: the
first in shared memory as long as it has fewer than `MaxFirst` columns, each lane
with its own copy of the flag `insert_is_on`; the second in a chunk. `MergeSlot` adds
a slot of the second to the first or writes it to C. The second table has room for
the largest row, as the size is rounded up from that (lines 1326-1344); the entries
of A contribute arbitrary integers `Val`. `loads` is the number of times
the build reads `keys[trial]` per trial: the source reads a non-volatile array
twice (lines 687 and 691), which a compiler may fold into one load or not. A
column written between the two is passed by. Properties of the result are claimed for
one load; the divergence is listed below.

### CoarsenHeuristics

`hn[u]` is the neighbour that `u` wants to aggregate with, chosen freely among those
the weights and random numbers could give. `ClaimOwn` and `ClaimOther` are the two
compare-exchanges of a round, `JoinOther` and `Undo` what happens when the second
fails; `MapFirst` and `MapSecond` the two writes of `vcmap` that others may see
between. `EndRound` and `EndMatchRound` collect the vertices that failed.
HEC's scan and propagation, GOSHv2's two adopting passes and its taking along
(`LookAlong`, `TakeAlong`), and MtMetis' leaves, twins and relatives are actions of
their own.

### Distance2MIS

Statuses are `(i + 1) | (priority << nvBits)` with the width `StatusBits`: the shift cuts a
score that is too long, which then competes as a low one. That a status never becomes
one of the two that stand for a decision rests on `nvBits`, the bits of
`numVerts + 1`, and is `StatusesApart`. The hashes of the random
priorities are arbitrary in each round. A kernel is one step: its items write
only their own entry of one array and read others. `colUpdate` is the bit of a
column that the fixed priority variant refreshes. The float that holds the range
of scores has `Mantissa` bits.

## Runs

| Run | Instance | Shows |
|---|---|---|
| `pool` | 3 threads with ids 0, 1, 4, two rows each, 2 chunks, 3 rounded to 4, or 5 rounded to 8 | `PrivateChunk`, `InitializedMemory`, `LockHasOwner`, `NullAfterFullSweep`, refinement of `ChunkLending`; every thread finishes |
| `vb` | 4 vertices; path, triangle with a tail and a self-loop, complete graph; 7 option sets; window of 2 colours | `ProperWhenChecked`, `CompleteAtEnd`, `NoVertexLost`, `ListsInBounds`, `FirstFitBound`, `GivenColorsKept`; each iteration has fewer uncoloured vertices; the call returns |
| `vb_pps` | as `vb`, PPS, lists below 3 entries or reduced by less than 35 % not compacted | counterexample to `ListsInBounds` |
| `vb_list` | as `vb`, no conflict list, vertex list of the caller | counterexample to `ProperWhenChecked` |
| `vbd` | 5 vertices, 4 graphs, both functors, a bit array of 3 bits | `EntersOnce`, `FrontierIndependent`, `Deterministic`, `ProperColors`, `EarliestRound`, `AllVisited`; termination when one window has room |
| `vbd_colors` | triangle, VBD | counterexample to `NoConflictAtEnd` |
| `vbd_bits` | complete graph on 4 vertices, VBDBIT with 3 bits | counterexample to `Terminates` |
| `eb` | 4 vertices, words of 2 colours; path, triangle with a tail, square, complete graph; colours of the caller, also in conflict | `DroppedEdgesAreSafe`, `ProperAtEnd`; the loop without a bound ends |
| `spgemm` | 2 or 3 rows over 6 columns, maps of 2 and 4 slots | `RowCorrect`, `KeyAhead`, refinement of `ChunkLending` |
| `spgemm_team` | 3 lanes, tables of 4 and 8 slots, full with 2 columns | `RowCorrect`, refinement of `ChunkLending` |
| `coarsen` | 4 heuristics on graphs of 4 to 8 vertices, all choices of `hn` | `NoHalfMatch`, `Aggregates`; the rounds end |
| `mis2` | path, ring, star, fan of 5 or 6 vertices, ring of 3, words of 8 bits | `StatusesApart`, `DistanceTwoMIS`, `AggregatesAroundRoots`, `EveryRoundDecides` |

Bounds, and why they are enough to make the interesting cases happen:

- Pool: with two chunks for three threads a search meets taken locks, gives up and
  starts again. With four chunks there is one for each thread, but ids 0 and 4 have the
  same home, so that one pushes the other off it: whether a search may go
  round and come back with NULL is then a question of the interleaving. With eight the
  ids have homes of their own, which the pool type without locks needs. Two rows let a
  chunk be used again by another thread.
- `FORBIDDEN_SIZE = 2` (64 in the code) makes rows need several passes; degrees go
  up to 3, and the complete graph needs 4 colours. `max_num_iterations` from 0 to
  5 gives convergence, serial resolution after the bound, and serial resolution
  only. `MaxColor = 9` is beyond every colour that can be given.
- VBD: the two hubs that share three neighbours make decrements of one counter
  race; the graphs have chains of several rounds and equal degrees. `WIDTH = 3`
  stands for 64. `MaxOffset` caps `colorOffset`; it is beyond all colours, where a
  further window changes nothing.
- In `vb` the conflict lists under PPS are compacted whenever a conflict is found
  (`min_vertex_cut_off = 0`, `pps_percent = 0`); the thresholds are in `vb_pps`.
- EB: `ColorSize = 2` stands for 31, so that a triangle fills a word and goes on to the
  next `color_set`; `ps_min` of 0 and 1000 compacts at once or never.
- SpGEMM: a first map of two slots overflows within one entry of A, with three or
  four lanes in it, and the columns are chosen to share lists. The row after it
  meets what the first one left in shared memory and in the chunk. In the team
  kernels three lanes insert the same column at once on both sides of the moment
  when the first table counts as full. The values are 1, 4 and 16, so that a sum tells which
  products are in it.
- Coarsening: rings and triangles whose vertices choose each other in a circle stall
  for a round, which the order breaks; a path next to isolated vertices (HEC), a
  self-loop, a star with more leaves than a matching takes. `Threshold = 2` stands for
  the degree above which GOSHv2 starts an aggregate.
- MIS-2: `StatusBits = 8` of 32, with `Mantissa = 3` of 24 in the same
  proportion; hashes are 0 or all ones, so that all can be equal or different;
  three vertices, as every `2^k - 1`, are the numbers where `numVerts + 1` needs a bit
  more than `numVerts`;
  `MaxTracked = 1` stands for 8, so that a leftover vertex meets more aggregates than
  it tracks.
- Vertices beyond `nv` (remote columns) are not in the graphs.

Fairness: `WF` of every thread or item and of the host. `parallel_for` runs each
item to its end before a fence returns, and the threads of the host backends are
scheduled preemptively; a caller that spins in `while (tmp == NULL)` relies on just
that. `ManyThread2OneChunk` is what `KokkosSparse_spgemm_impl_kkmem.hpp` 1361-1365 picks for
GPUs, whose threads need not be scheduled like that: `EveryRowProcessed` is a statement
about executions that are, the safety properties and `NullAfterFullSweep` need no
fairness. No strong fairness is used: `EveryRowProcessed` holds because a thread has
finitely many rows. `D1ColoringEB` and `CoarsenHeuristics` assume only that some item or
the host moves while any can: their termination needs no fairness among the items,
since each has finitely many steps in a kernel. The other new modules state no
liveness; that rounds of MIS-2 end is the action property `EveryRoundDecides`.

## Findings

- PPS leaves marked entries (`vertex + nv`) in the list when it does not compact
  (`vb_pps`): the next kernel indexes with them.
- The scheme without conflict list checks positions instead of vertices when the
  caller gave a list (`vb_list`).
- VBD chooses from `1 .. maxdegree - 1`; a vertex without a free colour keeps 0
  (`vbd_colors`).
- VBDBIT never leaves its loop once the 64 bits are set: the reset sets them all
  (`vbd_bits`).

Other places where the source and its words differ, met while modelling, and not
shown by a run of their own:

- `KokkosSparse_spgemm_impl_kkmem.hpp` 687-691 reads `keys[trial]` twice. If the compiler keeps
  both loads, a lane may see an empty slot first, the same column inserted by another lane
  next, and pass by: a column is inserted twice. `SpgemmTeamNumeric` has this build
  as `loads = 2`.
- `KokkosGraph_CoarsenHeuristics.hpp` 547-558: two items may take the same unmapped
  neighbour along. The second write tears it from vertices that followed it into
  the first aggregate, which may then be disconnected.
- `KokkosGraph_CoarsenHeuristics.hpp` 818 computes `% adj_size` for every vertex;
  only HEC has a case for a vertex without neighbours.
- `KokkosGraph_Distance2MIS_impl.hpp` 542-545: with 26 or more bits for the degree
  the float `2^degBits - 2` is rounded up to `2^degBits`, and the score of a vertex of
  the largest degree wraps to 0, the best priority instead of the worst. It never
  collides with the decided statuses, nor with the status of another row
  (`StatusesApart`): the vertex number in the low bits is neither zero nor all ones.
- The same file, 1003-1062: all leftover vertices move at once by the labels of
  before, so a vertex may join an aggregate because of a neighbour that leaves it. The
  comment at 1078 says the smallest aggregate is joined; the comparison puts the
  connectivity first.
- `GraphColor_EB` does not look at the maximal number of iterations (2110), and its
  header says of SYCL that it returns conflicts (1975); in a sequentially
  consistent memory it does not. The unit test leaves EB out there
  (`Test_Graph_graph_color.hpp` 113-115).
- `Test_Graph_graph_color.hpp` 100 says "VBD sometimes fails on CUDA and HIP", and the test
  leaves it out there. In this model, where steps are sequentially consistent,
  `ProperColors` and `Deterministic` hold of every interleaving; a failure on those
  devices comes from something the model does not have, or is a vertex without a
  colour as in `vbd_colors`, which no device avoids.
- `Test_Graph_coarsen.hpp` 375 leaves all coarsening tests out for SYCL ("FIXME_SYCL"),
  without a reason. The same reservation holds: `NoHalfMatch` and `Aggregates` are
  statements about sequentially consistent steps.

`vb` leaves out exactly the configurations of the first two. In `vbd` termination
is stated for graphs whose degrees are below the width of the bit array, and
`ProperColors` speaks of vertices that have a colour.

## Proofs

All theorems hold for every value of the constants that meets the named
assumptions of the modules (graphs are symmetric, sizes are natural numbers, each
chunk count has a power of two above it), with no bound on threads, vertices or
rows.

`UniformMemoryPool_proofs`. `IInv` joins the typing of the variables, where the
position of a search lies, `PrivateChunk` (two threads never have the same chunk),
`LockHasOwner` (a lock is set exactly while some thread has the chunk), `HomeOnly`
(for one-chunk-per-thread a thread has its home), `DataOfFillers` (the values in a
chunk are those of the thread that has filled it) and `RowLeft`. Privacy alone is
not inductive: that the compare-exchange finds 0 says nothing about owners without
`LockHasOwner`, and a release may clear a lock that somebody else holds without
privacy. Each action is one step of the proof. From it follow `TypeCorrect`,
`ChunksArePrivate`, `NoLockIsLost`, `MemoryIsInitialized` and, with one step or
stutter of `ChunkLending` per action, `PoolImplementsLending`.

`NullOnlyAfterFullSweep` has two invariants of its own on top of `IInv`. `SearchOK`: a search
stands `num_try` chunks after its home, and the history variable `refused` holds just the
chunks in between. That a search never gives up while there is a chunk for every thread
is a counting argument. The cyclic order of the chunks can be cut so that no final
part of the round from the cut holds the homes of more threads than it has chunks
(`CutExists`: cut where the number of homes below, less the number of chunks below, is
least). `RoomForAll` says that this stays true of the places where the threads have
come to (`Uncrowded`). A thread goes on by one place only when it is refused a chunk, and
then that chunk has a holder, by `LockHasOwner`, who stands at the same place and does
not go on: the part behind had room for one more (`RefusedHasRoom`). A thread that starts
a new search only moves back. So nobody passes the cut, and nobody makes a round.

`D1ColoringVB_proofs`. `Inductive` establishes `IInv`. Its parts follow the phases.
`ListInv`: the entries of the worklist are vertices. In the greedy kernel only
vertices coloured by this kernel can clash (`GreedyClash`), a work item colours only
list entries without a given colour (`GreedyList`), and of every neighbour not
being coloured a work item has still to read the colour, has forbidden it, or has it
outside its window (`GreedyKnows`). In the conflict kernel, the heart of it: for
each edge with equal colours the item of the lower end is still to read the upper
one or is about to uncolour its own (`ConflictInv`). Neither kernel alone keeps the
colouring proper, so `ProperWhenChecked` is not inductive; it follows at the fence,
when nothing is left to be read. `ColoringTypeCorrect`,
`ColoringIsProper` and `FixedColorsStay` follow. They are stated under
`SoundOptions`: the scheme is `COLORING_ATOMIC` (the default) or
`COLORING_NOCONFLICT`, the latter without a list of the caller. Outside it two of
the findings are counterexamples; PPS with compaction
always is model-checked only.

`D1ColoringEB_proofs`. The kernels race on both ends of every edge, so that the
invariant says what each phase leaves to the next. `MarkInv`: while conflicts
are marked, of two neighbours with equal permanent colours an item is still to look, or
has looked and is about to clear its higher end, and an edge outside the worklist
can have no such colours. `RoundInv`: after that no edge has equal
colours, the bans of a vertex hold the colours of its dropped neighbours, and a
tentative colour differs from every permanent one around it. `DroppedEdgesAreSafe` is what
makes the worklist shrink without loss; it is inductive only with the others.
`Invariance`, `TypeCorrect`, `DroppedEdges`, `ProperColoring` hold for every symmetric
graph, word size, colouring of the caller, and compaction rule.

The second half of the module rests on `Inductive` and has the same `SoundOptions`. Its
invariant `LInv` needs, first, that no vertex is on a work list twice (`WorkLists`):
without it the atomic appends could outgrow their array, and two items could
write the same vertex. Second, that a vertex without a colour is always accounted
for: in the greedy kernel an item is colouring it (`GreedyLists`), in the conflict
kernel it is on the old list, on the new one and in the count (`ConflictLists`), in the serial
loop it lies ahead (`SerialList`). Third, for first fit, that every colour an item has
passed over is the colour of a neighbour (`GreedyFit`). That survives the race because
no neighbour loses or changes a colour during the kernel, and a neighbour that is being
coloured has none. `ListsStayInBounds`, `NoVertexIsLost`,
`ColoringIsComplete` and `ColorsFitDegrees` follow, the last by counting the colours
around a vertex. `EachIterationShrinks` needs a witness that the state does not hold:
a set `W` of no more vertices than the iteration before has counted, with all that the
iteration colours, and a vertex `m` of it (`KeepsOne`). Only vertices of `W` clash, so
that the highest of them clashes with none above it, its item never sees a conflict
and it keeps its colour; the count therefore falls.

`D1ColoringVBD_proofs`. The centre of `IInv` is `CountInv`: the counter of a vertex that is
not on a frontier is the number of higher neighbours that have not counted it down
(`Waiting`), where an item between its read of the counter and its decrement has
not (`Passed`). So only the last decrement brings it to zero, and then all the vertices it
waited for are in the present frontier or an earlier one. From this: a vertex enters
once (`EachEntersOnce`), neighbours are never on one frontier (`FrontiersAreIndependent`), and
an item bans the colour of every neighbour it has read, which is final by then
(`ItemInv`, `NeighborsDiffer`). `EveryoneVisited` takes the highest of the vertices
that would be left: what it waits for is higher still. The order is total, by
score and number, and the graph finite and symmetric; no other assumption is made.

That the result does not depend on the schedule needs more. `SequentialColor` and
`Depth` are recursive functions over the graph: the least colour that no higher
neighbour has, and the length of the longest chain of higher neighbours. A recursive
function is only what its equation says if it exists, and the prover knows that of
recursion over numbers alone. So the proof builds it over sets of vertices that
contain all higher neighbours of their members (`RecursionOverGraph`): the set can
always take the highest vertex outside, until it has them all (`GrowsToAll`).
`ScheduleInv` then holds of every interleaving: what a vertex has read is what the
sequential colouring would have read (`BansInv`, `VisitedInv`), and a vertex
enters in the round after the last of those it waits for (`EntryInv`).
`ColoringIsDeterministic` and `NobodyWaitsLonger` are read off it.

`CoarsenHeuristics_proofs`. `Claims` says who holds what in the middle of a round: an item
holds the vertices it has won by a compare-exchange until it has mapped them or
taken its claim back (`Holds`). A vertex without an aggregate is claimed exactly while one
item holds it, and never by two; a mapped vertex stays claimed. Each access of an item
is a step of the proof. When all items are out nobody holds anything, and
`NobodyIsHalfMatched` follows.

`AInv` adds what the maps are in each kernel, and has the result, `Aggregates`, as its
last part. `Aggregates` speaks of the end only, so that nearly everything has to be said
of the kernels before. `Numbered`: every number that was given out is that of a vertex,
or of one item that has drawn it and is about to write it, since a number drawn from the
counter and never written would be an empty coarse vertex. `Paired`: a matching has at
most two vertices under a number, and while the second one is still to be mapped the
first is alone. `Rooted`: in HEC the root named by a mapped vertex is in
its own aggregate, or the item that holds it is about to put it there; this needs
`Claims`, by which nobody else can take the root meanwhile. `Renaming` says what
the scan leaves to the propagation: root numbers below `n`, pointers to roots above, so
that a concurrent reader of `vcmap[root]` cannot take one for the other. `Seeded`:
GOSHv2's vertices that are taken along twice never empty an aggregate, because the
vertex that started it stays. An aggregate of HEC or Match only grows, by vertices
joined to a member (`GrowsTogether`). For MtMetis `LeavesApart` and `TwinsApart` show
that no unmapped vertex is in two of the pairs made in one kernel, although all
neighbourhoods are paired up at once: a leaf has one neighbour only, and twins,
with or without collisions of the hash, fall into classes.
`AggregatesInTheMaking` is the invariance, `CoarseVerticesAreSound` the result. Of the
problems `Claims` needs `ProblemAssumption` only; `LeavesApart` needs
`SymmetryAssumption`, that MtMetis is given a symmetric graph, as the unit tests give
it one: otherwise a leaf could be next
to two mapped vertices.

`Distance2MIS_proofs`. It starts from the numbers: the status packs a score and a vertex
number into one word (`StatusFacts`), so that no two rows have the same status, and
none has that of a decision, for every width, hash and range of degrees
(`StatusesStayApart`). `RowInv`
says which rows are decided where, `ColInv` what the columns know: a column off
FAST's worklist is closed for good (`Closed`), and QUALITY's columns are up to date
although only those are refreshed that a deciding row had defined
(`IterateStep`, the heart of that algorithm). With columns that are up to date a
row comes in only when it is alone within two hops and drops out only near a member,
and the row with the least status of all cannot be passed over (`DecideRows`). `SetInv`
follows, and from `MISInv` at the end of the rounds `ListIsMaximalIndependent` and
`RoundsDecide`. For the aggregates `AggInv` says that each root keeps the label of its
rank, the vertices of an aggregate are next to its root, and every vertex has one next to
it that has a label; the leftovers move at the same time by what the labels were, to
an aggregate around them (`BestAggFacts`), so that nobody ends farther than two hops
from a root. `AggregatesCover` is the result. It assumes `ProblemAssumption` (a
symmetric graph whose vertices fit the status), `WidthAssumption` (powers of two
multiply, which the prover does not know), `HashAssumption`, and that at least one aggregate
is tracked (`TrackedAssumption`, the code tracks eight).

`SpgemmTeamNumeric_proofs`. The invariant is `IInv`: `Chunks` says for every build when
the team has a chunk, and `InOrder`, for the build with one load, what is in the tables.
Its centre is `Accounted`: of each column the two tables together hold the sum of the products
that are done (`Done`), or the row of C does and no table has the column. `RowCorrect` speaks of
the written row only; it is what `Accounted` says when all products are done. To keep
`Accounted`, an insertion must not give a table the same column twice. That is why `Tables` has
`KeysOnce` and `Probed`, a column is never behind an empty slot on its way, and `LaneKnows`
says what a lane still knows of slots it has passed, whatever others write meanwhile:
keys never leave a table while products are inserted, so that a slot passed by stays taken by
another column. A lane that finds its slot empty and loses the exchange looks again;
with two loads per trial it does not, and `LaneKnows` is false. `Counted` relates the
counter of the first table to its slots: it is behind by the lanes that
have filled a slot and not counted it. From this it follows that a lane stops
adding to the first table (`insert_is_on`) only in a row of more than `MaxFirst` columns, for
which the team has a chunk: the two agree although the one is read from a racing counter
and the other from the size of the row. That a free slot is
always found needs the pigeonhole: a table with at least as many slots as the row has columns
has a slot for a column that is not in it (`FullTable`). `MergeSlot` adds a column of the
second table to its slot of the first, which `Probed` lets the search find, or appends it to C
when the first has none; either way its sum is kept and it is in one place.
`RowsAreCorrect` and `ChunksGoBackClean` are read off `IInv`, the latter with one step or
stutter of `ChunkLending` per action. Besides the sizes the assumptions are that
the lanes are `0 .. n - 1` (`LanesAssumption`) and that values are integers (`ValAssumption`):
the sums of floating point numbers depend on the order, and nothing is said of rounding.
The sum of `RowCorrect` is a fold over a set; the lemmas use only what its
definition says, by the recursive function `Total`.

`SpgemmNumeric_proofs`. The invariant is `IInv`, of four parts. `KeysOK` and `LaneOK`
are about slots: those written hold columns of the row, each once on both levels, and a
lane that has reserved a slot owns it. What makes a second slot for the same column
impossible is that there is one lane per column, and that a lane past its walk has found
the column on no level it has left. `SumsOK`: a slot holds the sum of the products of
its column done so far (`Done`), and a column with such products has a slot. `ListsOK`
is about the links: there is a ranking of the pushed slots, in the order in which they
became heads, such that each head is the slot of its hash that was pushed last, and each
link leads to the slot of that hash pushed last before (`Latest`). A slot between its
push and its link (`track`, `next`) is the exception. In a build for independent threads
it has a link that the lane read before its push, which may skip slots of other lanes of
the same hash, but none that was there when the lanes began (`Reaches`): their columns
are not sought by others, as lanes have different columns. Without independent threads
no lane may read before every push is linked (`InStep`). `KeysAreAhead` follows: the
slot a lane looks for has a rank not above that of the place where it stands
(`SoughtAt`), and the slots of its hash of lower rank are in every set that is closed
under the links. `NotFound` rests on the same fact, read the other way round, and
`SumsOK` on `NotFound`. The ranking is a bound variable of the invariant, which each
push extends by one rank, so that the model needs no variable for it. `DirtyOK`: each
head of the second map that is set is in the list of dirty hashes, or a lane is about to
put it there. Therefore `ResetBegins` leaves no head set, which is `ChunksGoBackClean`,
with one step or stutter of `ChunkLending` per action. `RowsAreCorrect`: when no entry
is left, `Done` is all products, the two levels together have the columns of the row,
and `CopyFirstLevel` moves the first level behind the second (`MergedRow`), where there
is room because a full first level has `KeySize[1]` columns. The sequential insertion of
a host thread (`InsertKeeps`) keeps the same invariant with an empty first level. The
assumptions are that there are finitely many columns, that sizes are positive, and that
values are integers.

The lemmas on which several proofs rest stand at the head of each module that uses them:
a list without repetitions is as long as the set of its entries, and stays without them
when something new is appended; a set of numbers has a least one, and a bounded one a
greatest; the ranks in a finite set of numbers are `0 .. Cardinality - 1`, each once; a
set without three different members has at most two; a sum over a finite set exists, and
grows by the value of a new member (`TotalInsert`), by looking at a smallest set where
it would fail.

Model-checked only:

- Liveness (`EveryRowProcessed`, `Terminates`, `TerminatesInOneWindow`, `Coarsens`), which is
  out of the prover's reach.
- PPS with compaction always, in VB.

## Not modelled

Weak memory (the release of a chunk is a plain store; steps here are
sequentially consistent, as the relaxed atomics of a device need not be), VBCS, the
serial base class, colouring with remote vertices, given colours in VBD, the
setters of the handles, the symbolic phase of SpGEMM (the numeric models take its
counts as exact, and rows of B without repeated columns and sorted or not), dense
accumulators, GOSH v1 and the MIS-2 mapping of the coarsening, and the parts marked
`not_modelled` in `PROJECT.json` with the reason for each. In Match, MtMetis and GOSHv2
the graphs have no isolated vertices. Floating-point results are out of reach. Most of
the library's lines are such arithmetic, vendor wrappers, test data or the vendored
test framework under `tpls`, so that the mapped share of all lines is small by
nature.

## Plan

Done: pool, VB, VBD, EB, hash map and numeric SpGEMM, coarsening heuristics, MIS-2 and
aggregation. What is left, in this order:

1. Distance-2 colouring as a second instance of speculate and repair.
2. Coarse graph construction as a client of pool and hash map.
3. Level scheduling of the triangular solve; the symbolic/numeric protocols of the
   SpGEMM and Gauss-Seidel handles; Gauss-Seidel over an abstract colouring.
4. Pure algorithms: merge path, bitonic sort, RCM, against reference definitions.

Abstract specifications worth stating: the lending of chunks (done, implemented by
the pool and used by both SpGEMM models), a proper colouring computed in one step, a
matching.

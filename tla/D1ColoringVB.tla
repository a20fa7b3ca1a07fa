---------------------------- MODULE D1ColoringVB ----------------------------
(***************************************************************************)
(* GraphColor_VB of graph/impl/KokkosGraph_Distance1Color_impl.hpp: the    *)
(* speculative distance-1 colouring of the vertices of a graph (VB and     *)
(* VBBIT, with and without edge filtering, all three conflict schemes).    *)
(*                                                                         *)
(* An iteration launches two kernels with one work item per entry of the   *)
(* vertex list.  The greedy kernel colours uncoloured vertices first-fit   *)
(* while it reads the colours that other items are writing; the conflict   *)
(* kernel uncolours the lower end of every edge with equal colours, while  *)
(* other items do the same.  Every read of a neighbour's colour and every  *)
(* write of a vertex's colour is a step, the steps of the items interleave *)
(* freely, and the host passes a fence when all items have ended.  What is *)
(* still uncoloured after the last iteration is coloured serially.         *)
(*                                                                         *)
(* The neighbours of a row are read in any order: the entries of a CRS row *)
(* need not be sorted.  An item colours one vertex (chunkSize_ = 1, which  *)
(* allows all the interleavings of longer chunks).                         *)
(***************************************************************************)
EXTENDS Integers, FiniteSets

CONSTANTS
  nv,                \* number of vertices
  Graphs,            \* the adjacency functions to colour
  StartColors,       \* the colours a caller may give, 0 for none
  Options,           \* the combinations of handle parameters
  FORBIDDEN_SIZE,    \* colours that one pass over a row can tell apart
  min_vertex_cut_off,\* PPS: lists shorter than this are not compacted ...
  pps_percent,       \* ... nor those reduced by less than this percentage
  MaxColor           \* bound on the colours the model looks at

V == 0 .. nv - 1
Scheme == {"NOCONFLICT", "ATOMIC", "PPS"}

ASSUME SizeAssumption ==
  /\ nv \in Nat \ {0}
  /\ FORBIDDEN_SIZE \in Nat \ {0}
  /\ min_vertex_cut_off \in Nat
  /\ pps_percent \in 0 .. 100
  /\ MaxColor \in Nat

\* The graphs are symmetric; self-loops are allowed.
ASSUME GraphAssumption ==
  \A g \in Graphs : /\ g \in [V -> SUBSET V]
                    /\ \A u, v \in V : u \in g[v] => v \in g[u]

ASSUME OptionAssumption ==
  Options \subseteq [algorithm : {"VB", "VBBIT"}, conflict_scheme : Scheme, serial : BOOLEAN,
                     edge_filtering : BOOLEAN, use_vtx_list : BOOLEAN, max_num_iterations : Nat]

ASSUME ColorAssumption == StartColors \subseteq [V -> Nat]

VARIABLES
  adj,            \* the graph
  opt,            \* the parameters of the handle
  given,          \* the colours the caller gave
  colors,         \* vertex_colors_
  vertexList, vertexListLength,
  recolorList, recolorListLength,
  numUncolored,   \* host: the result of the last conflict kernel
  numConflicts,   \* the reduction of the running conflict kernel
  iter,
  phase,          \* the kernel that runs: greedy, conflict, serial; or done
  item,           \* item[ii]: the work item of list position ii
  next            \* the position that the serial loop is at

vars == <<adj, opt, given, colors, vertexList, vertexListLength, recolorList,
          recolorListLength, numUncolored, numConflicts, iter, phase, item, next>>
input == <<adj, opt, given>>
lists == <<vertexList, vertexListLength, recolorList, recolorListLength>>
host == <<numUncolored, iter, next>>

\* No two neighbours have the same colour; 0 is no colour.
Proper(g, c) == \A u, v \in V : u \in g[v] /\ u # v /\ c[u] > 0 => c[u] # c[v]

Neighbors(i) == adj[i] \ {i}

-----------------------------------------------------------------------------
(***************************************************************************)
(* Kernel launches.  An item reads the colour of its own vertex, which no  *)
(* other item writes, when the kernel starts.                              *)
(***************************************************************************)
Idle == [pc |-> "end", offset |-> 0, unread |-> {}, forbidden |-> {}, filtered |-> {}]

\* One pass over the row, whose window starts at offset: with colour 1, or (VB
\* with edge filtering) with colour 0, which is forbidden by convention.
FirstPass(g, i, fromZero) ==
  [pc |-> "scan", offset |-> IF fromZero THEN 0 ELSE 1, unread |-> g[i] \ {i},
   forbidden |-> IF fromZero THEN {0} ELSE {}, filtered |-> {}]

FromZero(o) == o.algorithm = "VB" /\ o.edge_filtering

\* every listed vertex is coloured again
MUT_GreedyItems(g, o, c, list, len) ==
  [ii \in V |-> IF ii < len THEN FirstPass(g, list[ii], FromZero(o)) ELSE Idle]

GreedyItems(g, o, c, list, len) ==
  [ii \in V |-> IF ii < len /\ list[ii] \in V /\ c[list[ii]] = 0
                THEN FirstPass(g, list[ii], FromZero(o)) ELSE Idle]

\* the vertex that the conflict kernel and the serial loop look at
Target(ii) == IF opt.conflict_scheme = "NOCONFLICT" THEN ii ELSE vertexList[ii]

\* without the restriction to higher neighbours both ends are uncoloured
MUT_AllNeighbors(i) == Neighbors(i)
HigherNeighbors(i) == {n \in adj[i] : i < n}

\* the conflict kernel misses the last entry of the list
MUT_FewerItems ==
  [ii \in V |-> IF ii < vertexListLength - 1
                THEN [Idle EXCEPT !.pc = "scan", !.unread = HigherNeighbors(Target(ii))]
                ELSE Idle]

ConflictItems ==
  [ii \in V |-> IF ii < vertexListLength
                THEN [Idle EXCEPT !.pc = "scan", !.unread = HigherNeighbors(Target(ii))]
                ELSE Idle]

\* a list given by the caller holds the uncoloured vertices
GivenList(c, list, len) ==
  /\ \A k \in V : k >= len => list[k] = 0
  /\ \A j, k \in 0 .. len - 1 : j < k => list[j] < list[k]
  /\ {list[k] : k \in 0 .. len - 1} = {v \in V : c[v] = 0}

Init ==
  /\ adj \in Graphs
  /\ opt \in Options
  /\ given \in {c \in StartColors : Proper(adj, c)}
  /\ colors = given
  /\ IF opt.use_vtx_list
     THEN /\ vertexListLength \in 0 .. nv
          /\ vertexList \in [V -> V]
          /\ GivenList(given, vertexList, vertexListLength)
     ELSE /\ vertexListLength = nv
          /\ vertexList = [ii \in V |-> ii]
  /\ recolorList = [ii \in V |-> 0]
  /\ recolorListLength = 0
  /\ numUncolored = nv
  /\ numConflicts = 0
  /\ iter = 0
  /\ phase = IF opt.max_num_iterations > 0 THEN "greedy" ELSE "serial"
  /\ item = IF phase = "greedy"
            THEN GreedyItems(adj, opt, colors, vertexList, vertexListLength)
            ELSE [ii \in V |-> Idle]
  /\ next = 0

-----------------------------------------------------------------------------
(* colorGreedy *)

Window(ii) == item[ii].offset .. item[ii].offset + FORBIDDEN_SIZE - 1

\* item ii reads the colour of one more neighbour n
GreedyRead(ii) ==
  /\ phase = "greedy" /\ item[ii].pc = "scan"
  /\ \E n \in item[ii].unread :
       LET c == colors[n]
       IN item' = [item EXCEPT
            ![ii].unread = @ \ {n},
            ![ii].forbidden = IF c \in Window(ii) THEN @ \union {c} ELSE @,
            ![ii].filtered = IF opt.edge_filtering /\ c > 0 /\ c < item[ii].offset + FORBIDDEN_SIZE
                             THEN @ \union {n} ELSE @]
  /\ UNCHANGED <<input, colors, lists, host, numConflicts, phase>>

\* the last free colour of the window in the place of the first
MUT_PickLast(ii) ==
  /\ phase = "greedy" /\ item[ii].pc = "scan" /\ item[ii].unread = {}
  /\ \E c \in Window(ii) \ item[ii].forbidden :
       /\ \A d \in Window(ii) \ item[ii].forbidden : d <= c
       /\ colors' = [colors EXCEPT ![vertexList[ii]] = c]
  /\ item' = [item EXCEPT ![ii].pc = "colored"]
  /\ UNCHANGED <<input, lists, host, numConflicts, phase>>

\* the row has been read: the first colour of the window that is not forbidden
GreedyColor(ii) ==
  /\ phase = "greedy" /\ item[ii].pc = "scan" /\ item[ii].unread = {}
  /\ \E c \in Window(ii) \ item[ii].forbidden :
       /\ \A d \in Window(ii) \ item[ii].forbidden : c <= d
       /\ colors' = [colors EXCEPT ![vertexList[ii]] = c]
  /\ item' = [item EXCEPT ![ii].pc = "colored"]
  /\ UNCHANGED <<input, lists, host, numConflicts, phase>>

\* another pass with the same window
MUT_SamePass(ii) ==
  /\ phase = "greedy" /\ item[ii].pc = "scan" /\ item[ii].unread = {}
  /\ Window(ii) \subseteq item[ii].forbidden
  /\ item' = [item EXCEPT ![ii].unread = Neighbors(vertexList[ii]) \ item[ii].filtered]
  /\ UNCHANGED <<input, colors, lists, host, numConflicts, phase>>

\* The first colour of the last window the loop allows; VBBIT counts from 0.
\* FirstFitBound: no item gets beyond it, where it would end without a colour.
LastOffset(i) == Cardinality(adj[i]) + FORBIDDEN_SIZE + (IF opt.algorithm = "VBBIT" THEN 1 ELSE 0)

\* ... or, when all are forbidden, another pass with the next window
GreedyNextPass(ii) ==
  /\ phase = "greedy" /\ item[ii].pc = "scan" /\ item[ii].unread = {}
  /\ Window(ii) \subseteq item[ii].forbidden
  /\ item[ii].offset + FORBIDDEN_SIZE <= LastOffset(vertexList[ii])
  /\ item' = [item EXCEPT ![ii].offset = @ + FORBIDDEN_SIZE,
                          ![ii].unread = Neighbors(vertexList[ii]) \ item[ii].filtered,
                          ![ii].forbidden = {}]
  /\ UNCHANGED <<input, colors, lists, host, numConflicts, phase>>

\* fence, then findConflicts
GreedyFence ==
  /\ phase = "greedy"
  /\ \A ii \in V : item[ii].pc # "scan"
  /\ phase' = "conflict"
  /\ numConflicts' = 0
  /\ item' = ConflictItems
  /\ UNCHANGED <<input, colors, lists, host>>

-----------------------------------------------------------------------------
(* findConflicts *)

\* the higher neighbour n has another colour: on to the next one
ConflictPass(ii) ==
  /\ phase = "conflict" /\ item[ii].pc = "scan"
  /\ \E n \in item[ii].unread :
       /\ colors[n] # colors[Target(ii)]
       /\ item' = [item EXCEPT ![ii].unread = @ \ {n}]
  /\ UNCHANGED <<input, colors, lists, host, numConflicts, phase>>

\* the higher neighbour n has the same colour: the vertex is to lose its own
ConflictSeen(ii) ==
  /\ phase = "conflict" /\ item[ii].pc = "scan"
  /\ \E n \in item[ii].unread : colors[n] = colors[Target(ii)]
  /\ item' = [item EXCEPT ![ii].pc = "clash", ![ii].unread = {}]
  /\ UNCHANGED <<input, colors, lists, host, numConflicts, phase>>

\* a recolour list whose counter is not advanced
MUT_Remember(ii) ==
  CASE opt.conflict_scheme = "NOCONFLICT" -> UNCHANGED lists
    [] opt.conflict_scheme = "PPS" ->
         /\ vertexList' = [vertexList EXCEPT ![ii] = @ + nv]
         /\ UNCHANGED <<vertexListLength, recolorList, recolorListLength>>
    [] opt.conflict_scheme = "ATOMIC" ->
         /\ recolorList' = [recolorList EXCEPT ![recolorListLength] = Target(ii)]
         /\ UNCHANGED <<vertexList, vertexListLength, recolorListLength>>

\* how the three functors remember the vertex: not at all, with a mark on its
\* list entry, or at the position an atomic counter gives
Remember(ii) ==
  CASE opt.conflict_scheme = "NOCONFLICT" -> UNCHANGED lists
    [] opt.conflict_scheme = "PPS" ->
         /\ vertexList' = [vertexList EXCEPT ![ii] = @ + nv]
         /\ UNCHANGED <<vertexListLength, recolorList, recolorListLength>>
    [] opt.conflict_scheme = "ATOMIC" ->
         /\ recolorList' = [recolorList EXCEPT ![recolorListLength] = Target(ii)]
         /\ recolorListLength' = recolorListLength + 1
         /\ UNCHANGED <<vertexList, vertexListLength>>

\* a vertex in conflict is marked with -1
MUT_MarkMinusOne(ii) ==
  /\ phase = "conflict" /\ item[ii].pc = "clash"
  /\ colors' = [colors EXCEPT ![Target(ii)] = -1]
  /\ Remember(ii)
  /\ numConflicts' = numConflicts + 1
  /\ item' = [item EXCEPT ![ii] = Idle]
  /\ UNCHANGED <<input, host, phase>>

\* uncolour the vertex, remember and count it
Uncolor(ii) ==
  /\ phase = "conflict" /\ item[ii].pc = "clash"
  /\ colors' = [colors EXCEPT ![Target(ii)] = 0]
  /\ Remember(ii)
  /\ numConflicts' = numConflicts + 1
  /\ item' = [item EXCEPT ![ii] = Idle]
  /\ UNCHANGED <<input, host, phase>>

\* the prefix sum that collects the marked entries of the list
IsCompaction(list, len, new) ==
  \A k \in 0 .. len - 1 :
    list[k] >= nv => new[Cardinality({j \in 0 .. k - 1 : list[j] >= nv})] = list[k] - nv

Compacts == /\ opt.conflict_scheme = "PPS" /\ numConflicts > 0
            /\ vertexListLength >= min_vertex_cut_off
            /\ 100 * numConflicts < (100 - pps_percent) * vertexListLength

Compacted == CHOOSE new \in [V -> V] : IsCompaction(vertexList, vertexListLength, new)

swap_work_arrays == opt.conflict_scheme = "ATOMIC" \/ Compacts

\* whether the loop ends with this iteration
LastIteration == opt.serial \/ ~(iter + 1 < opt.max_num_iterations) \/ numConflicts = 0

\* a swap that keeps the old counter
MUT_SwapLists(new) ==
  IF ~opt.serial /\ swap_work_arrays /\ iter + 1 < opt.max_num_iterations
  THEN /\ vertexList' = new /\ recolorList' = vertexList
       /\ vertexListLength' = numConflicts
       /\ UNCHANGED recolorListLength
  ELSE /\ recolorList' = new /\ UNCHANGED <<vertexList, vertexListLength, recolorListLength>>

\* the work lists change places, with a new counter at 0
SwapLists(new) ==
  IF ~opt.serial /\ swap_work_arrays /\ iter + 1 < opt.max_num_iterations
  THEN /\ vertexList' = new /\ recolorList' = vertexList
       /\ vertexListLength' = numConflicts
       /\ recolorListLength' = 0
  ELSE /\ recolorList' = new /\ UNCHANGED <<vertexList, vertexListLength, recolorListLength>>

\* fence, then the end of the iteration: the next greedy kernel, the serial
\* loop or the end
ConflictFence ==
  /\ phase = "conflict"
  /\ \A ii \in V : item[ii].unread = {} /\ item[ii].pc # "clash"
  /\ numUncolored' = numConflicts
  /\ SwapLists(IF Compacts THEN Compacted ELSE recolorList)
  /\ iter' = IF opt.serial THEN iter ELSE iter + 1
  /\ phase' = IF ~LastIteration THEN "greedy" ELSE IF numConflicts > 0 THEN "serial" ELSE "done"
  /\ item' = IF LastIteration THEN [ii \in V |-> Idle]
             ELSE GreedyItems(adj, opt, colors, vertexList', vertexListLength')
  /\ UNCHANGED <<input, colors, numConflicts, next>>

-----------------------------------------------------------------------------
(* resolveConflicts *)

\* The array forbidden[nv] is not initialised: an entry may hold the number of
\* the vertex by chance, and forbid a colour that no neighbour has.
Forbidden(i) == {{colors[n] : n \in Neighbors(i)} \union garbage : garbage \in SUBSET (1 .. nv - 1)}

\* the smallest colour that the array does not forbid
SerialColor(i) ==
  \E f \in Forbidden(i) : \E c \in 1 .. MaxColor :
    /\ c \notin f
    /\ \A d \in 1 .. c - 1 : d \in f
    /\ colors' = [colors EXCEPT ![i] = c]

\* the serial loop misses the last entry
MUT_SerialEnd == vertexListLength - 1

SerialEnd == IF opt.conflict_scheme = "NOCONFLICT" THEN nv ELSE vertexListLength

SerialStep ==
  /\ phase = "serial" /\ next < SerialEnd
  /\ IF colors[Target(next)] > 0 THEN UNCHANGED colors ELSE SerialColor(Target(next))
  /\ next' = next + 1
  /\ UNCHANGED <<input, lists, numUncolored, numConflicts, iter, phase, item>>

SerialDone ==
  /\ phase = "serial" /\ next >= SerialEnd
  /\ phase' = "done"
  /\ UNCHANGED <<input, colors, lists, host, numConflicts, item>>

-----------------------------------------------------------------------------
ItemStep(ii) == \/ GreedyRead(ii) \/ GreedyColor(ii) \/ GreedyNextPass(ii)
                \/ ConflictPass(ii) \/ ConflictSeen(ii) \/ Uncolor(ii)

HostStep == GreedyFence \/ ConflictFence \/ SerialStep \/ SerialDone

Terminated == phase = "done" /\ UNCHANGED vars

Next == (\E ii \in V : ItemStep(ii)) \/ HostStep \/ Terminated

Spec == Init /\ [][Next]_vars

\* Every work item of a kernel that can move eventually moves, and so does the
\* host: parallel_for runs all its items to the end before the fence returns.
FairSpec == Spec /\ WF_vars(HostStep) /\ \A ii \in V : WF_vars(ItemStep(ii))

-----------------------------------------------------------------------------
ItemType == [pc : {"scan", "colored", "clash", "end"}, offset : Nat, unread : SUBSET V,
             forbidden : SUBSET Nat, filtered : SUBSET V]

\* The variables keep their types.
TypeOK ==
  /\ adj \in Graphs /\ opt \in Options /\ given \in [V -> Nat]
  /\ colors \in [V -> Nat]
  /\ vertexList \in [V -> Nat] /\ recolorList \in [V -> Nat]
  /\ vertexListLength \in Nat /\ recolorListLength \in Nat
  /\ numUncolored \in Nat /\ numConflicts \in Nat /\ iter \in Nat /\ next \in Nat
  /\ phase \in {"greedy", "conflict", "serial", "done"}
  /\ item \in [V -> ItemType]

\* The list entries that a greedy kernel or the serial loop uses as vertices are
\* vertices, and no list is longer than its array of nv entries, whatever marks,
\* counters and swaps the conflict schemes leave behind (lines 361-368, 532-595).
ListsInBounds ==
  /\ vertexListLength \in 0 .. nv
  /\ recolorListLength \in 0 .. nv
  /\ phase \in {"greedy", "serial"} =>
       \A k \in 0 .. vertexListLength - 1 : vertexList[k] \in V

Uncolored == {v \in V : colors[v] = 0}
Listed == {vertexList[k] : k \in 0 .. vertexListLength - 1}

\* The colouring is proper when color_graph returns, and after every conflict
\* kernel: racing reads in both kernels leave no edge with equal colours.
ProperWhenChecked ==
  phase \in {"serial", "done"} \/ (phase = "greedy" /\ \A ii \in V : item[ii].pc # "colored")
    => Proper(adj, colors)

\* Every vertex has a colour when color_graph returns.
CompleteAtEnd == phase = "done" => Uncolored = {}

\* No uncoloured vertex is dropped from the work list: whatever the order of the
\* atomic appends, each one is on the list that the next kernel goes through,
\* and the count that ends the loop is theirs.
NoVertexLost ==
  /\ phase = "greedy" /\ opt.conflict_scheme # "NOCONFLICT" => Uncolored \subseteq Listed
  /\ phase = "serial" /\ opt.conflict_scheme # "NOCONFLICT" =>
       Uncolored \subseteq {vertexList[k] : k \in next .. vertexListLength - 1}
  /\ phase = "conflict" => numConflicts = Cardinality(Uncolored)

\* First fit under races: no vertex gets a colour beyond its degree plus one,
\* so the passes over the row always find one.
FirstFitBound ==
  phase \in {"greedy", "conflict"} =>
    \A v \in V : colors[v] # given[v] => colors[v] <= Cardinality(Neighbors(v)) + 1

\* "Any positive value in the given array will make the algorithm to assume that
\* the color is fixed" (lines 270-274).
GivenColorsKept == \A v \in V : given[v] > 0 => colors[v] = given[v]

\* Each iteration leaves fewer uncoloured vertices than the one before: the
\* highest vertex of the list never loses a conflict.
IterationsShrink == [][ConflictFence => numUncolored' < numUncolored]_vars

\* color_graph returns.
Terminates == <>(phase = "done")
=============================================================================

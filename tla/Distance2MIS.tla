---------------------------- MODULE Distance2MIS ----------------------------
(***************************************************************************)
(* graph/impl/KokkosGraph_Distance2MIS_impl.hpp and                        *)
(* graph/src/KokkosGraph_MIS2.hpp: a maximal set of vertices no two of     *)
(* which are within two hops, and the aggregates around such a set.        *)
(*                                                                         *)
(* A vertex is a row, which wants to be in the set, and a column, which    *)
(* passes on the least status of the rows next to it.  FAST draws the      *)
(* statuses anew in each round; QUALITY derives them from the degree once  *)
(* and recomputes only the columns that changed.  Aggregation calls FAST   *)
(* on all vertices and, to make more aggregates, on those without one.     *)
(*                                                                         *)
(* No kernel writes what another item of it reads, so a kernel is a step.  *)
(* Worklists are sets: nothing depends on their order.                     *)
(***************************************************************************)
EXTENDS Integers, Sequences, FiniteSets

CONSTANTS
  Problems,    \* [api, rows]: the call, and the entries of each row of a symmetric
               \* graph, where columns that are not rows may occur
  StatusBits,  \* width of status_t
  Mantissa,    \* width of the mantissa of float
  Hashes,      \* what xorshiftHash may leave for the high bits of a status
  MaxTracked   \* aggregates that AssignLeftover compares

ASSUME WidthAssumption ==
  /\ StatusBits \in Nat \ {0} /\ Mantissa \in Nat
  /\ \A b \in 0 .. StatusBits : 2 ^ b \in Nat \ {0} /\ 2 ^ b * 2 ^ (StatusBits - b) = 2 ^ StatusBits
ASSUME TrackedAssumption == MaxTracked \in Nat \ {0}
ASSUME HashAssumption == Hashes \subseteq Nat
ASSUME ProblemAssumption ==
  \A p \in Problems :
    /\ p.api \in {"FAST", "QUALITY", "COARSEN", "AGGREGATE"}
    /\ LET m == Cardinality(DOMAIN p.rows)
       IN  m \in Nat \ {0} /\ p.rows \in [0 .. m - 1 -> Seq(Nat)] /\ m + 1 < 2 ^ StatusBits
    /\ \A u, v \in DOMAIN p.rows :
         (\E k \in DOMAIN p.rows[u] : p.rows[u][k] = v) => \E k \in DOMAIN p.rows[v] : p.rows[v][k] = u

VARIABLES
  api, rows,             \* the problem
  rowStatus, colStatus,
  rowWork, colWork,      \* the worklists
  colUpdate,             \* QUALITY: colUpdateBitset
  labels, roots, numAggs,
  ph                     \* the next kernel

problem == <<api, rows>>
aggregates == <<labels, roots, numAggs>>
vars == <<api, rows, rowStatus, colStatus, rowWork, colWork, colUpdate, labels, roots, numAggs, ph>>

IN_SET == 0
OUT_SET == 2 ^ StatusBits - 1

V == DOMAIN rows
n == Cardinality(V)

\* the union of u and its neighbours
Near(u) == {u} \union {v \in V : \E k \in DOMAIN rows[u] : rows[u][k] = v}

\* the bits of numVerts, with no room for the 1 that is added
MUT_BitsOfVertices == CHOOSE b \in 1 .. StatusBits : n < 2 ^ b /\ 2 ^ (b - 1) <= n

\* bits of a vertex number; the others hold the priority
nvBits == CHOOSE b \in 1 .. StatusBits : n + 1 < 2 ^ b /\ 2 ^ (b - 1) <= n + 1
High == 2 ^ (StatusBits - nvBits)

\* nothing tells vertices of the same priority apart
MUT_NoTiebreak(i, priority) == 1 + (priority % High) * 2 ^ nvBits

\* (i + 1) | (priority << nvBits)
Status(i, priority) == (i + 1) + (priority % High) * 2 ^ nvBits

MinStatus(S) == CHOOSE s \in S : \A t \in S : s <= t

\* what a column becomes: it takes part no longer when a row next to it is in
ColStatus(c) ==
  LET s == MinStatus({rowStatus[r] : r \in Near(c)})
  IN  IF s = IN_SET THEN OUT_SET ELSE s

Decided(s) == s = IN_SET \/ s = OUT_SET

-----------------------------------------------------------------------------
(***************************************************************************)
(* QUALITY's statuses.  The range of the scores becomes a float, which     *)
(* rounds it up when it is too long; without a range of degrees the score  *)
(* is a NaN, whose conversion is undefined.                                *)
(***************************************************************************)
Degree(u) == Len(rows[u])
MinDegree == MinStatus({Degree(u) : u \in V})
MaxDegree == CHOOSE d \in {Degree(u) : u \in V} : \A u \in V : Degree(u) <= d

MaxDegRange == IF StatusBits - nvBits >= Mantissa + 2 THEN High ELSE High - 2

Scores(u) == IF MinDegree = MaxDegree THEN Hashes
             ELSE {((Degree(u) - MinDegree) * MaxDegRange) \div (MaxDegree - MinDegree)}

InitRowStatus(score) == [u \in V |-> Status(u, score[u])]

Init ==
  /\ \E p \in Problems : api = p.api /\ rows = p.rows
  \* not initialized, and written before they are read
  /\ rowStatus = [u \in V |-> OUT_SET] /\ colStatus = [u \in V |-> OUT_SET]
  /\ rowWork = V /\ colWork = V /\ colUpdate = {}
  /\ labels = [u \in V |-> -1] /\ roots = {} /\ numAggs = 0
  /\ ph = IF api = "QUALITY" THEN "construct" ELSE "refreshRow"

Construct ==
  /\ ph = "construct"
  /\ \E score \in [V -> UNION {Scores(u) : u \in V}] :
       /\ \A u \in V : score[u] \in Scores(u)
       /\ rowStatus' = InitRowStatus(score)
  /\ ph' = "initCol"
  /\ UNCHANGED <<problem, colStatus, rowWork, colWork, colUpdate, aggregates>>

InitColStatus ==
  /\ ph = "initCol"
  /\ colStatus' = [c \in V |-> MinStatus({rowStatus[r] : r \in Near(c)})]
  /\ ph' = "iterate"
  /\ UNCHANGED <<problem, rowStatus, rowWork, colWork, colUpdate, aggregates>>

\* what DecideSet and IterateStatus make of the row of i
NewRowStatus(i) ==
  IF \E c \in Near(i) : colStatus[c] = OUT_SET THEN OUT_SET
  ELSE IF \A c \in Near(i) : colStatus[c] = rowStatus[i] THEN IN_SET
  ELSE rowStatus[i]

Iterate ==
  /\ ph = "iterate"
  /\ rowStatus' = [u \in V |-> IF u \in rowWork THEN NewRowStatus(u) ELSE rowStatus[u]]
  /\ colUpdate' = {c \in V : \E i \in rowWork : /\ Decided(NewRowStatus(i)) /\ c \in Near(i)
                                                /\ colStatus[c] = rowStatus[i]}
  /\ ph' = "refreshMarked"
  /\ UNCHANGED <<problem, colStatus, rowWork, colWork, aggregates>>

\* the columns of the rows that came into the set are refreshed, but not those
\* of the rows that dropped out
MUT_OnlyWinners ==
  /\ ph = "refreshMarked"
  /\ colStatus' = [c \in V |-> IF c \in colUpdate /\ \E r \in Near(c) : rowStatus[r] = IN_SET
                               THEN ColStatus(c) ELSE colStatus[c]]
  /\ colUpdate' = {}
  /\ ph' = "updateWork"
  /\ UNCHANGED <<problem, rowStatus, rowWork, colWork, aggregates>>

RefreshMarked ==
  /\ ph = "refreshMarked"
  /\ colStatus' = [c \in V |-> IF c \in colUpdate THEN ColStatus(c) ELSE colStatus[c]]
  /\ colUpdate' = {}
  /\ ph' = "updateWork"
  /\ UNCHANGED <<problem, rowStatus, rowWork, colWork, aggregates>>

UpdateWorklist ==
  /\ ph = "updateWork"
  /\ rowWork' = {i \in rowWork : ~ Decided(rowStatus[i])}
  /\ ph' = IF rowWork' = {} THEN "list" ELSE "iterate"
  /\ UNCHANGED <<problem, rowStatus, colStatus, colWork, colUpdate, aggregates>>

-----------------------------------------------------------------------------
(* FAST: new statuses in every round. *)

RefreshRowStatus ==
  /\ ph = "refreshRow"
  /\ \E priority \in [rowWork -> Hashes] :
       LET new(i) == Status(i, priority[i])
       IN  rowStatus' = [u \in V |-> IF u \notin rowWork THEN rowStatus[u]
                                     ELSE IF new(u) = OUT_SET THEN new(u) - 1 ELSE new(u)]
  /\ ph' = "refreshCol"
  /\ UNCHANGED <<problem, colStatus, rowWork, colWork, colUpdate, aggregates>>

RefreshColStatus ==
  /\ ph = "refreshCol"
  /\ colStatus' = [c \in V |-> IF c \in colWork THEN ColStatus(c) ELSE colStatus[c]]
  /\ ph' = "decide"
  /\ UNCHANGED <<problem, rowStatus, rowWork, colWork, colUpdate, aggregates>>

DecideSet ==
  /\ ph = "decide"
  /\ rowStatus' = [u \in V |-> IF u \in rowWork /\ ~ Decided(rowStatus[u]) THEN NewRowStatus(u) ELSE rowStatus[u]]
  /\ ph' = "compactRow"
  /\ UNCHANGED <<problem, colStatus, rowWork, colWork, colUpdate, aggregates>>

CompactRowWork ==
  /\ ph = "compactRow"
  /\ rowWork' = {i \in rowWork : ~ Decided(rowStatus[i])}
  /\ ph' = IF rowWork' = {} THEN "list" ELSE "compactCol"
  /\ UNCHANGED <<problem, rowStatus, colStatus, colWork, colUpdate, aggregates>>

CompactColWork ==
  /\ ph = "compactCol"
  /\ colWork' = {c \in colWork : ~ Decided(colStatus[c])}
  /\ ph' = "refreshRow"
  /\ UNCHANGED <<problem, rowStatus, colStatus, rowWork, colUpdate, aggregates>>

-----------------------------------------------------------------------------
(* The set is listed in ascending order; aggregation goes on with the list. *)

InSet == {u \in V : rowStatus[u] = IN_SET}
RankIn(S, u) == Cardinality({v \in S : v < u})

\* labels that the aggregates of S give, S[k] the aggregate first + k, to the
\* vertices in Free
Grow(S, first, Free) ==
  [u \in V |-> IF u \in S THEN first + RankIn(S, u)
               ELSE IF u \in Free /\ \E r \in S : u \in Near(r)
               THEN first + RankIn(S, CHOOSE r \in S : u \in Near(r))
               ELSE labels[u]]

ListSet ==
  /\ ph = "list"
  /\ ph' = IF api \in {"FAST", "QUALITY"} THEN "done" ELSE IF numAggs = 0 THEN "phase1" ELSE "phase2"
  /\ UNCHANGED <<problem, rowStatus, colStatus, rowWork, colWork, colUpdate, aggregates>>

\* Phase1Functor; with secondary aggregates FAST starts again, with the mask labels
CreatePrimaryAggregates ==
  /\ ph = "phase1"
  /\ roots' = InSet
  /\ labels' = Grow(InSet, 0, V)
  /\ numAggs' = Cardinality(InSet)
  /\ IF api = "AGGREGATE"
     THEN /\ rowStatus' = [u \in V |-> OUT_SET]
          /\ rowWork' = {u \in V : labels'[u] < 0} /\ colWork' = V
          /\ ph' = "refreshRow"
     ELSE ph' = "phase3" /\ UNCHANGED <<rowStatus, rowWork, colWork>>
  /\ UNCHANGED <<problem, colStatus, colUpdate>>

\* the free vertices around r, and r
CandAggSize(r) ==
  1 + Cardinality({k \in DOMAIN rows[r] : rows[r][k] \in V \ {r} /\ labels[rows[r][k]] = -1})

\* the secondary aggregates are numbered from 0 again
MUT_SameNumbers ==
  /\ ph = "phase2"
  /\ LET chosen == {r \in InSet : CandAggSize(r) >= 3}
     IN  /\ labels' = Grow(chosen, 0, {u \in V : labels[u] = -1})
         /\ roots' = roots \union chosen
         /\ numAggs' = numAggs + Cardinality(chosen)
  /\ ph' = "phase3"
  /\ UNCHANGED <<problem, rowStatus, colStatus, rowWork, colWork, colUpdate>>

CreateSecondaryAggregates ==
  /\ ph = "phase2"
  /\ LET chosen == {r \in InSet : CandAggSize(r) >= 3}
     IN  /\ labels' = Grow(chosen, numAggs, {u \in V : labels[u] = -1})
         /\ roots' = roots \union chosen
         /\ numAggs' = numAggs + Cardinality(chosen)
  /\ ph' = "phase3"
  /\ UNCHANGED <<problem, rowStatus, colStatus, rowWork, colWork, colUpdate>>

-----------------------------------------------------------------------------
(***************************************************************************)
(* AssignLeftover: every vertex but the roots compares its aggregate with  *)
(* those next to it, as they were before, as far as it can track them.     *)
(***************************************************************************)
AggSize(a) == Cardinality({u \in V : labels[u] = a})
Connectivity(i) == IF labels[i] = -1 THEN 0
                   ELSE Cardinality({k \in DOMAIN rows[i] : rows[i][k] \in V \ {i} /\ labels[rows[i][k]] = labels[i]})

\* the positions of the row of i with other aggregates
Foreign(i) == {k \in DOMAIN rows[i] : rows[i][k] \in V \ {i} /\ labels[rows[i][k]] \notin {-1, labels[i]}}
AggAt(i, k) == labels[rows[i][k]]
Counted(i) == {k \in Foreign(i) : Cardinality({AggAt(i, j) : j \in {j \in Foreign(i) : j <= k}}) <= MaxTracked}
At(i, a) == {k \in Counted(i) : AggAt(i, k) = a}

\* priorities: adjacent to root > connect > size, and the first of equals
Merit(i, a) ==
  IF a = labels[i] THEN <<IF a >= 0 THEN 1 ELSE 0, Connectivity(i), IF a >= 0 THEN - AggSize(a) ELSE 0, 0>>
  ELSE <<IF \E k \in At(i, a) : rows[i][k] \in roots THEN 1 ELSE 0,
         Cardinality(At(i, a)), - AggSize(a), - MinStatus(At(i, a))>>

Beats(x, y) == \E d \in 1 .. 4 : x[d] > y[d] /\ \A e \in 1 .. d - 1 : x[e] = y[e]

BestAgg(i) ==
  IF i \in roots THEN labels[i]
  ELSE CHOOSE a \in {labels[i]} \union {AggAt(i, k) : k \in Counted(i)} :
         \A b \in {labels[i]} \union {AggAt(i, k) : k \in Counted(i)} : b # a => Beats(Merit(i, a), Merit(i, b))

AggregateLeftovers ==
  /\ ph = "phase3"
  /\ labels' = [u \in V |-> BestAgg(u)]
  /\ ph' = "done"
  /\ UNCHANGED <<problem, rowStatus, colStatus, rowWork, colWork, colUpdate, roots, numAggs>>

Terminated == ph = "done" /\ UNCHANGED vars

Next == \/ Construct \/ InitColStatus \/ Iterate \/ RefreshMarked \/ UpdateWorklist
        \/ RefreshRowStatus \/ RefreshColStatus \/ DecideSet \/ CompactRowWork \/ CompactColWork
        \/ ListSet \/ CreatePrimaryAggregates \/ CreateSecondaryAggregates \/ AggregateLeftovers
        \/ Terminated

Spec == Init /\ [][Next]_vars

-----------------------------------------------------------------------------
TypeOK ==
  /\ \E p \in Problems : api = p.api /\ rows = p.rows
  /\ rowStatus \in [V -> 0 .. OUT_SET] /\ colStatus \in [V -> 0 .. OUT_SET]
  /\ rowWork \subseteq V /\ colWork \subseteq V /\ colUpdate \subseteq V
  /\ labels \in [V -> {-1} \union 0 .. n - 1] /\ roots \subseteq V /\ numAggs \in 0 .. n
  /\ ph \in {"construct", "initCol", "iterate", "refreshMarked", "updateWork", "refreshRow",
             "refreshCol", "decide", "compactRow", "compactCol", "list", "phase1", "phase2",
             "phase3", "done"}

WithinTwo(u, v) == \E c \in V : c \in Near(u) /\ v \in Near(c)

\* "unique status per row, with IN_SET < status < OUT_SET" (lines 86, 534): the
\* rows of the worklist that a column or a decision compares have statuses of
\* their own and away from both ends, in every round: nvBits leaves the last pattern
\* unused, so that what is cut to the word is never OUT_SET and the decrement of
\* line 88 never makes two of them equal.
StatusesApart ==
  ph \in {"initCol", "iterate", "refreshCol", "decide", "compactCol"} =>
    \A u, v \in rowWork :
      /\ IN_SET < rowStatus[u] /\ rowStatus[u] < OUT_SET
      /\ rowStatus[u] = rowStatus[v] => u = v

\* The list is a distance-2 maximal independent set of the vertices it is asked
\* for, which are those without an aggregate: no two of it are within two hops,
\* and each of the others is within two hops of one (lines 163-257, 585-644).
DistanceTwoMIS ==
  LET asked == {u \in V : labels[u] = -1}
  IN  ph = "list" =>
        /\ InSet \subseteq asked
        /\ \A u, v \in InSet : WithinTwo(u, v) => u = v
        /\ \A u \in asked : \E v \in InSet : WithinTwo(u, v)

\* Every round decides a vertex, so that the rounds end: one of the rows has the
\* least status of all, and its columns cannot hold an outdated one (line 340).
EveryRoundDecides ==
  [][(ph \in {"compactRow", "updateWork"} /\ rowWork # {}) => (rowWork' # rowWork)]_vars

\* Every vertex ends in one of the numAggs aggregates; an aggregate has one root,
\* which is in it, and its vertices are within two hops of it, although every
\* vertex moves by what the aggregates were before (lines 820-1091).
AggregatesAroundRoots ==
  ph = "done" /\ api \in {"COARSEN", "AGGREGATE"} =>
    /\ \A u \in V : labels[u] \in 0 .. numAggs - 1
    /\ \A a \in 0 .. numAggs - 1 :
         \E r \in roots : {s \in roots : labels[s] = a} = {r} /\ \A u \in V : labels[u] = a => WithinTwo(r, u)
=============================================================================

-------------------------- MODULE CoarsenHeuristics --------------------------
(***************************************************************************)
(* graph/src/KokkosGraph_CoarsenHeuristics.hpp: the heuristics that map    *)
(* the vertices of a graph to the vertices of a coarser one by heavy       *)
(* edges: HEC, the end of GOSHv2, and the matchings Match and MtMetis.     *)
(*                                                                         *)
(* Every vertex u names the neighbour hn[u] it wants to join.  In a round  *)
(* each unmapped u claims itself and then hn[u] with two compare-exchanges *)
(* on match and, when the second fails, joins hn[u]'s aggregate or takes   *)
(* its claim back.  Half of the vertices sit out each round, by the order  *)
(* of u and hn[u].  The items of a round interleave access by access; the  *)
(* kernels that touch no vertex twice are one step.                        *)
(*                                                                         *)
(* Weights appear only as the choice of hn.  Permutations and hashes are   *)
(* chosen by the instance.                                                 *)
(***************************************************************************)
EXTENDS Integers, FiniteSets, FiniteSetsExt

CONSTANTS
  Problems,  \* [heuristic, adj, ordering]: the graph on 0 .. n - 1 as sets of
             \* neighbours, and the permutation reverse_map
  Threshold  \* GOSHv2: a vertex with more neighbours starts an aggregate

\* The vertices are 0 .. m - 1, and the columns of the graph are vertices.
ASSUME ProblemAssumption ==
  \A p \in Problems : LET m == Cardinality(DOMAIN p.adj)
                     IN  /\ m \in Nat /\ p.adj \in [0 .. m - 1 -> SUBSET (0 .. m - 1)]
                         /\ p.ordering \in [0 .. m - 1 -> Nat]

\* The graph is undirected ("A symmetric" in graph/unit_test/Test_Graph_coarsen.hpp),
\* or MtMetis would find a leaf next to two vertices.
ASSUME SymmetryAssumption ==
  \A p \in Problems : p.heuristic = "MtMetis" =>
    \A u, v \in DOMAIN p.adj : v \in p.adj[u] => u \in p.adj[v]

VARIABLES
  heuristic, adj, ordering,  \* the problem
  hn,         \* the vertex that u wants to aggregate with
  vcmap,      \* the coarse vertex of u (HEC: a root, then root + n, at first)
  match,      \* the claims
  perm,       \* the vertices of this round: curr_perm, mappableVtx
  swap,       \* which half takes part
  nc,         \* nvertices_coarse
  ph,         \* the kernel in work
  pc, cv      \* where the item of u is; its coarse vertex

problem == <<heuristic, adj, ordering>>
vars == <<heuristic, adj, ordering, hn, vcmap, match, perm, swap, nc, ph, pc, cv>>

ORD_MAX == -1
V == DOMAIN adj
n == Cardinality(V)

Matching == heuristic \in {"Match", "MtMetis"}
Unmapped == {u \in V : vcmap[u] = ORD_MAX}
MinOf(S) == CHOOSE x \in S : \A y \in S : x <= y
RankIn(S, x) == Cardinality({y \in S : y < x})

\* Random HN, Heaviest HN: a neighbour; HEC takes any vertex when u has none
HeavyNeighbours(u) == IF adj[u] = {} THEN V ELSE adj[u]

Init ==
  /\ \E p \in Problems : heuristic = p.heuristic /\ adj = p.adj /\ ordering = p.ordering
  /\ IF heuristic = "GOSHv2" THEN hn = [u \in V |-> 0]
     ELSE hn \in [V -> V] /\ \A u \in V : hn[u] \in HeavyNeighbours(u)
  /\ LET heads == {u \in V : heuristic = "GOSHv2" /\ Cardinality(adj[u]) > Threshold}
     IN  /\ vcmap = [u \in V |-> IF u \in heads THEN RankIn(heads, u) ELSE ORD_MAX]
         /\ nc = Cardinality(heads)
  /\ match = [u \in V |-> ORD_MAX]
  /\ perm = V
  /\ swap = TRUE
  /\ ph = IF heuristic = "GOSHv2" THEN "adopt" ELSE "round"
  /\ pc = [u \in V |-> "start"]
  /\ cv = [u \in V |-> 0]

-----------------------------------------------------------------------------
(***************************************************************************)
(* GOSHv2 before its rounds: a vertex next to an aggregate joins it, first *)
(* by weight and then by degree; then every vertex of an aggregate takes   *)
(* its neighbours along.  The items see what others do in the kernel.      *)
(***************************************************************************)
Adopting == ph \in {"adopt", "adoptMore"}

AdoptNeighbour(u) ==
  /\ Adopting /\ pc[u] = "start"
  /\ pc' = [pc EXCEPT ![u] = "out"]
  /\ LET mapped == {v \in adj[u] : vcmap[v] # ORD_MAX}
     IN  IF vcmap[u] = ORD_MAX /\ mapped # {}
         THEN \E v \in mapped : vcmap' = [vcmap EXCEPT ![u] = vcmap[v]]
         ELSE UNCHANGED vcmap
  /\ UNCHANGED <<problem, hn, match, perm, swap, nc, ph, cv>>

\* the next neighbour without an aggregate, as far as u can see; cv is the
\* position in the row
LookAlong(u) ==
  /\ ph = "spread" /\ pc[u] = "start"
  /\ LET left == {v \in adj[u] : v >= cv[u] /\ vcmap[v] = ORD_MAX}
     IN  IF vcmap[u] = ORD_MAX \/ left = {}
         THEN pc' = [pc EXCEPT ![u] = "out"] /\ UNCHANGED cv
         ELSE pc' = [pc EXCEPT ![u] = "take"] /\ cv' = [cv EXCEPT ![u] = MinOf(left)]
  /\ UNCHANGED <<problem, hn, vcmap, match, perm, swap, nc, ph>>

TakeAlong(u) ==
  /\ ph = "spread" /\ pc[u] = "take"
  /\ vcmap' = [vcmap EXCEPT ![cv[u]] = vcmap[u]]
  /\ cv' = [cv EXCEPT ![u] = @ + 1]
  /\ pc' = [pc EXCEPT ![u] = "start"]
  /\ UNCHANGED <<problem, hn, match, perm, swap, nc, ph>>

AllOut == \A u \in V : pc[u] = "out"

\* the items of the next kernel: those of the vertices in S
Launch(S) == pc' = [u \in V |-> IF u \in S THEN "start" ELSE "out"]

Adopted ==
  /\ Adopting /\ AllOut
  /\ ph' = IF ph = "adopt" THEN "adoptMore" ELSE "spread"
  /\ Launch(V)
  /\ UNCHANGED <<problem, hn, vcmap, match, perm, swap, nc, cv>>

\* the remaining vertices are those of the rounds; the others count as matched
Spread ==
  /\ ph = "spread" /\ AllOut
  /\ match' = [u \in V |-> IF vcmap[u] = ORD_MAX THEN ORD_MAX ELSE n + 1]
  /\ perm' = Unmapped
  /\ \E choice \in [Unmapped -> V] :
       /\ \A u \in Unmapped : choice[u] \in adj[u]
       /\ hn' = [u \in V |-> IF u \in Unmapped THEN choice[u] ELSE hn[u]]
  /\ cv' = [u \in V |-> 0]
  /\ ph' = IF Unmapped = {} THEN "done" ELSE "round"
  /\ Launch(Unmapped)
  /\ UNCHANGED <<problem, vcmap, swap, nc>>

-----------------------------------------------------------------------------
\* the order that breaks a hard stall
Less(u, v) == IF heuristic = "GOSHv2" THEN u < v ELSE ordering[u] < ordering[v]
InKernel(u, at) == ph \in {"round", "relatives"} /\ pc[u] = at
Goto(u, at) == pc' = [pc EXCEPT ![u] = at]

\* the same half takes part in every round
MUT_NoSwap(u) ==
  /\ InKernel(u, "start")
  /\ IF match[u] = ORD_MAX /\ Less(u, hn[u])
     THEN /\ match' = [match EXCEPT ![u] = hn[u]]
          /\ Goto(u, IF hn[u] # u THEN "other" ELSE IF heuristic = "HEC" THEN "first" ELSE "count")
     ELSE Goto(u, "out") /\ UNCHANGED match
  /\ UNCHANGED <<problem, hn, vcmap, perm, swap, nc, ph, cv>>

\* condition ^ swap, and the claim of u itself
ClaimOwn(u) ==
  /\ InKernel(u, "start")
  /\ IF match[u] = ORD_MAX /\ Less(u, hn[u]) # swap
     THEN /\ match' = [match EXCEPT ![u] = hn[u]]
          /\ Goto(u, IF hn[u] # u THEN "other" ELSE IF heuristic = "HEC" THEN "first" ELSE "count")
     ELSE Goto(u, "out") /\ UNCHANGED match
  /\ UNCHANGED <<problem, hn, vcmap, perm, swap, nc, ph, cv>>

\* the claim of hn[u]; a matching does not join an aggregate that is there
ClaimOther(u) ==
  /\ InKernel(u, "other")
  /\ IF match[hn[u]] = ORD_MAX
     THEN /\ match' = [match EXCEPT ![hn[u]] = u]
          /\ Goto(u, IF heuristic = "HEC" THEN "first" ELSE "count")
     ELSE /\ Goto(u, IF Matching THEN "undo" ELSE "read")
          /\ UNCHANGED match
  /\ UNCHANGED <<problem, hn, vcmap, perm, swap, nc, ph, cv>>

\* atomic_fetch_add of nvertices_coarse
CountCoarse(u) ==
  /\ InKernel(u, "count")
  /\ cv' = [cv EXCEPT ![u] = nc]
  /\ nc' = nc + 1
  /\ Goto(u, "first")
  /\ UNCHANGED <<problem, hn, vcmap, match, perm, swap, ph>>

\* HEC names an aggregate by its least vertex, which becomes its root
Aggregate(u) == IF heuristic = "HEC" THEN MinOf({u, hn[u]}) ELSE cv[u]

\* the aggregate is named by the vertex that made it
MUT_NameByMaker(u) ==
  /\ InKernel(u, "first")
  /\ vcmap' = [vcmap EXCEPT ![u] = IF heuristic = "HEC" THEN hn[u] ELSE cv[u]]
  /\ Goto(u, "second")
  /\ UNCHANGED <<problem, hn, match, perm, swap, nc, ph, cv>>

MapFirst(u) ==
  /\ InKernel(u, "first")
  /\ vcmap' = [vcmap EXCEPT ![u] = Aggregate(u)]
  /\ Goto(u, "second")
  /\ UNCHANGED <<problem, hn, match, perm, swap, nc, ph, cv>>

MapSecond(u) ==
  /\ InKernel(u, "second")
  /\ vcmap' = [vcmap EXCEPT ![hn[u]] = Aggregate(u)]
  /\ Goto(u, "out")
  /\ UNCHANGED <<problem, hn, match, perm, swap, nc, ph, cv>>

\* hn[u] is taken: u joins its aggregate, if it is known by now
JoinOther(u) ==
  /\ InKernel(u, "read")
  /\ IF vcmap[hn[u]] # ORD_MAX
     THEN vcmap' = [vcmap EXCEPT ![u] = vcmap[hn[u]]] /\ Goto(u, "out")
     ELSE UNCHANGED vcmap /\ Goto(u, "undo")
  /\ UNCHANGED <<problem, hn, match, perm, swap, nc, ph, cv>>

\* a claim that is not taken back
MUT_KeepClaim(u) ==
  /\ InKernel(u, "undo")
  /\ Goto(u, "out")
  /\ UNCHANGED <<problem, hn, vcmap, match, perm, swap, nc, ph, cv>>

Undo(u) ==
  /\ InKernel(u, "undo")
  /\ match' = [match EXCEPT ![u] = ORD_MAX]
  /\ Goto(u, "out")
  /\ UNCHANGED <<problem, hn, vcmap, perm, swap, nc, ph, cv>>

Item(u) == \/ ClaimOwn(u) \/ ClaimOther(u) \/ CountCoarse(u) \/ MapFirst(u)
           \/ MapSecond(u) \/ JoinOther(u) \/ Undo(u)
           \/ AdoptNeighbour(u) \/ LookAlong(u) \/ TakeAlong(u)

-----------------------------------------------------------------------------
\* HEC and GOSHv2: the vertices that failed are reprocessed
EndRound ==
  /\ ph = "round" /\ AllOut /\ ~ Matching
  /\ perm' = perm \intersect Unmapped
  /\ swap' = ~ swap
  /\ ph' = IF perm' # {} THEN "round" ELSE IF heuristic = "HEC" THEN "assign" ELSE "done"
  /\ Launch(perm')
  /\ UNCHANGED <<problem, hn, vcmap, match, nc, cv>>

\* The matchings: a vertex that failed looks for another unmatched neighbour, by
\* weight or by the permutation, and is given up when there is none.
EndMatchRound ==
  /\ ph = "round" /\ AllOut /\ Matching
  /\ LET free(u) == adj[u] \intersect Unmapped
         next == {u \in perm \intersect Unmapped : free(u) # {}}
     IN  /\ \E choice \in [next -> Unmapped] :
              /\ \A u \in next : choice[u] \in free(u)
              /\ hn' = [u \in V |-> IF u \in next THEN choice[u] ELSE hn[u]]
         /\ perm' = next
         /\ Launch(next)
         /\ ph' = IF next # {} THEN "round" ELSE IF heuristic = "MtMetis" THEN "leaves" ELSE "singletons"
  /\ swap' = ~ swap
  /\ UNCHANGED <<problem, vcmap, match, nc, cv>>

-----------------------------------------------------------------------------
\* HEC: the scan numbers the roots in order and marks the others with + n ...
AssignAggregates ==
  /\ ph = "assign"
  /\ LET roots == {u \in V : vcmap[u] = u}
     IN  /\ vcmap' = [u \in V |-> IF u \in roots THEN RankIn(roots, u) ELSE vcmap[u] + n]
         /\ nc' = Cardinality(roots)
  /\ ph' = "propagate"
  /\ UNCHANGED <<problem, hn, match, perm, swap, pc, cv>>

\* ... and the marked ones follow their roots
PropagateAggregates ==
  /\ ph = "propagate"
  /\ vcmap' = [u \in V |-> IF vcmap[u] >= n THEN vcmap[vcmap[u] - n] ELSE vcmap[u]]
  /\ ph' = "done"
  /\ UNCHANGED <<problem, hn, match, perm, swap, nc, pc, cv>>

-----------------------------------------------------------------------------
(***************************************************************************)
(* MtMetis: more pairs among the vertices that are left, as long as they   *)
(* are more than a quarter of the graph.                                   *)
(***************************************************************************)
ManyUnmapped == 4 * Cardinality(Unmapped) > n

\* the first with the second, the third with the fourth, ...
PairUp(S) == {p \in kSubset(2, S) : \E i \in 0 .. Cardinality(S) :
                                      {RankIn(S, u) : u \in p} = {2 * i, 2 * i + 1}}

MapPairs(pairs) ==
  /\ vcmap' = [u \in V |-> IF \E p \in pairs : u \in p
                           THEN LET p == CHOOSE p \in pairs : u \in p
                                IN  nc + Cardinality({q \in pairs : MinOf(q) < MinOf(p)})
                           ELSE vcmap[u]]
  /\ nc' = nc + Cardinality(pairs)

\* the leaves of one mapped vertex
MatchLeaves ==
  /\ ph = "leaves"
  /\ LET leaves(u) == {v \in adj[u] \intersect Unmapped : Cardinality(adj[v]) = 1}
     IN  MapPairs(IF ManyUnmapped THEN UNION {PairUp(leaves(u)) : u \in V \ Unmapped} ELSE {})
  /\ ph' = "twins"
  /\ UNCHANGED <<problem, hn, match, perm, swap, pc, cv>>

\* twins: vertices with the same digest of their adjacency, which other vertices
\* may have too
MatchTwins ==
  /\ ph = "twins"
  /\ \E collide \in BOOLEAN :
       LET group(u) == {v \in Unmapped : collide \/ adj[v] = adj[u]}
       IN  MapPairs(IF ManyUnmapped THEN UNION {PairUp(group(u)) : u \in Unmapped} ELSE {})
  /\ ph' = "chooseRelatives"
  /\ UNCHANGED <<problem, hn, match, perm, swap, pc, cv>>

\* what hn[u] is after all mapped vertices have paired their unmapped neighbours
Relatives(u) == {v \in V \ {u} : \E w \in V \ Unmapped : {u, v} \in PairUp(adj[w] \intersect Unmapped)}

\* The first time all unmapped vertices are mappable, later those that had a
\* relative the time before.
ChooseRelatives ==
  /\ ph = "chooseRelatives"
  /\ IF perm = {} /\ ~ ManyUnmapped
     THEN ph' = "singletons" /\ UNCHANGED <<hn, perm, pc>>
     ELSE LET next == {u \in (IF perm = {} THEN Unmapped ELSE perm) : u \in Unmapped /\ Relatives(u) # {}}
              all == {u \in Unmapped : Relatives(u) # {}}
          IN  /\ \E choice \in [all -> V] :
                   /\ \A u \in all : choice[u] \in Relatives(u)
                   /\ hn' = [u \in V |-> IF u \in all THEN choice[u] ELSE hn[u]]
              /\ perm' = next
              /\ Launch(next)
              /\ ph' = IF next = {} THEN "singletons" ELSE "relatives"
  /\ UNCHANGED <<problem, vcmap, match, swap, nc, cv>>

EndRelatives ==
  /\ ph = "relatives" /\ AllOut
  /\ swap' = ~ swap
  /\ ph' = "chooseRelatives"
  /\ UNCHANGED <<problem, hn, vcmap, match, perm, nc, pc, cv>>

\* what is left is an aggregate of its own
Singletons ==
  /\ ph = "singletons"
  /\ vcmap' = [u \in V |-> IF u \in Unmapped THEN nc + RankIn(Unmapped, u) ELSE vcmap[u]]
  /\ nc' = nc + Cardinality(Unmapped)
  /\ ph' = "done"
  /\ UNCHANGED <<problem, hn, match, perm, swap, pc, cv>>

Terminated == ph = "done" /\ UNCHANGED vars

Host == \/ Adopted \/ Spread \/ EndRound \/ EndMatchRound \/ AssignAggregates
        \/ PropagateAggregates \/ MatchLeaves \/ MatchTwins \/ ChooseRelatives
        \/ EndRelatives \/ Singletons

Next == (\E u \in V : Item(u)) \/ Host \/ Terminated

(***************************************************************************)
(* Every item of a kernel runs to its end, and the host goes on.           *)
(***************************************************************************)
Spec == Init /\ [][Next]_vars
FairSpec == Spec /\ WF_vars((\E u \in V : Item(u)) \/ Host)

-----------------------------------------------------------------------------
\* Between rounds nobody has half a match: a vertex is claimed exactly when it is
\* mapped.  A claim that stayed behind would stall its vertex, and all that want
\* it, in every later round (lines 143-155, 204-219, 862-871).
NoHalfMatch ==
  AllOut /\ ph = "round" => \A u \in V : match[u] = ORD_MAX <=> vcmap[u] = ORD_MAX

\* The coarse vertices are 0 .. nc - 1, none of them empty.  An aggregate of HEC
\* hangs together, by edges or, for vertices without any, by the choice of hn; a
\* matching has at most two vertices in it, which Match joins along an edge.  (In
\* GOSHv2 two items may take the same vertex along, and then the second tears it
\* from those that have followed it into the aggregate of the first.)
Aggregates ==
  LET Members(c) == {u \in V : vcmap[u] = c}
      Joined(u, v) == v \in adj[u] \/ (adj[u] = {} /\ v = hn[u])
  IN  ph = "done" =>
        /\ {vcmap[u] : u \in V} = 0 .. nc - 1
        /\ \A c \in 0 .. nc - 1 :
             /\ Matching => Cardinality(Members(c)) <= 2
             /\ heuristic \in {"HEC", "Match"} =>
                  \A S \in (SUBSET Members(c)) \ {{}, Members(c)} :
                    \E u \in S, v \in Members(c) \ S : Joined(u, v) \/ Joined(v, u)

\* Every round maps somebody or the next one does, so that the rounds end: "need
\* to enforce an ordering condition to allow hard-stall conditions to be broken".
Coarsens == <>(ph = "done")
=============================================================================

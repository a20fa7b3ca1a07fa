---------------------------- MODULE D1ColoringVBD ----------------------------
(***************************************************************************)
(* GraphColor_VBD of graph/impl/KokkosGraph_Distance1Color_impl.hpp: the   *)
(* deterministic distance-1 colouring (VBD, and VBDBIT with a bit array).  *)
(*                                                                         *)
(* A vertex waits for its neighbours of higher degree (the higher number   *)
(* decides between equal degrees).  Its dependency counter holds how many  *)
(* of them have not been coloured; the vertices whose counter reaches 0    *)
(* are appended to a frontier with an atomic index.  A round colours the   *)
(* current frontier with one work item per vertex while it counts down the *)
(* neighbours and collects the next frontier.                              *)
(*                                                                         *)
(* Reads of a neighbour and atomic decrements are separate steps of an     *)
(* item and interleave freely; the host passes a fence between the rounds. *)
(* Rows are read in any order and hold a neighbour once.                   *)
(***************************************************************************)
EXTENDS Integers, FiniteSets

CONSTANTS
  nv,          \* number of vertices
  Graphs,      \* the adjacency functions to colour
  Algorithms,  \* VBD, VBDBIT
  WIDTH,       \* bits of the array of VBDBIT (64 in the code)
  MaxOffset    \* bound on colorOffset, beyond every colour: it stops there

V == 0 .. nv - 1

ASSUME SizeAssumption == /\ nv \in Nat \ {0} /\ WIDTH \in Nat \ {0}
                         /\ MaxOffset \in Nat /\ MaxOffset >= nv + WIDTH

\* The graphs are symmetric; self-loops are allowed.
ASSUME GraphAssumption ==
  \A g \in Graphs : /\ g \in [V -> SUBSET V]
                    /\ \A u, v \in V : u \in g[v] => v \in g[u]

ASSUME AlgorithmAssumption == Algorithms \subseteq {"VBD", "VBDBIT"}

VARIABLES
  adj, algorithm,
  colors,
  dependency,
  frontier, frontierSize,
  newFrontier, newFrontierSize,
  num_loops,
  phase,        \* init: the dependency kernel; rounds: the while loop; done
  item,         \* item[k]: the work item of vertex k (init) or frontier entry k
  visited       \* history: the vertices whose item has ended

vars == <<adj, algorithm, colors, dependency, frontier, frontierSize, newFrontier,
          newFrontierSize, num_loops, phase, item, visited>>
input == <<adj, algorithm>>
rounds == <<frontier, frontierSize, num_loops, phase>>

-----------------------------------------------------------------------------
score(v) == Cardinality(adj[v])

\* v waits for u
Precedes(u, v) == score(v) < score(u) \/ (score(v) = score(u) /\ v < u)
Higher(v) == {u \in adj[v] : Precedes(u, v)}

\* the largest score, the result of the first kernel
maxColors == CHOOSE m \in {score(v) : v \in V} : \A v \in V : score(v) <= m

\* an item that runs no more, one of the dependency kernel, one that scans its row
Idle == [pc |-> "end", unread |-> {}, neigh |-> 0, banned |-> {}, colorOffset |-> 0]
Starting == [Idle EXCEPT !.pc = "init"]
Scanning(v) == [Idle EXCEPT !.pc = "scan", !.unread = adj[v]]

Init ==
  /\ adj \in Graphs
  /\ algorithm \in Algorithms
  /\ colors = [v \in V |-> 0]
  /\ dependency = [v \in V |-> 0]
  /\ frontier = [k \in V |-> 0] /\ frontierSize = 0
  /\ newFrontier = [k \in V |-> 0] /\ newFrontierSize = 0
  /\ num_loops = 0
  /\ phase = "init"
  /\ item = [k \in V |-> Starting]
  /\ visited = {}

\* a vertex takes the next free entry of the new frontier
Enter(v) == /\ newFrontier' = [newFrontier EXCEPT ![newFrontierSize] = v]
            /\ newFrontierSize' = newFrontierSize + 1

\* equal degrees do not count as a dependency
MUT_NoTieBreak(node) ==
  /\ phase = "init" /\ item[node].pc = "init"
  /\ LET d == Cardinality({u \in adj[node] : score(node) < score(u)})
     IN  /\ dependency' = [dependency EXCEPT ![node] = d]
         /\ IF d = 0 THEN Enter(node) ELSE UNCHANGED <<newFrontier, newFrontierSize>>
  /\ item' = [item EXCEPT ![node] = Idle]
  /\ UNCHANGED <<input, colors, rounds, visited>>

\* functorInitialDependency
InitialDependency(node) ==
  /\ phase = "init" /\ item[node].pc = "init"
  /\ LET d == Cardinality(Higher(node))
     IN  /\ dependency' = [dependency EXCEPT ![node] = d]
         /\ IF d = 0 THEN Enter(node) ELSE UNCHANGED <<newFrontier, newFrontierSize>>
  /\ item' = [item EXCEPT ![node] = Idle]
  /\ UNCHANGED <<input, colors, rounds, visited>>

\* the size of the new frontier is not reset
MUT_KeepSize == newFrontierSize

\* functorSwapOnDevice resets the size of the new frontier
SizeAfterSwap == 0

\* fence, then the head of the while loop: the next round or the end
NextRound ==
  /\ phase # "done"
  /\ \A k \in V : item[k].pc = "end"
  /\ IF newFrontierSize > 0
     THEN /\ phase' = "rounds"
          /\ num_loops' = num_loops + 1
          /\ frontierSize' = newFrontierSize /\ newFrontierSize' = SizeAfterSwap
          /\ frontier' = newFrontier /\ newFrontier' = frontier
          /\ item' = [k \in V |-> IF k < newFrontierSize THEN Scanning(newFrontier[k]) ELSE Idle]
     ELSE /\ phase' = "done"
          /\ UNCHANGED <<num_loops, frontier, frontierSize, newFrontier, newFrontierSize, item>>
  /\ UNCHANGED <<input, colors, dependency, visited>>

-----------------------------------------------------------------------------
(* functorDeterministicColoring and functorDeterministicColoringBitArray *)

\* What reading the colour c of a neighbour adds to bannedColors: the colour, or
\* its bit.  The shift is by c - 1 in every window, beyond the word in a later
\* one; all the bits are set by then, so what it sets makes no difference.
Banned(c, offset) ==
  IF algorithm = "VBD" THEN {c}
  ELSE IF c > offset /\ c < offset + WIDTH + 1 THEN {(c - 1) % WIDTH} ELSE {}

\* one more neighbour: ban its colour and look whether it still counts down
Visit(k) ==
  /\ phase = "rounds" /\ item[k].pc = "scan"
  /\ \E n \in item[k].unread :
       LET counts == item[k].colorOffset = 0 /\ dependency[n] >= 0
       IN  item' = [item EXCEPT
             ![k].unread = @ \ {n},
             ![k].banned = @ \union Banned(colors[n], item[k].colorOffset),
             ![k].pc = IF counts THEN "decrement" ELSE "scan",
             ![k].neigh = IF counts THEN n ELSE 0]
  /\ UNCHANGED <<input, colors, dependency, newFrontier, newFrontierSize, rounds, visited>>

\* a counter below 0 counts as well: a vertex enters again
MUT_EnterAgain(k) ==
  /\ phase = "rounds" /\ item[k].pc = "decrement"
  /\ LET n == item[k].neigh
     IN  /\ dependency' = [dependency EXCEPT ![n] = @ - 1]
         /\ IF dependency[n] - 1 <= 0 THEN Enter(n)
            ELSE UNCHANGED <<newFrontier, newFrontierSize>>
  /\ item' = [item EXCEPT ![k].pc = "scan", ![k].neigh = 0]
  /\ UNCHANGED <<input, colors, rounds, visited>>

\* the neighbour enters one count too early
MUT_EnterEarly(k) ==
  /\ phase = "rounds" /\ item[k].pc = "decrement"
  /\ LET n == item[k].neigh
     IN  /\ dependency' = [dependency EXCEPT ![n] = @ - 1]
         /\ IF dependency[n] - 1 \in {0, 1} THEN Enter(n)
            ELSE UNCHANGED <<newFrontier, newFrontierSize>>
  /\ item' = [item EXCEPT ![k].pc = "scan", ![k].neigh = 0]
  /\ UNCHANGED <<input, colors, rounds, visited>>

\* two decrements of one counter race, and one is lost
MUT_LostDecrement(k) ==
  /\ phase = "rounds" /\ item[k].pc = "decrement"
  /\ LET n == item[k].neigh
         both == \E j \in V \ {k} : item[j].pc = "decrement" /\ item[j].neigh = n
     IN  /\ dependency' = IF both THEN dependency ELSE [dependency EXCEPT ![n] = @ - 1]
         /\ IF ~both /\ dependency[n] - 1 = 0 THEN Enter(n)
            ELSE UNCHANGED <<newFrontier, newFrontierSize>>
  /\ item' = [item EXCEPT ![k].pc = "scan", ![k].neigh = 0]
  /\ UNCHANGED <<input, colors, rounds, visited>>

\* atomic_fetch_add(-1): whoever takes the counter from 1 to 0 appends
Decrement(k) ==
  /\ phase = "rounds" /\ item[k].pc = "decrement"
  /\ LET n == item[k].neigh
     IN  /\ dependency' = [dependency EXCEPT ![n] = @ - 1]
         /\ IF dependency[n] - 1 = 0 THEN Enter(n)
            ELSE UNCHANGED <<newFrontier, newFrontierSize>>
  /\ item' = [item EXCEPT ![k].pc = "scan", ![k].neigh = 0]
  /\ UNCHANGED <<input, colors, rounds, visited>>

\* the colours an item may give, once it has read its row: VBD looks at the
\* colours below the largest degree, VBDBIT at the clear bits of the window
Free(k) ==
  IF algorithm = "VBD" THEN 1 .. maxColors - 1 \ item[k].banned
  ELSE {item[k].colorOffset + b + 1 : b \in 0 .. WIDTH - 1 \ item[k].banned}

\* a single banned colour counts as a full window
MUT_AnyBit(k) == algorithm = "VBDBIT" /\ item[k].banned # {}

WindowIsFull(k) == algorithm = "VBDBIT" /\ 0 .. WIDTH - 1 \subseteq item[k].banned

\* any free colour
MUT_AnyColor(k) ==
  /\ phase = "rounds" /\ item[k].pc = "scan" /\ item[k].unread = {} /\ ~WindowIsFull(k)
  /\ \/ \E c \in Free(k) : colors' = [colors EXCEPT ![frontier[k]] = c]
     \/ Free(k) = {} /\ UNCHANGED colors
  /\ item' = [item EXCEPT ![k] = Idle]
  /\ visited' = visited \union {frontier[k]}
  /\ UNCHANGED <<input, dependency, newFrontier, newFrontierSize, rounds>>

\* the first free colour; without one VBD leaves the vertex as it is
Color(k) ==
  /\ phase = "rounds" /\ item[k].pc = "scan" /\ item[k].unread = {} /\ ~WindowIsFull(k)
  /\ \/ \E c \in Free(k) : /\ \A d \in Free(k) : c <= d
                           /\ colors' = [colors EXCEPT ![frontier[k]] = c]
     \/ Free(k) = {} /\ UNCHANGED colors
  /\ item' = [item EXCEPT ![k] = Idle]
  /\ visited' = visited \union {frontier[k]}
  /\ UNCHANGED <<input, dependency, newFrontier, newFrontierSize, rounds>>

\* VBDBIT: all bits are set, on to the next window.  bannedColors |= ~bannedColors
\* leaves them all set.
NextWindow(k) ==
  /\ phase = "rounds" /\ item[k].pc = "scan" /\ item[k].unread = {} /\ WindowIsFull(k)
  /\ item' = [item EXCEPT
       ![k].colorOffset = IF @ + WIDTH <= MaxOffset THEN @ + WIDTH ELSE @,
       ![k].unread = adj[frontier[k]],
       ![k].banned = 0 .. WIDTH - 1]
  /\ UNCHANGED <<input, colors, dependency, newFrontier, newFrontierSize, rounds, visited>>

-----------------------------------------------------------------------------
ItemStep(k) == InitialDependency(k) \/ Visit(k) \/ Decrement(k) \/ Color(k) \/ NextWindow(k)

Terminated == phase = "done" /\ UNCHANGED vars

Next == (\E k \in V : ItemStep(k)) \/ NextRound \/ Terminated

Spec == Init /\ [][Next]_vars

\* A kernel runs all its items to the end, and the host goes on after the fence.
FairSpec == Spec /\ WF_vars(NextRound) /\ \A k \in V : WF_vars(ItemStep(k))

-----------------------------------------------------------------------------
ItemType == [pc : {"init", "scan", "decrement", "end"}, unread : SUBSET V, neigh : V,
             banned : SUBSET Nat, colorOffset : Nat]

\* The variables keep their types.
TypeOK ==
  /\ adj \in Graphs /\ algorithm \in Algorithms
  /\ colors \in [V -> Nat]
  /\ dependency \in [V -> Int]
  /\ frontier \in [V -> V] /\ newFrontier \in [V -> V]
  /\ frontierSize \in 0 .. nv /\ newFrontierSize \in 0 .. nv
  /\ num_loops \in Nat
  /\ phase \in {"init", "rounds", "done"}
  /\ item \in [V -> ItemType]
  /\ visited \subseteq V

InFrontier == {frontier[k] : k \in 0 .. frontierSize - 1}
InNewFrontier == {newFrontier[k] : k \in 0 .. newFrontierSize - 1}

\* A vertex enters a frontier once: however the decrements of its neighbours
\* race, one of them takes its counter to 0 (lines 1867-1877, 1938-1947).
EntersOnce ==
  /\ Cardinality(InFrontier) = frontierSize
  /\ Cardinality(InNewFrontier) = newFrontierSize
  /\ InNewFrontier \intersect (InFrontier \union visited) = {}

\* The items of a round never colour two neighbours, so none of them reads a
\* colour that another is writing.
FrontierIndependent == \A u, v \in InFrontier : u # v => u \notin adj[v]

\* the least and the greatest of a set of numbers, 0 without any
LeastIn(S) == IF S = {} THEN 0 ELSE CHOOSE c \in S : \A d \in S : c <= d
GreatestIn(S) == IF S = {} THEN 0 ELSE CHOOSE c \in S : \A d \in S : d <= c

\* The colour of v in a sequential first-fit colouring that goes through the
\* vertices by falling degree and number, with the colours the algorithm allows.
Palette == IF algorithm = "VBD" THEN 1 .. maxColors - 1 ELSE 1 .. nv
SequentialColor[v \in V] == LeastIn(Palette \ {SequentialColor[u] : u \in Higher(v)})

\* The colouring is deterministic: each vertex gets its sequential colour,
\* whatever the order of the items and of the entries of a frontier.
Deterministic == \A v \in visited : colors[v] = SequentialColor[v]

\* Neighbours that have a colour have different colours.
ProperColors ==
  \A u, v \in V : u \in adj[v] /\ u # v /\ colors[u] > 0 => colors[u] # colors[v]

\* the length of the longest chain of neighbours that v waits for
Depth[v \in V] == 1 + GreatestIn({Depth[u] : u \in Higher(v)})

\* No vertex waits longer than it must: round r colours the vertices at the end
\* of a chain of r, so num_loops is the length of the longest chain.
EarliestRound == \A v \in InFrontier : Depth[v] = num_loops

\* The frontier runs empty only when every vertex has had its turn.
AllVisited == phase = "done" => visited = V

\* Every degree is below the width of the bit array.
OneWindow == algorithm = "VBD" \/ maxColors < WIDTH

\* The rounds come to an end, for VBDBIT if one window has room for the colours.
TerminatesInOneWindow == OneWindow => <>(phase = "done")

\* color_graph returns.
Terminates == <>(phase = "done")

\* "D1 coloring produced invalid coloring": the unit test counts the neighbours
\* with equal colours, those that both have none included.
NoConflictAtEnd == phase = "done" => \A u, v \in V : u \in adj[v] /\ u # v => colors[u] # colors[v]
=============================================================================

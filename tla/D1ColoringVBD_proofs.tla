------------------------ MODULE D1ColoringVBD_proofs ------------------------
(***************************************************************************)
(* For every graph, both functors and every interleaving of the items: the *)
(* decrements that race put every vertex on a frontier exactly once, after *)
(* all the neighbours it waits for; so frontiers are independent, colours  *)
(* are proper, and all vertices have had their turn when the loop ends.    *)
(* The colours and the rounds do not depend on the interleaving.           *)
(***************************************************************************)
EXTENDS D1ColoringVBD, FiniteSetTheorems, WellFoundedInduction, TLAPS

Entries(f, size) == {f[k] : k \in 0 .. size - 1}

\* no entry is there twice
Distinct(f, size) == \A i, j \in 0 .. size - 1 : f[i] = f[j] => i = j

\* Such a list has as many members as entries.
LEMMA DistinctSize ==
  ASSUME NEW f, NEW size \in Nat, Distinct(f, size)
  PROVE  IsFiniteSet(Entries(f, size)) /\ Cardinality(Entries(f, size)) = size
  <1> DEFINE S == 0 .. size - 1
             T == Entries(f, size)
             g == [k \in S |-> f[k]]
  <1>1. 0 \in Int /\ size - 1 \in Int
    OBVIOUS
  <1>2. IsFiniteSet(S) /\ Cardinality(S) = size
    BY <1>1, FS_Interval
  <1>3. g \in Surjection(S, T) /\ g \in Injection(S, T)
    <2>1. \A i, j \in S : f[i] = f[j] => i = j
      BY DEF Distinct
    <2> QED
      BY <2>1 DEF Surjection, Injection, IsInjective, Entries
  <1>4. IsFiniteSet(T) /\ Cardinality(T) = Cardinality(S)
    <2> HIDE DEF S, T, g
    <2> QED
      BY <1>2, <1>3, FS_Surjection
  <1> QED
    BY <1>2, <1>4

\* An append of a vertex that is not in the list: there is room for it, because
\* the array has an entry for every vertex.
LEMMA DistinctAppend ==
  ASSUME NEW top \in Nat, NEW f \in [0 .. top - 1 -> 0 .. top - 1], NEW size \in 0 .. top,
         Distinct(f, size), NEW v \in 0 .. top - 1, v \notin Entries(f, size)
  PROVE  /\ [f EXCEPT ![size] = v] \in [0 .. top - 1 -> 0 .. top - 1]
         /\ size + 1 \in 0 .. top
         /\ Entries([f EXCEPT ![size] = v], size + 1) = Entries(f, size) \union {v}
         /\ Distinct([f EXCEPT ![size] = v], size + 1)
  <1>1. size < top
    <2>1. IsFiniteSet(Entries(f, size)) /\ Cardinality(Entries(f, size)) = size
      BY DistinctSize
    <2>2. Cardinality(Entries(f, size) \union {v}) = size + 1
      BY <2>1, FS_AddElement
    <2>3. Entries(f, size) \union {v} \in SUBSET (0 .. top - 1)
      <3>1. \A k \in 0 .. size - 1 : k \in 0 .. top - 1
        OBVIOUS
      <3> QED
        BY <3>1 DEF Entries
    <2>4. IsFiniteSet(0 .. top - 1) /\ Cardinality(0 .. top - 1) = top
      <3>1. 0 \in Int /\ top - 1 \in Int
        OBVIOUS
      <3> QED
        BY <3>1, FS_Interval
    <2>5. Cardinality(Entries(f, size) \union {v}) <= top
      BY <2>3, <2>4, FS_Subset
    <2> QED
      BY <2>2, <2>5
  <1>2. PICK g : g = [f EXCEPT ![size] = v]
    OBVIOUS
  <1>3. g \in [0 .. top - 1 -> 0 .. top - 1]
    BY <1>2
  <1>4. g[size] = v /\ \A i \in 0 .. size - 1 : g[i] = f[i]
    BY <1>1, <1>2
  <1>5. PICK old : old = 0 .. size - 1
    OBVIOUS
  <1>6. 0 .. (size + 1) - 1 = old \union {size}
    <2>1. \A i : i \in 0 .. (size + 1) - 1 <=> i \in 0 .. size - 1 \/ i = size
      <3>1. size \in Nat
        OBVIOUS
      <3> QED
        BY <3>1
    <2> QED
      BY <1>5, <2>1
  <1>7. Entries(g, size + 1) = Entries(f, size) \union {v}
    <2>1. Entries(g, size + 1) = {g[k] : k \in old \union {size}}
      BY <1>6 DEF Entries
    <2>2. Entries(f, size) = {f[k] : k \in old} /\ \A k \in old : g[k] = f[k]
      BY <1>4, <1>5 DEF Entries
    <2> QED
      BY <1>4, <2>1, <2>2
  <1>8. Distinct(g, size + 1)
    <2>1. \A i, j \in old : f[i] = f[j] => i = j
      BY <1>5 DEF Distinct
    <2>2. \A i \in old : g[i] = f[i] /\ f[i] # v
      BY <1>4, <1>5 DEF Entries
    <2>3. \A i, j \in old \union {size} : g[i] = g[j] => i = j
      BY <1>4, <2>1, <2>2
    <2> QED
      BY <1>6, <2>3 DEF Distinct
  <1>9. size + 1 \in 0 .. top
    BY <1>1
  <1> QED
    BY <1>2, <1>3, <1>7, <1>8, <1>9

\* A set of numbers that is not empty has a least, and one up to n a greatest.
LEMMA LeastOf ==
  ASSUME NEW S \in SUBSET Nat, S # {}
  PROVE  \E b \in S : \A c \in S : b <= c
  <1> DEFINE R == OpToRel(<, Nat)
  <1>1. \E b \in S : \A c \in S : ~ (<<c, b>> \in R)
    <2>1. IsWellFoundedOn(R, Nat)
      BY NatLessThanWellFounded
    <2> HIDE DEF R
    <2> QED
      BY <2>1, WFMin
  <1>2. \A b, c \in Nat : <<c, b>> \in R <=> c < b
    BY DEF OpToRel
  <1> HIDE DEF R
  <1>3. PICK b \in S : \A c \in S : ~ (<<c, b>> \in R)
    BY <1>1
  <1>4. \A c \in S : b \in Nat /\ c \in Nat /\ ~ (c < b)
    BY <1>2, <1>3
  <1> QED
    BY <1>4

LEMMA GreatestOf ==
  ASSUME NEW top \in Nat, NEW S \in SUBSET (0 .. top), S # {}
  PROVE  \E b \in S : \A c \in S : c <= b
  <1> DEFINE Bounds == {m \in Nat : \A c \in S : c <= m}
  <1>1. Bounds \in SUBSET Nat /\ top \in Bounds
    OBVIOUS
  <1>2. \E b \in Bounds : \A c \in Bounds : b <= c
    <2> HIDE DEF Bounds
    <2> QED
      BY <1>1, LeastOf
  <1>3. PICK b \in Bounds : \A c \in Bounds : b <= c
    BY <1>2
  <1>4. b \in Nat /\ \A c \in S : c \in Nat /\ c <= b
    BY <1>3
  <1>5. b \in S
    <2>1. SUFFICES ASSUME b \notin S PROVE FALSE
      OBVIOUS
    <2>2. \A c \in S : c \in Nat /\ c < b
      BY <1>4, <2>1
    <2>3. b - 1 \in Bounds
      <3>1. PICK c \in S : TRUE
        OBVIOUS
      <3>2. b - 1 \in Nat
        BY <1>4, <2>2, <3>1
      <3> QED
        BY <1>4, <2>2, <3>2
    <2>4. b <= b - 1
      BY <1>3, <2>3
    <2> QED
      BY <1>4, <2>4
  <1> QED
    BY <1>4, <1>5

-----------------------------------------------------------------------------

\* the item of entry k has counted v down, or never will
Passed(k, v) ==
  \/ item[k].pc = "end" \/ item[k].colorOffset > 0
  \/ v \notin item[k].unread /\ ~ (item[k].pc = "decrement" /\ item[k].neigh = v)

CountedDown(u, v) == \/ u \in visited
                     \/ \E k \in 0 .. frontierSize - 1 : frontier[k] = u /\ Passed(k, v)

\* the neighbours that v still waits for
Waiting(v) == {u \in Higher(v) : ~ CountedDown(u, v)}

Entered == InFrontier \union InNewFrontier \union visited

\* The counter of a vertex is the number of those it waits for.
CountInv ==
  /\ \A v \in Entered : dependency[v] <= 0 /\ Waiting(v) = {}
  /\ \A v \in V \ Entered : dependency[v] = Cardinality(Waiting(v)) /\ dependency[v] > 0

\* The entries of a frontier are those whose item has ended and the others.
FrontierInv ==
  /\ Distinct(frontier, frontierSize) /\ Distinct(newFrontier, newFrontierSize)
  /\ InNewFrontier \intersect (InFrontier \union visited) = {}
  /\ \A v \in InFrontier : Higher(v) \subseteq visited
  /\ FrontierIndependent

\* what the item of entry k has read and still has to
ItemOK(k) ==
  /\ item[k].pc # "init"
  /\ k >= frontierSize => item[k].pc = "end"
  /\ k < frontierSize => (item[k].pc = "end" <=> frontier[k] \in visited)
  /\ item[k].pc # "end" =>
       /\ item[k].unread \subseteq adj[frontier[k]]
       /\ item[k].colorOffset = 0 \/ (algorithm = "VBDBIT" /\ 0 .. WIDTH - 1 \subseteq item[k].banned)
       /\ \A u \in adj[frontier[k]] \ {frontier[k]} :
            u \notin item[k].unread => Banned(colors[u], item[k].colorOffset) \subseteq item[k].banned
  /\ item[k].pc = "decrement" =>
       /\ item[k].colorOffset = 0
       /\ item[k].neigh \in adj[frontier[k]] /\ item[k].neigh \notin item[k].unread

ItemInv == \A k \in V : ItemOK(k)

ColorInv == /\ \A v \in V : colors[v] > 0 => v \in visited
            /\ ProperColors

RoundInv ==
  /\ CountInv /\ FrontierInv /\ ItemInv /\ ColorInv
  /\ phase = "done" => newFrontierSize = 0 /\ \A k \in V : item[k].pc = "end"

\* the dependency kernel
InitialInv ==
  /\ frontierSize = 0 /\ visited = {} /\ \A v \in V : colors[v] = 0
  /\ Distinct(newFrontier, newFrontierSize)
  /\ \A v \in V : /\ item[v].pc \in {"init", "end"}
                  /\ item[v].pc = "init" => v \notin InNewFrontier
                  /\ item[v].pc = "end" => /\ dependency[v] = Cardinality(Higher(v))
                                           /\ v \in InNewFrontier <=> dependency[v] = 0

IInv ==
  /\ TypeOK
  /\ phase = "init" => InitialInv
  /\ phase # "init" => RoundInv

-----------------------------------------------------------------------------
LEMMA FiniteV == V \subseteq Nat /\ IsFiniteSet(V) /\ Cardinality(V) = nv /\ 0 \in V
  <1>1. 0 \in Int /\ nv - 1 \in Int /\ ~ (0 > nv - 1)
    BY SizeAssumption
  <1>2. IsFiniteSet(0 .. nv - 1) /\ Cardinality(0 .. nv - 1) = nv - 1 - 0 + 1
    BY <1>1, FS_Interval
  <1> QED
    BY <1>2, SizeAssumption DEF V

LEMMA GraphFacts ==
  ASSUME adj \in Graphs
  PROVE  \A v \in V : /\ adj[v] \subseteq V /\ IsFiniteSet(adj[v]) /\ score(v) \in Nat
                      /\ Higher(v) \subseteq adj[v] /\ IsFiniteSet(Higher(v))
                      /\ \A u \in adj[v] : v \in adj[u]
  <1>1. adj \in [V -> SUBSET V] /\ \A u, v \in V : u \in adj[v] => v \in adj[u]
    BY GraphAssumption
  <1> SUFFICES ASSUME NEW v \in V
               PROVE  /\ adj[v] \subseteq V /\ IsFiniteSet(adj[v]) /\ score(v) \in Nat
                      /\ Higher(v) \subseteq adj[v] /\ IsFiniteSet(Higher(v))
                      /\ \A u \in adj[v] : v \in adj[u]
    OBVIOUS
  <1>2. adj[v] \in SUBSET V
    BY <1>1
  <1>3. IsFiniteSet(adj[v])
    BY <1>2, FiniteV, FS_Subset
  <1>4. score(v) \in Nat
    BY <1>3, FS_CardinalityType DEF score
  <1>5. Higher(v) \in SUBSET adj[v]
    BY DEF Higher
  <1>6. IsFiniteSet(Higher(v))
    BY <1>3, <1>5, FS_Subset
  <1> QED
    BY <1>1, <1>2, <1>3, <1>4, <1>5, <1>6

\* Of two neighbours one waits for the other.
LEMMA TotalOrder ==
  ASSUME adj \in Graphs, NEW u \in V, NEW v \in V, u # v, u \in adj[v]
  PROVE  u \in Higher(v) \/ v \in Higher(u)
  <1>1. score(u) \in Nat /\ score(v) \in Nat /\ u \in Nat /\ v \in Nat /\ v \in adj[u]
    BY GraphFacts, FiniteV
  <1>2. Precedes(u, v) \/ Precedes(v, u)
    BY <1>1 DEF Precedes
  <1> QED
    BY <1>1, <1>2 DEF Higher

LEMMA Irreflexive ==
  ASSUME adj \in Graphs, NEW v \in V
  PROVE  v \notin Higher(v)
  <1>1. score(v) \in Nat /\ v \in Nat
    BY GraphFacts, FiniteV
  <1> QED
    BY <1>1 DEF Higher, Precedes

\* What Enter does, for a vertex that is not in the new frontier.
LEMMA EnterStep ==
  ASSUME newFrontier \in [V -> V], newFrontierSize \in 0 .. nv,
         Distinct(newFrontier, newFrontierSize), NEW v \in V, v \notin InNewFrontier, Enter(v)
  PROVE  /\ newFrontier' \in [V -> V] /\ newFrontierSize' \in 0 .. nv
         /\ InNewFrontier' = InNewFrontier \union {v}
         /\ Distinct(newFrontier', newFrontierSize')
  <1>1. InNewFrontier = Entries(newFrontier, newFrontierSize)
    BY DEF InNewFrontier, Entries
  <1>2. InNewFrontier' = Entries(newFrontier', newFrontierSize')
    BY DEF InNewFrontier, Entries
  <1>3. /\ newFrontier' = [newFrontier EXCEPT ![newFrontierSize] = v]
        /\ newFrontierSize' = newFrontierSize + 1
    BY DEF Enter
  <1>4. /\ nv \in Nat /\ newFrontier \in [0 .. nv - 1 -> 0 .. nv - 1] /\ v \in 0 .. nv - 1
        /\ v \notin Entries(newFrontier, newFrontierSize)
    BY <1>1, SizeAssumption DEF V
  <1>5. /\ [newFrontier EXCEPT ![newFrontierSize] = v] \in [0 .. nv - 1 -> 0 .. nv - 1]
        /\ newFrontierSize + 1 \in 0 .. nv
        /\ Entries([newFrontier EXCEPT ![newFrontierSize] = v], newFrontierSize + 1)
             = Entries(newFrontier, newFrontierSize) \union {v}
        /\ Distinct([newFrontier EXCEPT ![newFrontierSize] = v], newFrontierSize + 1)
    BY <1>4, DistinctAppend
  <1>6. /\ newFrontier' \in [0 .. nv - 1 -> 0 .. nv - 1] /\ newFrontierSize' \in 0 .. nv
        /\ Entries(newFrontier', newFrontierSize') = Entries(newFrontier, newFrontierSize) \union {v}
        /\ Distinct(newFrontier', newFrontierSize')
    BY <1>3, <1>5
  <1> QED
    BY <1>1, <1>2, <1>6 DEF V

-----------------------------------------------------------------------------
LEMMA InitOK == Init => IInv
  <1> SUFFICES ASSUME Init PROVE IInv
    OBVIOUS
  <1> USE DEF Init
  <1>1. Starting \in ItemType /\ Starting.pc = "init"
    BY FiniteV DEF Starting, Idle, ItemType
  <1>2. TypeOK
    BY <1>1, FiniteV, SizeAssumption DEF TypeOK
  <1>3. InitialInv
    BY <1>1 DEF InitialInv, InNewFrontier, Distinct
  <1> QED
    BY <1>2, <1>3 DEF IInv

LEMMA InitialDependencyStep ==
  ASSUME IInv, NEW x \in V, InitialDependency(x)
  PROVE  IInv'
  <1> USE DEF InitialDependency, input, rounds
  <1>1. TypeOK /\ InitialInv
    BY DEF IInv
  <1>2. Idle \in ItemType /\ Idle.pc = "end"
    BY FiniteV DEF Idle, ItemType
  <1>3. /\ item' \in [V -> ItemType]
        /\ item[x].pc = "init" /\ item'[x].pc = "end"
        /\ \A v \in V : v # x => item'[v] = item[v]
    BY <1>1, <1>2 DEF TypeOK
  <1>4. Cardinality(Higher(x)) \in Nat
    BY <1>1, GraphFacts, FS_CardinalityType DEF TypeOK
  <1>5. /\ dependency' \in [V -> Int]
        /\ dependency'[x] = Cardinality(Higher(x))
        /\ \A v \in V : v # x => dependency'[v] = dependency[v]
    BY <1>1, <1>4 DEF TypeOK
  <1>6. x \notin InNewFrontier
    BY <1>1, <1>3 DEF InitialInv
  <1>7. /\ newFrontier' \in [V -> V] /\ newFrontierSize' \in 0 .. nv
        /\ InNewFrontier' = IF dependency'[x] = 0 THEN InNewFrontier \union {x} ELSE InNewFrontier
        /\ Distinct(newFrontier', newFrontierSize')
    <2>1. CASE dependency'[x] = 0
      BY <1>1, <1>5, <1>6, <2>1, EnterStep DEF TypeOK, InitialInv
    <2>2. CASE dependency'[x] # 0
      BY <1>1, <1>5, <2>2 DEF TypeOK, InitialInv, InNewFrontier
    <2> QED
      BY <2>1, <2>2
  <1>8. TypeOK'
    BY <1>1, <1>3, <1>5, <1>7 DEF TypeOK
  <1>9. InitialInv'
    <2>1. Higher(x)' = Higher(x) /\ \A v \in V : Higher(v)' = Higher(v)
      BY DEF Higher, Precedes, score
    <2> QED
      BY <1>1, <1>3, <1>5, <1>7, <2>1 DEF InitialInv
  <1> QED
    BY <1>8, <1>9 DEF IInv

\* The order of the vertices never changes.
LEMMA SameOrder ==
  ASSUME adj' = adj
  PROVE  \A v \in V : Higher(v)' = Higher(v)
  BY DEF Higher, Precedes, score

\* The next frontier is launched with nobody counted down by it, or the loop ends.
LEMMA NextRoundStep ==
  ASSUME IInv, NextRound
  PROVE  IInv'
  <1> USE DEF NextRound, input
  <1>1. TypeOK /\ adj' = adj /\ phase # "done" /\ \A k \in V : item[k].pc = "end"
    BY DEF IInv
  <1>2. /\ newFrontierSize \in Nat /\ newFrontierSize <= nv /\ nv \in Nat
        /\ frontierSize \in Nat /\ frontierSize <= nv
    BY <1>1, SizeAssumption DEF TypeOK
  <1>3. \A v \in V : Higher(v)' = Higher(v) /\ Higher(v) \subseteq V
    BY <1>1, SameOrder, GraphFacts DEF TypeOK
  <1>4. Distinct(newFrontier, newFrontierSize)
    BY <1>1 DEF IInv, InitialInv, RoundInv, FrontierInv
  <1>5. /\ \A k \in 0 .. newFrontierSize - 1 : newFrontier[k] \in V /\ newFrontier[k] \in InNewFrontier
        /\ InFrontier \subseteq V /\ InNewFrontier \subseteq V /\ Entered \subseteq V
    <2>1. \A k \in 0 .. newFrontierSize - 1 : k \in V
      BY <1>2 DEF V
    <2>2. \A k \in 0 .. frontierSize - 1 : k \in V
      BY <1>2 DEF V
    <2>3. InFrontier \subseteq V /\ InNewFrontier \subseteq V
      BY <1>1, <2>1, <2>2 DEF TypeOK, InFrontier, InNewFrontier
    <2> QED
      BY <1>1, <2>1, <2>3 DEF TypeOK, InNewFrontier, Entered
  <1>6. CASE newFrontierSize = 0
    <2> USE <1>6
    <2>1. /\ phase' = "done"
          /\ UNCHANGED <<num_loops, frontier, frontierSize, newFrontier, newFrontierSize, item,
                         input, colors, dependency, visited>>
      OBVIOUS
    <2>2. TypeOK'
      BY <1>1, <2>1 DEF TypeOK
    <2>3. \A v \in V : Waiting(v)' = Waiting(v)
      BY <1>3, <2>1 DEF Waiting, CountedDown, Passed
    <2>4. Entered' = Entered /\ InFrontier' = InFrontier /\ InNewFrontier' = InNewFrontier
      BY <2>1 DEF Entered, InFrontier, InNewFrontier
    <2>5. CASE phase = "init"
      <3>1. InitialInv
        BY <2>5 DEF IInv
      <3>2. InFrontier = {} /\ InNewFrontier = {} /\ Entered = {}
        BY <3>1 DEF InitialInv, InFrontier, InNewFrontier, Entered
      <3>3. \A v \in V : Waiting(v) = Higher(v)
        BY <3>1 DEF InitialInv, Waiting, CountedDown
      <3>4. \A v \in V : Cardinality(Higher(v)) \in Nat /\ dependency[v] = Cardinality(Higher(v)) /\ dependency[v] # 0
        BY <1>1, <3>1, <3>2, GraphFacts, FS_CardinalityType DEF InitialInv, TypeOK
      <3>5. CountInv'
        BY <2>1, <2>3, <2>4, <3>2, <3>3, <3>4 DEF CountInv
      <3>6. FrontierInv'
        BY <2>1, <2>4, <3>1, <3>2 DEF FrontierInv, FrontierIndependent, InitialInv, Distinct
      <3>7. ItemInv'
        BY <1>1, <1>2, <2>1, <3>1, FiniteV DEF ItemInv, ItemOK, InitialInv
      <3>8. ColorInv'
        BY <2>1, <3>1 DEF ColorInv, ProperColors, InitialInv
      <3> QED
        BY <1>1, <2>1, <2>2, <3>5, <3>6, <3>7, <3>8 DEF IInv, RoundInv
    <2>6. CASE phase # "init"
      <3>1. RoundInv
        BY <2>6 DEF IInv
      <3>2. CountInv'
        BY <1>5, <2>1, <2>3, <2>4, <3>1 DEF CountInv, RoundInv
      <3>3. FrontierInv'
        BY <1>3, <1>5, <2>1, <2>4, <3>1 DEF FrontierInv, FrontierIndependent, RoundInv, Distinct
      <3>4. ItemInv'
        BY <2>1, <3>1 DEF ItemInv, ItemOK, RoundInv, Banned
      <3>5. ColorInv'
        BY <2>1, <3>1 DEF ColorInv, ProperColors, RoundInv
      <3> QED
        BY <1>1, <2>1, <2>2, <3>2, <3>3, <3>4, <3>5 DEF IInv, RoundInv
    <2> QED
      BY <2>5, <2>6
  <1>7. CASE newFrontierSize > 0
    <2>1. /\ phase' = "rounds" /\ num_loops' = num_loops + 1
          /\ frontierSize' = newFrontierSize /\ newFrontierSize' = 0
          /\ frontier' = newFrontier /\ newFrontier' = frontier
          /\ item' = [k \in V |-> IF k < newFrontierSize THEN Scanning(newFrontier[k]) ELSE Idle]
          /\ UNCHANGED <<adj, algorithm, colors, dependency, visited>>
      BY <1>7 DEF SizeAfterSwap
    <2>2. \A k \in V : k < newFrontierSize =>
            /\ Scanning(newFrontier[k]) \in ItemType
            /\ Scanning(newFrontier[k]).pc = "scan" /\ Scanning(newFrontier[k]).colorOffset = 0
            /\ Scanning(newFrontier[k]).unread = adj[newFrontier[k]]
      <3>1. \A v \in V : adj[v] \in SUBSET V
        BY <1>1, GraphFacts DEF TypeOK
      <3>2. \A k \in V : newFrontier[k] \in V
        BY <1>1 DEF TypeOK
      <3> QED
        BY <3>1, <3>2, FiniteV DEF Scanning, Idle, ItemType
    <2>3. Idle \in ItemType /\ Idle.pc = "end"
      BY FiniteV DEF Idle, ItemType
    <2>4. \A k \in V : item'[k] = IF k < newFrontierSize THEN Scanning(newFrontier[k]) ELSE Idle
      BY <2>1
    <2>5. TypeOK'
      <3>1. item' \in [V -> ItemType]
        BY <2>1, <2>2, <2>3
      <3> QED
        BY <1>1, <1>2, <2>1, <3>1 DEF TypeOK
    <2>6. InFrontier' = InNewFrontier /\ InNewFrontier' = {}
      BY <2>1 DEF InFrontier, InNewFrontier
    \* before, what is left of those that v waits for is what is not visited
    <2>7. \A v \in V : Waiting(v) = {u \in Higher(v) : u \notin visited}
      <3>1. CASE phase = "init"
        BY <3>1 DEF IInv, InitialInv, Waiting, CountedDown
      <3>2. CASE phase # "init"
        <4>1. \A k \in 0 .. frontierSize - 1 : frontier[k] \in visited
          BY <1>1, <1>2, <3>2 DEF IInv, RoundInv, ItemInv, ItemOK, V
        <4> QED
          BY <4>1 DEF Waiting, CountedDown
      <3> QED
        BY <3>1, <3>2
    <2>8. \A v \in V : Waiting(v)' = Waiting(v)
      <3> SUFFICES ASSUME NEW v \in V PROVE Waiting(v)' = Waiting(v)
        OBVIOUS
      <3>1. ASSUME NEW u \in Higher(v), NEW k \in 0 .. newFrontierSize - 1, newFrontier[k] = u
            PROVE  ~ Passed(k, v)'
        <4>1. k \in V /\ k < newFrontierSize
          BY <1>2 DEF V
        <4>2. u \in adj[v] /\ v \in adj[u]
          BY <1>1, GraphFacts DEF TypeOK
        <4>3. item'[k].pc = "scan" /\ item'[k].colorOffset = 0 /\ item'[k].unread = adj[u]
          BY <2>2, <2>4, <3>1, <4>1
        <4> QED
          BY <4>2, <4>3 DEF Passed
      <3>2. \A u \in Higher(v) : CountedDown(u, v)' <=> u \in visited
        BY <2>1, <3>1 DEF CountedDown
      <3> QED
        BY <1>3, <2>7, <3>2 DEF Waiting
    <2>9. /\ \A v \in V : v \in Entered' <=> v \in Entered
          /\ InNewFrontier \intersect visited = {}
      <3>1. CASE phase = "init"
        BY <2>1, <2>6, <3>1 DEF IInv, InitialInv, Entered, InFrontier
      <3>2. CASE phase # "init"
        <4>1. InFrontier \subseteq visited
          BY <1>1, <1>2, <3>2 DEF IInv, RoundInv, ItemInv, ItemOK, InFrontier, V
        <4>2. InNewFrontier \intersect visited = {}
          BY <3>2 DEF IInv, RoundInv, FrontierInv
        <4> QED
          BY <2>1, <2>6, <4>1, <4>2 DEF Entered
      <3> QED
        BY <3>1, <3>2
    <2>10. CountInv'
      <3>1. Entered \subseteq V
        BY <1>5
      <3>2. Entered' \subseteq V
        BY <1>5, <2>1, <2>6, <1>1 DEF Entered, InNewFrontier, TypeOK
      <3>3. \A v \in Entered : dependency[v] <= 0 /\ Waiting(v) = {}
        <4>1. CASE phase = "init"
          <5>1. InitialInv /\ Entered = InNewFrontier
            BY <4>1 DEF IInv, InitialInv, Entered, InFrontier
          <5>2. \A v \in Entered : dependency[v] = 0 /\ Cardinality(Higher(v)) = 0
            BY <1>1, <3>1, <5>1 DEF InitialInv
          <5>3. \A v \in Entered : Higher(v) = {}
            BY <1>1, <3>1, <5>2, GraphFacts, FS_EmptySet DEF TypeOK
          <5> QED
            BY <5>2, <5>3 DEF Waiting
        <4>2. CASE phase # "init"
          BY <4>2 DEF IInv, RoundInv, CountInv
        <4> QED
          BY <4>1, <4>2
      <3>4. \A v \in V \ Entered : dependency[v] = Cardinality(Waiting(v)) /\ dependency[v] > 0
        <4>1. CASE phase = "init"
          <5>1. InitialInv /\ Entered = InNewFrontier
            BY <4>1 DEF IInv, InitialInv, Entered, InFrontier
          <5>2. \A v \in V : Waiting(v) = Higher(v)
            BY <5>1 DEF InitialInv, Waiting, CountedDown
          <5>3. \A v \in V : Cardinality(Higher(v)) \in Nat
            BY <1>1, GraphFacts, FS_CardinalityType DEF TypeOK
          <5> QED
            BY <1>1, <5>1, <5>2, <5>3 DEF InitialInv
        <4>2. CASE phase # "init"
          BY <4>2 DEF IInv, RoundInv, CountInv
        <4> QED
          BY <4>1, <4>2
      <3> QED
        BY <2>1, <2>8, <2>9, <3>1, <3>2, <3>3, <3>4 DEF CountInv
    <2>11. FrontierInv'
      <3>1. \A v \in InNewFrontier : v \in V /\ Higher(v) \subseteq visited
        <4>1. \A v \in InNewFrontier : v \in V /\ v \in Entered'
          BY <1>5, <2>6 DEF InNewFrontier, Entered
        <4>2. \A v \in InNewFrontier : Waiting(v) = {}
          BY <2>8, <2>10, <4>1 DEF CountInv
        <4> QED
          BY <2>7, <4>1, <4>2
      <3>2. \A u, v \in InNewFrontier : u # v => u \notin adj[v]
        <4> SUFFICES ASSUME NEW u \in InNewFrontier, NEW v \in InNewFrontier, u # v, u \in adj[v]
                     PROVE  FALSE
          OBVIOUS
        <4>1. u \in Higher(v) \/ v \in Higher(u)
          BY <1>1, <3>1, TotalOrder DEF TypeOK
        <4> QED
          BY <2>9, <3>1, <4>1
      <3>3. Distinct(frontier', frontierSize') /\ Distinct(newFrontier', newFrontierSize')
        BY <1>4, <2>1 DEF Distinct
      <3>4. \A v \in InFrontier' : Higher(v)' \subseteq visited'
        BY <1>3, <2>1, <2>6, <3>1
      <3>5. FrontierIndependent'
        BY <2>1, <2>6, <3>2 DEF FrontierIndependent
      <3> QED
        BY <2>6, <3>3, <3>4, <3>5 DEF FrontierInv
    <2>12. ItemInv'
      <3> SUFFICES ASSUME NEW k \in V
                   PROVE  /\ item'[k].pc # "init"
                          /\ k >= newFrontierSize => item'[k].pc = "end"
                          /\ k < newFrontierSize =>
                               /\ item'[k].pc = "scan" /\ newFrontier[k] \notin visited
                               /\ item'[k].unread = adj[newFrontier[k]] /\ item'[k].colorOffset = 0
        <4>1. /\ frontierSize' = newFrontierSize /\ frontier' = newFrontier
              /\ adj' = adj /\ visited' = visited
          BY <2>1
        <4>2. \A k \in V : k >= newFrontierSize \/ k < newFrontierSize
          BY <1>2, FiniteV
        <4> QED
          BY <1>2, <4>1, <4>2, FiniteV DEF ItemInv, ItemOK
      <3>1. CASE k < newFrontierSize
        <4>1. k \in 0 .. newFrontierSize - 1
          BY <1>2, <3>1, FiniteV
        <4>2. newFrontier[k] \notin visited
          BY <1>5, <2>9, <4>1
        <4> QED
          BY <1>2, <2>2, <2>4, <3>1, <4>2, FiniteV
      <3>2. CASE ~ (k < newFrontierSize)
        BY <2>3, <2>4, <3>2
      <3> QED
        BY <3>1, <3>2
    <2>13. ColorInv'
      <3>1. ColorInv
        BY DEF IInv, InitialInv, RoundInv, ColorInv, ProperColors
      <3> QED
        BY <2>1, <3>1 DEF ColorInv, ProperColors
    <2> QED
      BY <2>1, <2>5, <2>10, <2>11, <2>12, <2>13 DEF IInv, RoundInv
  <1> QED
    BY <1>2, <1>6, <1>7

-----------------------------------------------------------------------------
(* The items of a round. *)

\* Where an item that still runs is.
LEMMA RunningItem ==
  ASSUME IInv, phase = "rounds", NEW k \in V, item[k].pc # "end"
  PROVE  /\ TypeOK /\ RoundInv
         /\ k \in 0 .. frontierSize - 1
         /\ frontier[k] \in V /\ frontier[k] \in InFrontier /\ frontier[k] \notin visited
         /\ \A j \in V : j # k /\ item[j].pc # "end" => frontier[j] # frontier[k]
         /\ \A w : CountedDown(frontier[k], w) <=> Passed(k, w)
         /\ InFrontier \subseteq V /\ InNewFrontier \subseteq V /\ Entered \subseteq V
  <1>1. TypeOK /\ RoundInv
    BY DEF IInv
  <1>2. /\ frontierSize \in Nat /\ frontierSize <= nv /\ nv \in Nat
        /\ newFrontierSize \in Nat /\ newFrontierSize <= nv
    BY <1>1, SizeAssumption DEF TypeOK
  <1>3. \A j \in V : item[j].pc # "end" => j \in 0 .. frontierSize - 1 /\ frontier[j] \notin visited
    <2> SUFFICES ASSUME NEW j \in V, item[j].pc # "end"
                 PROVE  j \in 0 .. frontierSize - 1 /\ frontier[j] \notin visited
      OBVIOUS
    <2>1. j \in Nat /\ ~ (j >= frontierSize)
      BY <1>1, FiniteV DEF RoundInv, ItemInv, ItemOK
    <2> QED
      BY <1>1, <1>2, <2>1 DEF RoundInv, ItemInv, ItemOK
  <1>4. \A i, j \in 0 .. frontierSize - 1 : frontier[i] = frontier[j] => i = j
    BY <1>1 DEF RoundInv, FrontierInv, Distinct
  <1>5. frontier[k] \in V /\ frontier[k] \in InFrontier
    BY <1>1, <1>3 DEF TypeOK, InFrontier
  <1>6. \A j \in V : j # k /\ item[j].pc # "end" => frontier[j] # frontier[k]
    BY <1>3, <1>4
  <1>7. \A w : CountedDown(frontier[k], w) <=> Passed(k, w)
    BY <1>3, <1>4 DEF CountedDown
  <1>8. InFrontier \subseteq V /\ InNewFrontier \subseteq V
    <2>1. \A i \in 0 .. frontierSize - 1 : i \in V
      BY <1>2 DEF V
    <2>2. \A i \in 0 .. newFrontierSize - 1 : i \in V
      BY <1>2 DEF V
    <2> QED
      BY <1>1, <2>1, <2>2 DEF TypeOK, InFrontier, InNewFrontier
  <1> QED
    BY <1>1, <1>3, <1>5, <1>6, <1>7, <1>8 DEF TypeOK, Entered

\* A step of one item changes nothing for the vertices it does not count down.
LEMMA SameWaiting ==
  ASSUME NEW k \in V, NEW w \in V, adj' = adj, frontier' = frontier, frontierSize' = frontierSize,
         visited' = visited, \A j \in V : j # k => item'[j] = item[j],
         Passed(k, w)' <=> Passed(k, w), frontierSize \in 0 .. nv
  PROVE  Waiting(w)' = Waiting(w)
  <1>1. Higher(w)' = Higher(w)
    BY SameOrder
  <1>2. \A j \in 0 .. frontierSize - 1 : j \in V
    BY SizeAssumption DEF V
  <1>3. \A j \in V : Passed(j, w)' <=> Passed(j, w)
    BY DEF Passed
  <1> QED
    BY <1>1, <1>2, <1>3 DEF Waiting, CountedDown

LEMMA VisitStep ==
  ASSUME IInv, NEW k \in V, Visit(k)
  PROVE  IInv'
  <1> USE DEF Visit, input, rounds
  <1> DEFINE v == frontier[k]
  <1>1. /\ phase = "rounds" /\ item[k].pc = "scan"
        /\ UNCHANGED <<adj, algorithm, colors, dependency, newFrontier, newFrontierSize,
                       frontier, frontierSize, num_loops, phase, visited>>
    OBVIOUS
  <1>2. PICK n \in item[k].unread :
          LET counts == item[k].colorOffset = 0 /\ dependency[n] >= 0
          IN  item' = [item EXCEPT
                ![k].unread = @ \ {n},
                ![k].banned = @ \union Banned(colors[n], item[k].colorOffset),
                ![k].pc = IF counts THEN "decrement" ELSE "scan",
                ![k].neigh = IF counts THEN n ELSE 0]
    OBVIOUS
  <1> DEFINE counts == item[k].colorOffset = 0 /\ dependency[n] >= 0
  <1>3. /\ TypeOK /\ RoundInv /\ k \in 0 .. frontierSize - 1
        /\ v \in V /\ v \in InFrontier /\ v \notin visited
        /\ \A w : CountedDown(v, w) <=> Passed(k, w)
        /\ Entered \subseteq V /\ InFrontier \subseteq V
    BY <1>1, RunningItem
  <1>4. item[k] \in ItemType /\ n \in V
    BY <1>2, <1>3 DEF TypeOK, ItemType
  <1>5. /\ item'[k].unread = item[k].unread \ {n}
        /\ item'[k].banned = item[k].banned \union Banned(colors[n], item[k].colorOffset)
        /\ item'[k].pc = IF counts THEN "decrement" ELSE "scan"
        /\ item'[k].neigh = IF counts THEN n ELSE 0
        /\ item'[k].colorOffset = item[k].colorOffset
        /\ \A j \in V : j # k => item'[j] = item[j]
    BY <1>2, <1>3, <1>4 DEF TypeOK, ItemType
  <1>6. \A c \in Nat, o \in Nat : Banned(c, o) \subseteq Nat
    BY SizeAssumption DEF Banned
  <1>7. TypeOK'
    <2>1. Banned(colors[n], item[k].colorOffset) \subseteq Nat
      BY <1>3, <1>4, <1>6 DEF TypeOK, ItemType
    <2>2. item'[k] \in ItemType
      <3>1. item'[k] = [item[k] EXCEPT !.unread = @ \ {n},
                                       !.banned = @ \union Banned(colors[n], item[k].colorOffset),
                                       !.pc = IF counts THEN "decrement" ELSE "scan",
                                       !.neigh = IF counts THEN n ELSE 0]
        BY <1>2, <1>3 DEF TypeOK
      <3>2. /\ item[k].unread \ {n} \in SUBSET V
            /\ item[k].banned \union Banned(colors[n], item[k].colorOffset) \in SUBSET Nat
            /\ (IF counts THEN "decrement" ELSE "scan") \in {"init", "scan", "decrement", "end"}
            /\ (IF counts THEN n ELSE 0) \in V
        BY <1>4, <2>1, FiniteV DEF ItemType
      <3> HIDE DEF counts
      <3> QED
        BY <1>4, <3>1, <3>2 DEF ItemType
    <2>3. item' \in [V -> ItemType]
      BY <1>2, <1>3, <1>5, <2>2 DEF TypeOK
    <2> QED
      BY <1>1, <1>3, <2>3 DEF TypeOK
  \* if v had yet to count n down, it will
  <1>8. \A w \in V : Waiting(w)' = Waiting(w)
    <2> SUFFICES ASSUME NEW w \in V PROVE Waiting(w)' = Waiting(w)
      OBVIOUS
    <2>1. CASE w # n \/ counts \/ item[k].colorOffset > 0
      <3>1. Passed(k, w)' <=> Passed(k, w)
        <4>1. CASE item[k].colorOffset > 0
          BY <1>5, <4>1 DEF Passed
        <4>2. CASE w # n
          BY <1>1, <1>5, <4>2 DEF Passed
        <4>3. CASE w = n /\ counts
          BY <1>1, <1>2, <1>5, <4>3 DEF Passed
        <4> QED
          BY <2>1, <4>1, <4>2, <4>3
      <3> QED
        BY <1>1, <1>3, <1>5, <3>1, SameWaiting DEF TypeOK
    <2>2. CASE w = n /\ ~ counts /\ ~ (item[k].colorOffset > 0)
      <3>1. item[k].colorOffset = 0 /\ dependency[n] < 0
        BY <1>3, <1>4, <2>2 DEF TypeOK, ItemType
      <3>2. n \in Entered /\ Waiting(n) = {}
        BY <1>3, <1>4, <3>1 DEF RoundInv, CountInv, TypeOK
      <3>3. ~ Passed(k, n)
        BY <1>1, <1>2, <3>1 DEF Passed
      <3>4. v \notin Higher(n)
        BY <1>3, <3>2, <3>3 DEF Waiting
      <3>5. \A u \in Higher(n) : \A j \in 0 .. frontierSize - 1 : frontier[j] = u => j # k /\ j \in V
        <4>1. \A j \in 0 .. frontierSize - 1 : j \in V
          <5>1. frontierSize \in 0 .. nv /\ nv \in Nat
            BY <1>3, SizeAssumption DEF TypeOK
          <5> QED
            BY <5>1 DEF V
        <4> QED
          BY <3>4, <4>1
      <3>6. Higher(n)' = Higher(n)
        BY <1>1, <1>4, SameOrder
      <3>7. \A u \in Higher(n) : CountedDown(u, n)' <=> CountedDown(u, n)
        <4>1. \A j \in V : j # k => (Passed(j, n)' <=> Passed(j, n))
          BY <1>5 DEF Passed
        <4> QED
          BY <1>1, <3>5, <4>1 DEF CountedDown
      <3> QED
        BY <2>2, <3>6, <3>7 DEF Waiting
    <2> QED
      BY <2>1, <2>2
  <1>9. /\ Entered' = Entered /\ InFrontier' = InFrontier /\ InNewFrontier' = InNewFrontier
    BY <1>1 DEF Entered, InFrontier, InNewFrontier
  <1>10. CountInv'
    BY <1>1, <1>3, <1>8, <1>9 DEF CountInv, RoundInv
  <1>11. FrontierInv'
    <2>1. \A w \in V : Higher(w)' = Higher(w)
      BY <1>1, SameOrder
    <2> QED
      BY <1>1, <1>3, <1>9, <2>1 DEF FrontierInv, FrontierIndependent, RoundInv, Distinct
  <1>12. ItemInv'
    <2>1. ASSUME NEW j \in V, j # k PROVE item'[j] = item[j]
      BY <1>5, <2>1
    <2>2. \A c, o : Banned(c, o)' = Banned(c, o)
      BY <1>1 DEF Banned
    <2>3. n \in adj[v] /\ k < frontierSize
      <3>1. item[k].unread \subseteq adj[v]
        BY <1>1, <1>3 DEF RoundInv, ItemInv, ItemOK
      <3>2. k < frontierSize
        BY <1>3 DEF TypeOK
      <3> QED
        BY <1>2, <3>1, <3>2
    <2>4. ItemInv
      BY <1>3 DEF RoundInv
    <2>5. ASSUME NEW j \in V PROVE ItemOK(j)'
      <3>1. CASE j # k
        BY <1>1, <2>1, <2>2, <2>4, <3>1 DEF ItemInv, ItemOK
      <3>2. CASE j = k
        <4>1. /\ item'[k].pc \in {"scan", "decrement"}
              /\ item'[k].pc = "decrement" => item[k].colorOffset = 0 /\ item'[k].neigh = n
          BY <1>5
        <4>2. ~ (k >= frontierSize)
          BY <1>3, <2>3 DEF TypeOK
        <4>3. \A u \in adj[v] \ {v} :
                u \notin item'[k].unread => Banned(colors[u], item'[k].colorOffset) \subseteq item'[k].banned
          BY <1>1, <1>5, <2>4 DEF ItemInv, ItemOK
        <4>4. /\ item'[k].unread \subseteq adj[v]
              /\ item'[k].colorOffset = 0 \/ (algorithm = "VBDBIT" /\ 0 .. WIDTH - 1 \subseteq item'[k].banned)
          BY <1>1, <1>5, <2>4 DEF ItemInv, ItemOK
        <4> QED
          BY <1>1, <1>3, <1>5, <2>2, <2>3, <3>2, <4>1, <4>2, <4>3, <4>4 DEF ItemOK
      <3> QED
        BY <3>1, <3>2
    <2> QED
      BY <2>5 DEF ItemInv
  <1>13. ColorInv'
    BY <1>1, <1>3 DEF ColorInv, ProperColors, RoundInv
  <1> QED
    BY <1>1, <1>7, <1>10, <1>11, <1>12, <1>13 DEF IInv, RoundInv

LEMMA DecrementStep ==
  ASSUME IInv, NEW k \in V, Decrement(k)
  PROVE  IInv'
  <1> USE DEF Decrement, input, rounds
  <1>0. PICK n \in V, v \in V : n = item[k].neigh /\ v = frontier[k]
    <2>1. item[k].pc # "end" /\ phase = "rounds" /\ TypeOK
      BY DEF IInv
    <2>2. item[k].neigh \in V /\ frontier[k] \in V
      BY <2>1 DEF TypeOK, ItemType
    <2> QED
      BY <2>2
  <1>1. /\ phase = "rounds" /\ item[k].pc = "decrement"
        /\ UNCHANGED <<adj, algorithm, colors, frontier, frontierSize, num_loops, phase, visited>>
        /\ dependency' = [dependency EXCEPT ![n] = @ - 1]
        /\ item' = [item EXCEPT ![k].pc = "scan", ![k].neigh = 0]
        /\ IF dependency[n] - 1 = 0 THEN Enter(n) ELSE UNCHANGED <<newFrontier, newFrontierSize>>
    BY <1>0
  <1>2. /\ TypeOK /\ RoundInv /\ k \in 0 .. frontierSize - 1
        /\ v \in V /\ v \in InFrontier /\ v \notin visited
        /\ \A w : CountedDown(v, w) <=> Passed(k, w)
        /\ Entered \subseteq V /\ InFrontier \subseteq V /\ InNewFrontier \subseteq V
    BY <1>0, <1>1, RunningItem
  <1>3. /\ item[k] \in ItemType /\ n \in adj[v] /\ n \notin item[k].unread
        /\ item[k].colorOffset = 0 /\ v \in adj[n]
    <2>1. item[k] \in ItemType
      BY <1>2 DEF TypeOK
    <2>2. n \in adj[v] /\ n \notin item[k].unread /\ item[k].colorOffset = 0
      BY <1>0, <1>1, <1>2 DEF RoundInv, ItemInv, ItemOK
    <2> QED
      BY <1>2, <2>1, <2>2, GraphFacts DEF TypeOK
  <1>4. /\ item'[k].unread = item[k].unread /\ item'[k].banned = item[k].banned
        /\ item'[k].pc = "scan" /\ item'[k].colorOffset = 0
        /\ \A j \in V : j # k => item'[j] = item[j]
    BY <1>1, <1>2, <1>3 DEF TypeOK, ItemType
  <1>5. /\ dependency' \in [V -> Int] /\ dependency[n] \in Int
        /\ dependency'[n] = dependency[n] - 1
        /\ \A w \in V : w # n => dependency'[w] = dependency[w]
    BY <1>1, <1>2, <1>3 DEF TypeOK
  <1>6. \A w \in V : w # n => Waiting(w)' = Waiting(w)
    <2> SUFFICES ASSUME NEW w \in V, w # n PROVE Waiting(w)' = Waiting(w)
      OBVIOUS
    <2>1. Passed(k, w)' <=> Passed(k, w)
      BY <1>0, <1>1, <1>3, <1>4 DEF Passed
    <2> QED
      BY <1>1, <1>2, <1>4, <2>1, SameWaiting DEF TypeOK
  <1>7. ~ Passed(k, n) /\ Passed(k, n)'
    BY <1>0, <1>1, <1>3, <1>4 DEF Passed
  <1>8. Waiting(n)' = Waiting(n) \ {v}
    <2>1. Higher(n)' = Higher(n)
      BY <1>1, <1>3, SameOrder
    <2>2. \A j \in V : j # k => (Passed(j, n)' <=> Passed(j, n))
      BY <1>4 DEF Passed
    <2>3. \A j \in 0 .. frontierSize - 1 : j \in V
      <3>1. frontierSize \in 0 .. nv /\ nv \in Nat
        BY <1>2, SizeAssumption DEF TypeOK
      <3> QED
        BY <3>1 DEF V
    <2>4. CountedDown(v, n)'
      BY <1>0, <1>1, <1>2, <1>7 DEF CountedDown
    <2>5. \A u \in Higher(n) : u # v => (CountedDown(u, n)' <=> CountedDown(u, n))
      BY <1>0, <1>1, <2>2, <2>3 DEF CountedDown
    <2> QED
      BY <2>1, <2>4, <2>5 DEF Waiting
  \* a vertex that has not entered waits for v, and v is counted once
  <1>9. ASSUME n \notin Entered
        PROVE  /\ dependency[n] = Cardinality(Waiting(n)) /\ IsFiniteSet(Waiting(n))
               /\ Cardinality(Waiting(n)') = dependency[n] - 1 /\ IsFiniteSet(Waiting(n)')
               /\ dependency[n] > 0
    <2>1. n # v
      BY <1>2, <1>9 DEF Entered
    <2>2. n \notin Higher(v)
      <3>1. Higher(v) \subseteq visited
        BY <1>2 DEF RoundInv, FrontierInv
      <3> QED
        BY <1>9, <3>1 DEF Entered
    <2>3. v \in Higher(n)
      BY <1>2, <1>3, <2>1, <2>2, TotalOrder DEF TypeOK
    <2>4. v \in Waiting(n)
      BY <1>2, <1>7, <2>3 DEF Waiting
    <2>5. IsFiniteSet(Waiting(n))
      <3>1. IsFiniteSet(Higher(n)) /\ Waiting(n) \in SUBSET Higher(n)
        BY <1>2, <1>3, GraphFacts DEF TypeOK, Waiting
      <3> QED
        BY <3>1, FS_Subset
    <2>6. dependency[n] = Cardinality(Waiting(n)) /\ dependency[n] > 0
      BY <1>2, <1>3, <1>9 DEF RoundInv, CountInv
    <2>7. IsFiniteSet(Waiting(n) \ {v}) /\ Cardinality(Waiting(n) \ {v}) = Cardinality(Waiting(n)) - 1
      BY <2>4, <2>5, FS_RemoveElement
    <2> QED
      BY <1>8, <2>5, <2>6, <2>7
  <1>10. ASSUME n \in Entered PROVE dependency[n] <= 0 /\ Waiting(n)' = {} /\ dependency[n] - 1 # 0
    BY <1>2, <1>5, <1>8, <1>10 DEF RoundInv, CountInv
  <1>11. /\ newFrontier' \in [V -> V] /\ newFrontierSize' \in 0 .. nv
         /\ InNewFrontier' = IF dependency'[n] = 0 THEN InNewFrontier \union {n} ELSE InNewFrontier
         /\ Distinct(newFrontier', newFrontierSize')
         /\ dependency'[n] = 0 => n \notin Entered
    <2>1. CASE dependency[n] - 1 = 0
      <3>1. n \notin Entered /\ n \notin InNewFrontier
        BY <1>10, <2>1 DEF Entered
      <3> QED
        BY <1>1, <1>2, <1>3, <1>5, <2>1, <3>1, EnterStep DEF TypeOK, RoundInv, FrontierInv
    <2>2. CASE dependency[n] - 1 # 0
      BY <1>1, <1>2, <1>5, <2>2 DEF TypeOK, RoundInv, FrontierInv, InNewFrontier
    <2> QED
      BY <2>1, <2>2
  <1>12. InFrontier' = InFrontier /\ Entered' = IF dependency'[n] = 0 THEN Entered \union {n} ELSE Entered
    <2>1. InFrontier' = InFrontier
      BY <1>1 DEF InFrontier
    <2> QED
      BY <1>1, <1>11, <2>1 DEF Entered
  <1>13. TypeOK'
    <2>1. item'[k] \in ItemType
      <3>1. item'[k] = [item[k] EXCEPT !.pc = "scan", !.neigh = 0]
        BY <1>1, <1>2 DEF TypeOK
      <3>2. PICK i \in ItemType : i = item[k]
        BY <1>3
      <3>3. 0 \in V /\ "scan" \in {"init", "scan", "decrement", "end"}
        BY FiniteV
      <3>4. [i EXCEPT !.pc = "scan", !.neigh = 0] \in ItemType
        BY <3>3 DEF ItemType
      <3> QED
        BY <3>1, <3>2, <3>4
    <2>2. item' \in [V -> ItemType]
      BY <1>1, <1>2, <1>4, <2>1 DEF TypeOK
    <2> QED
      BY <1>1, <1>2, <1>5, <1>11, <2>2 DEF TypeOK
  <1>14. CountInv'
    <2>1. \A w \in Entered : dependency'[w] <= 0 /\ Waiting(w)' = {}
      <3> SUFFICES ASSUME NEW w \in Entered PROVE dependency'[w] <= 0 /\ Waiting(w)' = {}
        OBVIOUS
      <3>1. CASE w = n
        BY <1>5, <1>10, <3>1
      <3>2. CASE w # n
        BY <1>2, <1>5, <1>6, <3>2 DEF RoundInv, CountInv
      <3> QED
        BY <3>1, <3>2
    <2>2. \A w \in V \ Entered : w # n => dependency'[w] = Cardinality(Waiting(w)') /\ dependency'[w] > 0
      BY <1>2, <1>5, <1>6 DEF RoundInv, CountInv
    <2>3. n \notin Entered /\ dependency'[n] # 0 => dependency'[n] = Cardinality(Waiting(n)') /\ dependency'[n] > 0
      BY <1>5, <1>9
    <2>4. dependency'[n] = 0 => Waiting(n)' = {}
      BY <1>5, <1>9, <1>11, FS_EmptySet
    <2>5. \A w \in Entered' : dependency'[w] <= 0 /\ Waiting(w)' = {}
      BY <1>5, <1>12, <2>1, <2>4
    <2>6. \A w \in V \ Entered' : dependency'[w] = Cardinality(Waiting(w)') /\ dependency'[w] > 0
      BY <1>12, <2>2, <2>3
    <2> QED
      BY <2>5, <2>6 DEF CountInv
  <1>15. FrontierInv'
    <2>1. \A w \in V : Higher(w)' = Higher(w)
      BY <1>1, SameOrder
    <2>2. InNewFrontier' \intersect (InFrontier' \union visited') = {}
      BY <1>1, <1>2, <1>11, <1>12 DEF RoundInv, FrontierInv, Entered
    <2>3. Distinct(frontier', frontierSize')
      BY <1>1, <1>2 DEF RoundInv, FrontierInv
    <2>4. \A w \in InFrontier' : Higher(w)' \subseteq visited'
      BY <1>1, <1>2, <1>12, <2>1 DEF RoundInv, FrontierInv
    <2>5. FrontierIndependent'
      BY <1>1, <1>2, <1>12 DEF RoundInv, FrontierInv, FrontierIndependent
    <2> QED
      BY <1>11, <2>2, <2>3, <2>4, <2>5 DEF FrontierInv
  <1>16. ItemInv'
    <2>1. \A c, o : Banned(c, o)' = Banned(c, o)
      BY <1>1 DEF Banned
    <2>2. ASSUME NEW j \in V PROVE ItemOK(j)'
      <3>1. ItemOK(j)
        BY <1>2 DEF RoundInv, ItemInv
      <3>2. CASE j # k
        BY <1>1, <1>4, <2>1, <3>1, <3>2 DEF ItemOK
      <3>3. CASE j = k
        BY <1>0, <1>1, <1>4, <2>1, <3>1, <3>3 DEF ItemOK
      <3> QED
        BY <3>2, <3>3
    <2> QED
      BY <2>2 DEF ItemInv
  <1>17. ColorInv'
    BY <1>1, <1>2 DEF ColorInv, ProperColors, RoundInv
  <1> QED
    BY <1>1, <1>13, <1>14, <1>15, <1>16, <1>17 DEF IInv, RoundInv

\* A window of WIDTH colours holds the colour of its every bit, at that bit.
LEMMA Remainder ==
  ASSUME NEW x \in 0 .. WIDTH - 1
  PROVE  x % WIDTH = x
  BY SizeAssumption

\* A colour that an item may give is the colour of no neighbour.
LEMMA FreeColor ==
  ASSUME IInv, phase = "rounds", NEW k \in V, item[k].pc = "scan", item[k].unread = {},
         ~ WindowIsFull(k), NEW c \in Free(k)
  PROVE  /\ c \in Nat /\ c > 0
         /\ \A u \in adj[frontier[k]] \ {frontier[k]} : colors[u] # c
  <1>1. /\ TypeOK /\ RoundInv /\ k \in 0 .. frontierSize - 1
    BY RunningItem
  <1>2. item[k] \in ItemType /\ colors \in [V -> Nat] /\ algorithm \in {"VBD", "VBDBIT"}
    BY <1>1, AlgorithmAssumption DEF TypeOK
  <1>3. \A u \in adj[frontier[k]] \ {frontier[k]} :
          /\ u \in V
          /\ Banned(colors[u], item[k].colorOffset) \subseteq item[k].banned
    <2>1. adj[frontier[k]] \subseteq V
      BY <1>1, RunningItem, GraphFacts DEF TypeOK
    <2> QED
      BY <1>1, <2>1 DEF RoundInv, ItemInv, ItemOK
  <1>4. CASE algorithm = "VBD"
    <2>1. c \in 1 .. maxColors - 1 /\ c \notin item[k].banned
      BY <1>4 DEF Free
    <2>2. \A u \in adj[frontier[k]] \ {frontier[k]} : colors[u] \in item[k].banned
      BY <1>3, <1>4 DEF Banned
    <2> QED
      BY <2>1, <2>2
  <1>5. CASE algorithm = "VBDBIT"
    <2>1. item[k].colorOffset = 0
      BY <1>1, <1>5 DEF RoundInv, ItemInv, ItemOK, WindowIsFull
    <2>2. PICK b \in 0 .. WIDTH - 1 : b \notin item[k].banned /\ c = item[k].colorOffset + b + 1
      BY <1>5 DEF Free
    <2>3. c = b + 1 /\ b \in Nat /\ b < WIDTH /\ WIDTH \in Nat
      BY <2>1, <2>2, SizeAssumption
    <2>4. ASSUME NEW u \in adj[frontier[k]] \ {frontier[k]}, colors[u] = c PROVE FALSE
      <3>1. Banned(c, 0) = {b % WIDTH}
        <4>1. c > 0 /\ c < 0 + WIDTH + 1 /\ c - 1 = b
          BY <2>3
        <4> QED
          BY <1>5, <4>1 DEF Banned
      <3> QED
        BY <1>3, <2>1, <2>2, <2>4, <3>1, Remainder
    <2> QED
      BY <2>3, <2>4
  <1> QED
    BY <1>2, <1>4, <1>5

\* The item that ends has counted down every neighbour.
LEMMA ColorStep ==
  ASSUME IInv, NEW k \in V, Color(k)
  PROVE  IInv'
  <1> USE DEF Color, input, rounds
  <1>0. PICK v \in V : v = frontier[k]
    <2>1. item[k].pc # "end" /\ phase = "rounds"
      OBVIOUS
    <2> QED
      BY <2>1, RunningItem
  <1>1. /\ phase = "rounds" /\ item[k].pc = "scan" /\ item[k].unread = {} /\ ~ WindowIsFull(k)
        /\ UNCHANGED <<adj, algorithm, dependency, newFrontier, newFrontierSize,
                       frontier, frontierSize, num_loops, phase>>
        /\ item' = [item EXCEPT ![k] = Idle]
        /\ visited' = visited \union {v}
        /\ (\E c \in Free(k) : colors' = [colors EXCEPT ![v] = c]) \/ colors' = colors
    BY <1>0
  <1>2. /\ TypeOK /\ RoundInv /\ k \in 0 .. frontierSize - 1
        /\ v \in InFrontier /\ v \notin visited
        /\ \A j \in V : j # k /\ item[j].pc # "end" => frontier[j] # v
        /\ \A w : CountedDown(v, w) <=> Passed(k, w)
        /\ Entered \subseteq V /\ InFrontier \subseteq V /\ InNewFrontier \subseteq V
    BY <1>0, <1>1, RunningItem
  <1>3. adj[v] \subseteq V /\ v \notin Higher(v) /\ \A w \in V : Higher(w)' = Higher(w)
    BY <1>1, <1>2, GraphFacts, Irreflexive, SameOrder DEF TypeOK
  <1>4. /\ colors' \in [V -> Nat]
        /\ \A u \in V : u # v => colors'[u] = colors[u]
        /\ colors'[v] > 0 => \A u \in adj[v] \ {v} : colors'[u] # colors'[v]
    <2>1. CASE \E c \in Free(k) : colors' = [colors EXCEPT ![v] = c]
      <3>1. PICK c \in Free(k) : colors' = [colors EXCEPT ![v] = c]
        BY <2>1
      <3>2. c \in Nat /\ \A u \in adj[v] \ {v} : colors[u] # c
        BY <1>0, <1>1, FreeColor
      <3>3. colors'[v] = c /\ \A u \in V : u # v => colors'[u] = colors[u]
        BY <1>2, <3>1 DEF TypeOK
      <3> QED
        BY <1>2, <1>3, <3>1, <3>2, <3>3 DEF TypeOK
    <2>2. CASE colors' = colors
      <3>1. colors[v] \in Nat /\ ~ (colors[v] > 0)
        BY <1>2 DEF RoundInv, ColorInv, TypeOK
      <3> QED
        BY <1>2, <2>2, <3>1 DEF TypeOK
    <2> QED
      BY <1>1, <2>1, <2>2
  <1>5. /\ item'[k] = Idle /\ Idle.pc = "end" /\ Idle \in ItemType
        /\ \A j \in V : j # k => item'[j] = item[j]
    BY <1>1, <1>2, FiniteV DEF TypeOK, Idle, ItemType
  <1>6. TypeOK'
    <2>1. item' \in [V -> ItemType]
      BY <1>1, <1>2, <1>5 DEF TypeOK
    <2> QED
      BY <1>1, <1>2, <1>4, <2>1 DEF TypeOK
  <1>7. \A w \in V : Waiting(w)' = Waiting(w)
    <2> SUFFICES ASSUME NEW w \in V PROVE Waiting(w)' = Waiting(w)
      OBVIOUS
    <2>1. Passed(k, w) /\ Passed(k, w)'
      BY <1>1, <1>5 DEF Passed
    <2>2. CountedDown(v, w) /\ CountedDown(v, w)'
      BY <1>1, <1>2, <2>1 DEF CountedDown
    <2>3. \A j \in V : Passed(j, w)' <=> Passed(j, w)
      <3>1. \A j \in V : j # k => (Passed(j, w)' <=> Passed(j, w))
        BY <1>5 DEF Passed
      <3> QED
        BY <2>1, <3>1
    <2>4. \A j \in 0 .. frontierSize - 1 : j \in V
      <3>1. frontierSize \in 0 .. nv /\ nv \in Nat
        BY <1>2, SizeAssumption DEF TypeOK
      <3> QED
        BY <3>1 DEF V
    <2>5. \A u : u # v => (CountedDown(u, w)' <=> CountedDown(u, w))
      BY <1>1, <2>3, <2>4 DEF CountedDown
    <2> QED
      BY <1>3, <2>2, <2>5 DEF Waiting
  <1>8. Entered' = Entered /\ InFrontier' = InFrontier /\ InNewFrontier' = InNewFrontier
    <2>1. InFrontier' = InFrontier /\ InNewFrontier' = InNewFrontier
      BY <1>1 DEF InFrontier, InNewFrontier
    <2> QED
      BY <1>1, <1>2, <2>1 DEF Entered
  <1>9. CountInv'
    BY <1>1, <1>2, <1>7, <1>8 DEF CountInv, RoundInv
  <1>10. FrontierInv'
    <2>1. InNewFrontier' \intersect (InFrontier' \union visited') = {}
      BY <1>1, <1>2, <1>8 DEF RoundInv, FrontierInv
    <2>2. Distinct(frontier', frontierSize') /\ Distinct(newFrontier', newFrontierSize')
      BY <1>1, <1>2 DEF RoundInv, FrontierInv
    <2>3. \A w \in InFrontier' : Higher(w)' \subseteq visited'
      BY <1>1, <1>2, <1>3, <1>8 DEF RoundInv, FrontierInv
    <2>4. FrontierIndependent'
      BY <1>1, <1>2, <1>8 DEF RoundInv, FrontierInv, FrontierIndependent
    <2> QED
      BY <2>1, <2>2, <2>3, <2>4 DEF FrontierInv
  <1>11. ItemInv'
    <2>1. \A c, o : Banned(c, o)' = Banned(c, o)
      BY <1>1 DEF Banned
    <2>2. ASSUME NEW j \in V PROVE ItemOK(j)'
      <3>1. ItemOK(j)
        BY <1>2 DEF RoundInv, ItemInv
      <3>2. CASE j = k
        BY <1>0, <1>1, <1>2, <1>5, <3>2 DEF ItemOK
      <3>3. CASE j # k /\ item[j].pc = "end"
        BY <1>1, <1>5, <3>1, <3>3 DEF ItemOK
      <3>4. CASE j # k /\ item[j].pc # "end"
        <4>1. /\ frontier[j] \in InFrontier /\ frontier[j] # v /\ frontier[j] \in V
          BY <1>1, <1>2, <3>4, RunningItem
        <4>2. v \notin adj[frontier[j]] /\ adj[frontier[j]] \subseteq V
          BY <1>2, <4>1, GraphFacts DEF RoundInv, FrontierInv, FrontierIndependent, TypeOK
        <4>3. \A u \in adj[frontier[j]] : colors'[u] = colors[u]
          BY <1>4, <4>2
        <4>4. frontier[j] \in visited' <=> frontier[j] \in visited
          BY <1>1, <4>1
        <4> QED
          BY <1>1, <1>5, <2>1, <3>1, <3>4, <4>3, <4>4 DEF ItemOK
      <3> QED
        BY <3>2, <3>3, <3>4
    <2> QED
      BY <2>2 DEF ItemInv
  <1>12. ColorInv'
    <2>1. \A u \in V : colors'[u] > 0 => u \in visited'
      BY <1>1, <1>2, <1>4 DEF RoundInv, ColorInv
    <2>2. ProperColors'
      <3> SUFFICES ASSUME NEW u \in V, NEW w \in V, u \in adj[w], u # w, colors'[u] > 0
                   PROVE  colors'[u] # colors'[w]
        BY <1>1 DEF ProperColors
      <3>1. w \in adj[u] /\ adj[u] \subseteq V
        BY <1>2, GraphFacts DEF TypeOK
      <3>2. CASE u = v
        BY <1>4, <3>1, <3>2
      <3>3. CASE w = v
        BY <1>4, <3>3
      <3>4. CASE u # v /\ w # v
        BY <1>2, <1>4, <3>4 DEF RoundInv, ColorInv, ProperColors
      <3> QED
        BY <3>2, <3>3, <3>4
    <2> QED
      BY <2>1, <2>2 DEF ColorInv
  <1> QED
    BY <1>1, <1>6, <1>9, <1>10, <1>11, <1>12 DEF IInv, RoundInv

\* The row is read again for the next window: it counts nobody down.
LEMMA NextWindowStep ==
  ASSUME IInv, NEW k \in V, NextWindow(k)
  PROVE  IInv'
  <1> USE DEF NextWindow, input, rounds
  <1>0. PICK v \in V : v = frontier[k]
    <2>1. item[k].pc # "end" /\ phase = "rounds"
      OBVIOUS
    <2> QED
      BY <2>1, RunningItem
  <1>1. /\ phase = "rounds" /\ item[k].pc = "scan" /\ item[k].unread = {} /\ WindowIsFull(k)
        /\ UNCHANGED <<adj, algorithm, colors, dependency, newFrontier, newFrontierSize,
                       frontier, frontierSize, num_loops, phase, visited>>
    OBVIOUS
  <1>2. /\ TypeOK /\ RoundInv /\ k \in 0 .. frontierSize - 1 /\ v \notin visited
        /\ Entered \subseteq V /\ InFrontier \subseteq V
    BY <1>0, <1>1, RunningItem
  <1>3. PICK i \in ItemType : i = item[k]
    BY <1>2 DEF TypeOK
  <1>4. PICK o \in Nat : o = IF i.colorOffset + WIDTH <= MaxOffset THEN i.colorOffset + WIDTH ELSE i.colorOffset
    BY <1>3, SizeAssumption DEF ItemType
  \* the bound is beyond the first window
  <1>5. o > 0
    <2>1. /\ i.colorOffset \in Nat /\ WIDTH \in Nat /\ WIDTH > 0 /\ MaxOffset \in Nat
          /\ nv \in Nat /\ MaxOffset >= nv + WIDTH
      BY <1>3, SizeAssumption DEF ItemType
    <2> QED
      BY <1>4, <2>1
  <1>6. adj[v] \in SUBSET V /\ 0 .. WIDTH - 1 \in SUBSET Nat
    BY <1>2, GraphFacts, SizeAssumption DEF TypeOK
  <1>7. /\ item' \in [V -> ItemType]
        /\ item'[k] = [i EXCEPT !.colorOffset = o, !.unread = adj[v], !.banned = 0 .. WIDTH - 1]
        /\ \A j \in V : j # k => item'[j] = item[j]
    <2>1. [i EXCEPT !.colorOffset = o, !.unread = adj[v], !.banned = 0 .. WIDTH - 1] \in ItemType
      BY <1>4, <1>6 DEF ItemType
    <2>2. item'[k] = [i EXCEPT !.colorOffset = o, !.unread = adj[v], !.banned = 0 .. WIDTH - 1]
      BY <1>0, <1>2, <1>3, <1>4 DEF TypeOK
    <2>3. \A j \in V : j # k => item'[j] = item[j]
      BY <1>2 DEF TypeOK
    <2>4. item' = [j \in V |-> item'[j]]
      BY <1>2 DEF TypeOK
    <2>5. \A j \in V : item'[j] \in ItemType
      BY <1>2, <2>1, <2>2, <2>3 DEF TypeOK
    <2> QED
      BY <2>2, <2>3, <2>4, <2>5
  <1>8. /\ item'[k].pc = "scan" /\ item'[k].colorOffset = o /\ item'[k].unread = adj[v]
        /\ item'[k].banned = 0 .. WIDTH - 1
    BY <1>1, <1>3, <1>7 DEF ItemType
  <1>9. TypeOK'
    BY <1>1, <1>2, <1>7 DEF TypeOK
  <1>10. \A w \in V : Waiting(w)' = Waiting(w)
    <2> SUFFICES ASSUME NEW w \in V PROVE Waiting(w)' = Waiting(w)
      OBVIOUS
    <2>1. Passed(k, w)' <=> Passed(k, w)
      BY <1>1, <1>5, <1>8 DEF Passed
    <2> QED
      BY <1>1, <1>2, <1>7, <2>1, SameWaiting DEF TypeOK
  <1>11. Entered' = Entered /\ InFrontier' = InFrontier /\ InNewFrontier' = InNewFrontier
    BY <1>1 DEF Entered, InFrontier, InNewFrontier
  <1>12. CountInv'
    BY <1>1, <1>2, <1>10, <1>11 DEF CountInv, RoundInv
  <1>13. FrontierInv'
    <2>1. \A w \in V : Higher(w)' = Higher(w)
      BY <1>1, SameOrder
    <2> QED
      BY <1>1, <1>2, <1>11, <2>1 DEF FrontierInv, FrontierIndependent, RoundInv, Distinct
  <1>14. ItemInv'
    <2>1. \A c, d : Banned(c, d)' = Banned(c, d)
      BY <1>1 DEF Banned
    <2>2. ASSUME NEW j \in V PROVE ItemOK(j)'
      <3>1. ItemOK(j)
        BY <1>2 DEF RoundInv, ItemInv
      <3>2. CASE j # k
        BY <1>1, <1>7, <2>1, <3>1, <3>2 DEF ItemOK
      <3>3. CASE j = k
        BY <1>0, <1>1, <1>8, <3>1, <3>3 DEF ItemOK, WindowIsFull
      <3> QED
        BY <3>2, <3>3
    <2> QED
      BY <2>2 DEF ItemInv
  <1>15. ColorInv'
    BY <1>1, <1>2 DEF ColorInv, ProperColors, RoundInv
  <1> QED
    BY <1>1, <1>9, <1>12, <1>13, <1>14, <1>15 DEF IInv, RoundInv

LEMMA Stutter ==
  ASSUME IInv, UNCHANGED vars
  PROVE  IInv'
  <1> USE DEF vars
  <1>1. TypeOK' <=> TypeOK
    BY DEF TypeOK
  <1>2. InitialInv' <=> InitialInv
    BY DEF InitialInv, Distinct, InNewFrontier, Higher, Precedes, score
  <1>3. CountInv' <=> CountInv
    BY DEF CountInv, Entered, InFrontier, InNewFrontier, Waiting, CountedDown, Passed, Higher, Precedes, score
  <1>4. FrontierInv' <=> FrontierInv
    BY DEF FrontierInv, FrontierIndependent, Distinct, InFrontier, InNewFrontier, Higher, Precedes, score
  <1>5. ItemInv' <=> ItemInv
    BY DEF ItemInv, ItemOK, Banned
  <1>6. ColorInv' <=> ColorInv
    BY DEF ColorInv, ProperColors
  <1> QED
    BY <1>1, <1>2, <1>3, <1>4, <1>5, <1>6 DEF IInv, RoundInv

-----------------------------------------------------------------------------
\* The invariant that the other theorems rest on: a counter is the number of
\* higher neighbours that have not counted the vertex down, and an item bans the
\* colours of what it has read.
THEOREM VBDInvariance == Spec => []IInv
  <1>1. Init => IInv
    BY InitOK
  <1>2. IInv /\ [Next]_vars => IInv'
    <2> SUFFICES ASSUME IInv, [Next]_vars PROVE IInv'
      OBVIOUS
    <2>1. ASSUME NEW k \in V, ItemStep(k) PROVE IInv'
      BY <2>1, InitialDependencyStep, VisitStep, DecrementStep, ColorStep, NextWindowStep DEF ItemStep
    <2>2. CASE NextRound
      BY <2>2, NextRoundStep
    <2>3. CASE UNCHANGED vars
      BY <2>3, Stutter
    <2> QED
      BY <2>1, <2>2, <2>3 DEF Next, Terminated
  <1> QED
    BY <1>1, <1>2, PTL DEF Spec

\* The variables keep their types: no frontier outgrows its nv entries.
THEOREM VBDTypeCorrect == Spec => []TypeOK
  <1>1. IInv => TypeOK
    BY DEF IInv
  <1> QED
    BY <1>1, VBDInvariance, PTL

\* A vertex enters a frontier once, whichever decrement takes its counter to 0.
THEOREM EachEntersOnce == Spec => []EntersOnce
  <1>1. IInv => EntersOnce
    <2> SUFFICES ASSUME IInv PROVE EntersOnce
      OBVIOUS
    <2>1. /\ Distinct(frontier, frontierSize) /\ Distinct(newFrontier, newFrontierSize)
          /\ InNewFrontier \intersect (InFrontier \union visited) = {}
      <3>1. CASE phase = "init"
        <4>1. frontierSize = 0 /\ visited = {} /\ Distinct(newFrontier, newFrontierSize)
          BY <3>1 DEF IInv, InitialInv
        <4> QED
          BY <4>1 DEF InFrontier, Distinct
      <3>2. CASE phase # "init"
        BY <3>2 DEF IInv, RoundInv, FrontierInv
      <3> QED
        BY <3>1, <3>2
    <2>2. /\ frontier \in [V -> V] /\ newFrontier \in [V -> V]
          /\ frontierSize \in 0 .. nv /\ newFrontierSize \in 0 .. nv
      BY DEF IInv, TypeOK
    <2>3. frontierSize \in Nat /\ newFrontierSize \in Nat
      BY <2>2, SizeAssumption
    <2>4. Cardinality(InFrontier) = frontierSize /\ Cardinality(InNewFrontier) = newFrontierSize
      BY <2>1, <2>3, DistinctSize DEF InFrontier, InNewFrontier, Entries
    <2> QED
      BY <2>1, <2>4 DEF EntersOnce
  <1> QED
    BY <1>1, VBDInvariance, PTL

\* Two items of a round never colour neighbours.
THEOREM FrontiersAreIndependent == Spec => []FrontierIndependent
  <1>1. IInv => FrontierIndependent
    BY DEF IInv, InitialInv, RoundInv, FrontierInv, FrontierIndependent, InFrontier
  <1> QED
    BY <1>1, VBDInvariance, PTL

\* Neighbours that have a colour have different colours, whatever the graph, the
\* functor and the interleaving.
THEOREM NeighborsDiffer == Spec => []ProperColors
  <1>1. IInv => ProperColors
    <2> SUFFICES ASSUME IInv PROVE ProperColors
      OBVIOUS
    <2>1. CASE phase = "init"
      <3>1. adj \in Graphs /\ \A u \in V : colors[u] = 0
        BY <2>1 DEF IInv, InitialInv, TypeOK
      <3> QED
        BY <3>1 DEF ProperColors
    <2>2. CASE phase # "init"
      BY <2>2 DEF IInv, RoundInv, ColorInv
    <2> QED
      BY <2>1, <2>2
  <1> QED
    BY <1>1, VBDInvariance, PTL

\* In a set of vertices there is one that waits for no other of them.
LEMMA HighestOf ==
  ASSUME adj \in Graphs, NEW S \in SUBSET V, S # {}
  PROVE  \E v \in S : Higher(v) \intersect S = {}
  <1> DEFINE scores == {score(v) : v \in S}
  <1>1. \A v \in S : v \in V /\ v \in 0 .. nv - 1 /\ nv - 1 \in Nat
    BY SizeAssumption DEF V
  <1>2. \A v \in S : score(v) \in 0 .. nv
    <2> SUFFICES ASSUME NEW v \in S PROVE score(v) \in 0 .. nv
      OBVIOUS
    <2>1. adj[v] \in SUBSET V /\ score(v) \in Nat
      BY GraphFacts
    <2>2. Cardinality(adj[v]) <= nv
      BY <2>1, FiniteV, FS_Subset
    <2> QED
      BY <2>1, <2>2, SizeAssumption DEF score
  <1>3. PICK top \in scores : \A c \in scores : c <= top
    <2>1. scores \in SUBSET (0 .. nv) /\ scores # {} /\ nv \in Nat
      BY <1>2, SizeAssumption
    <2> HIDE DEF scores
    <2> QED
      BY <2>1, GreatestOf
  <1> DEFINE T == {v \in S : score(v) = top}
  <1>4. PICK v \in T : \A u \in T : u <= v
    <2>1. T \in SUBSET (0 .. nv - 1) /\ T # {} /\ nv - 1 \in Nat
      BY <1>1, <1>3
    <2> HIDE DEF T
    <2> QED
      BY <2>1, GreatestOf
  <1>5. ASSUME NEW u \in S, u \in Higher(v) PROVE FALSE
    <2>1. /\ score(u) \in Nat /\ score(v) \in Nat /\ u \in Nat /\ v \in Nat
          /\ score(u) <= score(v) /\ (score(u) = score(v) => u <= v)
      BY <1>2, <1>3, <1>4, FiniteV
    <2>2. Precedes(u, v)
      BY <1>5 DEF Higher
    <2> QED
      BY <2>1, <2>2 DEF Precedes
  <1> QED
    BY <1>4, <1>5

\* The frontier runs empty only when every vertex has had its turn: whoever is
\* left waits for another one that is left, and the highest of them cannot.
THEOREM EveryoneVisited == Spec => []AllVisited
  <1>1. IInv => AllVisited
    <2> SUFFICES ASSUME IInv, phase = "done", visited # V PROVE FALSE
      BY DEF AllVisited
    <2>1. /\ TypeOK /\ CountInv /\ ItemInv /\ newFrontierSize = 0
          /\ \A k \in V : item[k].pc = "end"
      BY DEF IInv, RoundInv
    <2>2. \A k \in 0 .. frontierSize - 1 : k \in V /\ frontier[k] \in visited
      <3>1. frontierSize \in 0 .. nv /\ nv \in Nat
        BY <2>1, SizeAssumption DEF TypeOK
      <3>2. \A k \in 0 .. frontierSize - 1 : k \in V /\ k < frontierSize
        BY <3>1 DEF V
      <3> QED
        BY <2>1, <3>2 DEF ItemInv, ItemOK
    <2>3. Entered = visited
      <3>1. InNewFrontier = {} /\ InFrontier \subseteq visited
        BY <2>1, <2>2 DEF InNewFrontier, InFrontier
      <3> QED
        BY <3>1 DEF Entered
    <2>4. PICK v \in V \ visited : Higher(v) \intersect (V \ visited) = {}
      <3>1. V \ visited # {} /\ V \ visited \in SUBSET V /\ adj \in Graphs
        BY <2>1 DEF TypeOK
      <3> QED
        BY <3>1, HighestOf
    <2>5. Higher(v) \subseteq visited
      BY <2>1, <2>4, GraphFacts DEF TypeOK
    <2>6. Waiting(v) = {}
      BY <2>5 DEF Waiting, CountedDown
    <2>7. dependency[v] = 0 /\ dependency[v] > 0
      BY <2>1, <2>3, <2>4, <2>6, FS_EmptySet DEF CountInv
    <2> QED
      BY <2>7
  <1> QED
    BY <1>1, VBDInvariance, PTL

-----------------------------------------------------------------------------
(***************************************************************************)
(* The result does not depend on the schedule: the colours are those of a  *)
(* sequential colouring, and a vertex is coloured in the round that the    *)
(* longest chain above it asks for.                                        *)
(***************************************************************************)

\* the colours that the higher neighbours of v have
ColorsAbove(v) == {colors[u] : u \in Higher(v)}

\* An item bans no more than the colours above its vertex, or their bits.
BansAbove(k) ==
  item[k].colorOffset = 0 =>
    \A b \in item[k].banned : IF algorithm = "VBD" THEN b = 0 \/ b \in ColorsAbove(frontier[k])
                              ELSE b + 1 \in ColorsAbove(frontier[k])

\* Who has had its turn had it after those above it, and no later than now.
VisitedInv == \A v \in visited : Higher(v) \subseteq visited /\ Depth[v] <= num_loops

BansInv == phase # "init" => \A k \in V : item[k].pc # "end" => BansAbove(k)

\* A vertex enters the next frontier because one of this frontier is above it.
EntryInv == phase # "init" => \A v \in InNewFrontier : Higher(v) \intersect InFrontier # {}

ScheduleInv ==
  /\ Deterministic /\ VisitedInv /\ EarliestRound /\ BansInv /\ EntryInv
  /\ phase = "init" => num_loops = 0

\* Sets of vertices that can always take one more vertex reach V.
LEMMA GrowsToAll ==
  ASSUME NEW Sets \in SUBSET (SUBSET V), {} \in Sets,
         \A S \in Sets : S # V => \E v \in V \ S : S \union {v} \in Sets
  PROVE  V \in Sets
  <1> DEFINE sizes == {Cardinality(S) : S \in Sets}
  <1>1. \A S \in Sets : S \in SUBSET V /\ IsFiniteSet(S) /\ Cardinality(S) \in 0 .. nv
    <2> SUFFICES ASSUME NEW S \in Sets
                 PROVE  S \in SUBSET V /\ IsFiniteSet(S) /\ Cardinality(S) \in 0 .. nv
      OBVIOUS
    <2>1. S \in SUBSET V /\ IsFiniteSet(S) /\ Cardinality(S) <= nv
      BY FiniteV, FS_Subset
    <2>2. Cardinality(S) \in Nat
      BY <2>1, FS_CardinalityType
    <2> QED
      BY <2>1, <2>2, SizeAssumption
  <1>2. PICK S \in Sets : \A T \in Sets : Cardinality(T) <= Cardinality(S)
    <2>1. sizes # {} /\ sizes \in SUBSET (0 .. nv) /\ nv \in Nat
      BY <1>1, SizeAssumption
    <2>2. \E b \in sizes : \A c \in sizes : c <= b
      <3> HIDE DEF sizes
      <3> QED
        BY <2>1, GreatestOf
    <2> QED
      BY <2>2
  <1>3. S = V
    <2> SUFFICES ASSUME S # V PROVE FALSE
      OBVIOUS
    <2>1. PICK v \in V \ S : S \union {v} \in Sets
      OBVIOUS
    <2>2. Cardinality(S \union {v}) = Cardinality(S) + 1
      BY <1>1, <2>1, FS_AddElement
    <2>3. Cardinality(S \union {v}) <= Cardinality(S) /\ Cardinality(S) \in Nat
      BY <1>1, <1>2, <2>1, SizeAssumption
    <2> QED
      BY <2>2, <2>3
  <1> QED
    BY <1>3

\* the values of f at the higher neighbours of v
Above(f, v) == {f[u] : u \in Higher(v)}

\* There is a function that gives v what G makes of its values at the higher
\* neighbours: a set of vertices that has one can take the next in the order.
LEMMA RecursionOverGraph ==
  \A R, G : adj \in Graphs /\ (\A S \in SUBSET R : G[S] \in R)
              => \E f \in [V -> R] : \A v \in V : f[v] = G[Above(f, v)]
  <1> TAKE R, G
  <1> HAVE adj \in Graphs /\ (\A S \in SUBSET R : G[S] \in R)
  <1> DEFINE Solves(f, S) == \A v \in S : f[v] = G[Above(f, v)]
             Solved(S) == /\ \A v \in S : Higher(v) \subseteq S
                          /\ \E f \in [V -> R] : Solves(f, S)
  <1>1. Solved({})
    <2>1. G[{}] \in R
      OBVIOUS
    <2>2. [v \in V |-> G[{}]] \in [V -> R]
      BY <2>1
    <2> QED
      BY <2>2
  <1>2. ASSUME NEW S \in SUBSET V, Solved(S), S # V
        PROVE  \E v \in V \ S : Solved(S \union {v})
    <2>1. PICK v \in V \ S : Higher(v) \intersect (V \ S) = {}
      <3>1. V \ S \in SUBSET V /\ V \ S # {}
        BY <1>2
      <3> QED
        BY <3>1, HighestOf
    <2>2. PICK f \in [V -> R] : Solves(f, S)
      BY <1>2
    <2>3. Higher(v) \subseteq S
      BY <2>1, GraphFacts
    <2> DEFINE a == G[Above(f, v)]
               g == [f EXCEPT ![v] = a]
    <2>4. a \in R
      <3>1. Above(f, v) \in SUBSET R
        BY <2>3, <1>2 DEF Above
      <3> QED
        BY <3>1
    <2>5. g \in [V -> R] /\ g[v] = a /\ \A u \in S : g[u] = f[u]
      BY <2>1, <1>2, <2>4
    <2>6. \A w \in S \union {v} : Higher(w) \subseteq S
      BY <1>2, <2>3
    <2>7. \A w \in S \union {v} : Above(g, w) = Above(f, w)
      <3> HIDE DEF g
      <3> QED
        BY <2>5, <2>6 DEF Above
    <2>8. Solves(g, S \union {v})
      <3> HIDE DEF g
      <3> QED
        BY <2>2, <2>5, <2>7
    <2> HIDE DEF g, Solves
    <2> QED
      BY <2>1, <2>5, <2>6, <2>8
  <1> DEFINE Sets == {S \in SUBSET V : Solved(S)}
  <1>3. Sets \in SUBSET (SUBSET V) /\ {} \in Sets
    BY <1>1
  <1>4. \A S \in Sets : S # V => \E v \in V \ S : S \union {v} \in Sets
    <2> HIDE DEF Solved
    <2> QED
      BY <1>2
  <1>5. V \in Sets
    <2> HIDE DEF Sets
    <2> QED
      BY <1>3, <1>4, GrowsToAll
  <1> QED
    BY <1>5

\* A function has a greatest value on a set of vertices.
LEMMA GreatestValue ==
  ASSUME NEW f \in [V -> Nat], NEW S \in SUBSET V, S # {}
  PROVE  \E w \in S : \A v \in S : f[v] <= f[w]
  <1> DEFINE Sets == {T \in SUBSET V : \E b \in Nat : \A v \in T : f[v] <= b}
  <1>1. Sets \in SUBSET (SUBSET V) /\ {} \in Sets
    OBVIOUS
  <1>2. \A T \in Sets : T # V => \E v \in V \ T : T \union {v} \in Sets
    <2> SUFFICES ASSUME NEW T \in Sets, T # V PROVE \E v \in V \ T : T \union {v} \in Sets
      OBVIOUS
    <2>1. PICK v \in V \ T : TRUE
      OBVIOUS
    <2>2. PICK b \in Nat : \A u \in T : f[u] <= b
      OBVIOUS
    <2>3. \A u \in T : f[u] <= b + f[v] /\ f[v] <= b + f[v] /\ b + f[v] \in Nat
      BY <2>2
    <2>4. f[v] \in Nat /\ b + f[v] \in Nat /\ f[v] <= b + f[v]
      BY <2>1, <2>2
    <2> QED
      BY <2>1, <2>3, <2>4
  <1>3. V \in Sets
    <2> HIDE DEF Sets
    <2> QED
      BY <1>1, <1>2, GrowsToAll
  <1>4. PICK b \in Nat : \A v \in V : f[v] <= b
    BY <1>3
  <1> DEFINE values == {f[v] : v \in S}
  <1>5. values \in SUBSET (0 .. b) /\ values # {}
    BY <1>4
  <1>6. \E top \in values : \A c \in values : c <= top
    <2> HIDE DEF values
    <2> QED
      BY <1>5, GreatestOf
  <1> QED
    BY <1>6

LEMMA LeastIs ==
  ASSUME NEW S \in SUBSET Nat, NEW c \in S, \A d \in S : c <= d
  PROVE  LeastIn(S) = c
  <1>1. LeastIn(S) \in S /\ \A d \in S : LeastIn(S) <= d
    BY DEF LeastIn
  <1>2. LeastIn(S) <= c /\ c <= LeastIn(S) /\ c \in Nat /\ LeastIn(S) \in Nat
    BY <1>1
  <1> QED
    BY <1>2

\* The defining equation of the sequential colouring.
LEMMA SequentialColors ==
  ASSUME adj \in Graphs
  PROVE  /\ SequentialColor \in [V -> Nat]
         /\ \A v \in V : SequentialColor[v] = LeastIn(Palette \ {SequentialColor[u] : u \in Higher(v)})
  <1>0. PICK G : G = [S \in SUBSET Nat |-> LeastIn(Palette \ S)]
    OBVIOUS
  <1>1. Palette \in SUBSET Nat
    <2>1. CASE algorithm = "VBD"
      <3>1. \A d : 1 .. d \subseteq Nat
        OBVIOUS
      <3> QED
        BY <2>1, <3>1 DEF Palette
    <2>2. CASE algorithm # "VBD"
      BY <2>2, SizeAssumption DEF Palette
    <2> QED
      BY <2>1, <2>2
  <1>2. \A S : LeastIn(Palette \ S) \in Nat
    <2> SUFFICES ASSUME NEW S PROVE LeastIn(Palette \ S) \in Nat
      OBVIOUS
    <2>1. CASE Palette \ S = {}
      BY <2>1 DEF LeastIn
    <2>2. CASE Palette \ S # {}
      <3>1. PICK b \in Palette \ S : \A c \in Palette \ S : b <= c
        BY <1>1, <2>2, LeastOf
      <3> QED
        BY <1>1, <3>1, LeastIs
    <2> QED
      BY <2>1, <2>2
  <1>3. \A S \in SUBSET Nat : G[S] = LeastIn(Palette \ S) /\ G[S] \in Nat
    BY <1>0, <1>2
  <1>4. PICK f \in [V -> Nat] : \A v \in V : f[v] = G[Above(f, v)]
    <2> DEFINE R == Nat
    <2>1. \A S \in SUBSET R : G[S] \in R
      BY <1>3
    <2>2. \E f \in [V -> R] : \A v \in V : f[v] = G[Above(f, v)]
      <3> HIDE DEF R
      <3> QED
        BY <2>1, RecursionOverGraph
    <2> QED
      BY <2>2
  <1>5. \A v \in V : Above(f, v) \in SUBSET Nat
    BY GraphFacts DEF Above
  <1>6. \A v \in V : f[v] = LeastIn(Palette \ {f[u] : u \in Higher(v)})
    BY <1>3, <1>4, <1>5 DEF Above
  <1>7. f = [v \in V |-> LeastIn(Palette \ {f[u] : u \in Higher(v)})]
    BY <1>6
  <1>8. SequentialColor = [v \in V |-> LeastIn(Palette \ {SequentialColor[u] : u \in Higher(v)})]
    BY <1>7 DEF SequentialColor
  <1> QED
    BY <1>2, <1>8
\* The order decides the colours and the rounds.
LEMMA SameSchedule ==
  ASSUME adj' = adj, algorithm' = algorithm
  PROVE  SequentialColor' = SequentialColor /\ Depth' = Depth
  <1>1. SequentialColor' = SequentialColor
    BY DEF SequentialColor, Palette, Higher, Precedes, score, maxColors
  <1>2. Depth' = Depth
    BY DEF Depth, Higher, Precedes, score
  <1> QED
    BY <1>1, <1>2

LEMMA GreatestIs ==
  ASSUME NEW S \in SUBSET Nat, NEW c \in S, \A d \in S : d <= c
  PROVE  GreatestIn(S) = c
  <1>1. GreatestIn(S) \in S /\ \A d \in S : d <= GreatestIn(S)
    BY DEF GreatestIn
  <1>2. GreatestIn(S) <= c /\ c <= GreatestIn(S) /\ c \in Nat /\ GreatestIn(S) \in Nat
    BY <1>1
  <1> QED
    BY <1>2

\* The depth of a vertex is one more than the greatest above it.
LEMMA Depths ==
  ASSUME adj \in Graphs
  PROVE  /\ Depth \in [V -> Nat]
         /\ \A v \in V : Higher(v) = {} => Depth[v] = 1
         /\ \A v \in V : \A u \in Higher(v) :
              (\A w \in Higher(v) : Depth[w] <= Depth[u]) => Depth[v] = Depth[u] + 1
  <1> DEFINE R == Nat
  <1>0. PICK G : G = [S \in SUBSET Nat |-> IF 1 + GreatestIn(S) \in Nat THEN 1 + GreatestIn(S) ELSE 0]
    OBVIOUS
  <1>1. \A S \in SUBSET R : G[S] \in R
    BY <1>0
  <1>2. \E f \in [V -> R] : \A v \in V : f[v] = G[Above(f, v)]
    <2> HIDE DEF R
    <2> QED
      BY <1>1, RecursionOverGraph
  <1>3. PICK f \in [V -> Nat] : \A v \in V : f[v] = G[Above(f, v)]
    BY <1>2
  <1>4. \A v \in V : Above(f, v) \in SUBSET Nat /\ GreatestIn(Above(f, v)) \in Nat
    <2> SUFFICES ASSUME NEW v \in V
                 PROVE  Above(f, v) \in SUBSET Nat /\ GreatestIn(Above(f, v)) \in Nat
      OBVIOUS
    <2>1. Higher(v) \in SUBSET V
      BY GraphFacts
    <2>2. Above(f, v) \in SUBSET Nat
      BY <2>1 DEF Above
    <2>3. CASE Higher(v) = {}
      BY <2>2, <2>3 DEF Above, GreatestIn
    <2>4. CASE Higher(v) # {}
      <3>1. PICK w \in Higher(v) : \A u \in Higher(v) : f[u] <= f[w]
        BY <2>1, <2>4, GreatestValue
      <3>2. f[w] \in Above(f, v) /\ \A d \in Above(f, v) : d <= f[w]
        BY <3>1 DEF Above
      <3> QED
        BY <2>2, <3>2, GreatestIs
    <2> QED
      BY <2>2, <2>3, <2>4
  <1>5. \A v \in V : f[v] = 1 + GreatestIn({f[u] : u \in Higher(v)})
    <2> SUFFICES ASSUME NEW v \in V PROVE f[v] = 1 + GreatestIn({f[u] : u \in Higher(v)})
      OBVIOUS
    <2>1. PICK top \in Nat : top = GreatestIn(Above(f, v))
      BY <1>4
    <2>2. PICK S \in SUBSET Nat : S = Above(f, v)
      BY <1>4
    <2>3. G[S] = IF 1 + GreatestIn(S) \in Nat THEN 1 + GreatestIn(S) ELSE 0
      BY <1>0
    <2>4. G[S] = 1 + top
      BY <2>1, <2>2, <2>3
    <2> QED
      BY <1>3, <2>1, <2>2, <2>4 DEF Above
  <1>6. f = [v \in V |-> 1 + GreatestIn({f[u] : u \in Higher(v)})]
    BY <1>5
  <1>7. Depth = [v \in V |-> 1 + GreatestIn({Depth[u] : u \in Higher(v)})]
    BY <1>6 DEF Depth
  <1> DEFINE Sets == {S \in SUBSET V : \A v \in S : Higher(v) \subseteq S /\ Depth[v] = f[v]}
  <1>8. \A S \in Sets : S # V => \E v \in V \ S : S \union {v} \in Sets
    <2> SUFFICES ASSUME NEW S \in Sets, S # V PROVE \E v \in V \ S : S \union {v} \in Sets
      OBVIOUS
    <2>1. PICK v \in V \ S : Higher(v) \intersect (V \ S) = {}
      <3>1. V \ S \in SUBSET V /\ V \ S # {}
        OBVIOUS
      <3> QED
        BY <3>1, HighestOf
    <2>2. Higher(v) \subseteq S
      BY <2>1, GraphFacts
    <2>3. Above(Depth, v) = Above(f, v)
      BY <2>2 DEF Above
    <2>4. Depth[v] = 1 + GreatestIn(Above(Depth, v)) /\ f[v] = 1 + GreatestIn(Above(f, v))
      BY <1>5, <1>7 DEF Above
    <2>5. Depth[v] = f[v]
      BY <2>3, <2>4
    <2> QED
      BY <2>1, <2>2, <2>5
  <1>9. V \in Sets
    <2>1. Sets \in SUBSET (SUBSET V) /\ {} \in Sets
      OBVIOUS
    <2> HIDE DEF Sets
    <2> QED
      BY <1>8, <2>1, GrowsToAll
  <1>10. Depth = f
    BY <1>6, <1>7, <1>9
  <1>11. \A v \in V : Higher(v) = {} => f[v] = 1
    BY <1>5, <1>4 DEF Above, GreatestIn
  <1>12. ASSUME NEW v \in V, NEW u \in Higher(v), \A w \in Higher(v) : f[w] <= f[u]
         PROVE  f[v] = f[u] + 1
    <2>1. f[u] \in Above(f, v) /\ \A d \in Above(f, v) : d <= f[u]
      BY <1>12 DEF Above
    <2>2. GreatestIn(Above(f, v)) = f[u]
      BY <1>4, <2>1, GreatestIs
    <2>3. f[u] \in Nat
      BY <1>4, <2>1
    <2> QED
      BY <1>5, <2>2, <2>3 DEF Above
  <1> QED
    BY <1>10, <1>11, <1>12

\* What a step leaves of the invariant that only counts down or reads.
LEMMA SameTurns ==
  ASSUME ScheduleInv, adj' = adj, algorithm' = algorithm, colors' = colors, visited' = visited,
         frontier' = frontier, frontierSize' = frontierSize, num_loops' = num_loops, phase' = phase,
         visited \subseteq V
  PROVE  /\ (Deterministic /\ VisitedInv /\ EarliestRound)' /\ InFrontier' = InFrontier
         /\ phase' = "init" => num_loops' = 0
         /\ \A k \in V : item'[k] = item[k] => (BansAbove(k)' <=> BansAbove(k))
         /\ \A v \in V : ColorsAbove(v)' = ColorsAbove(v)
  <1>1. SequentialColor' = SequentialColor /\ Depth' = Depth /\ \A v \in V : Higher(v)' = Higher(v)
    BY SameSchedule, SameOrder
  <1>2. InFrontier' = InFrontier
    BY DEF InFrontier
  <1>3. \A v \in V : ColorsAbove(v)' = ColorsAbove(v)
    BY <1>1 DEF ColorsAbove
  <1>4. \A k : ColorsAbove(frontier[k])' = ColorsAbove(frontier[k])
    BY DEF ColorsAbove, Higher, Precedes, score
  <1>5. \A k \in V : item'[k] = item[k] => (BansAbove(k)' <=> BansAbove(k))
    BY <1>4 DEF BansAbove
  <1>6. Deterministic' /\ EarliestRound'
    BY <1>1, <1>2 DEF ScheduleInv, Deterministic, EarliestRound
  <1>7. VisitedInv'
    BY <1>1 DEF ScheduleInv, VisitedInv
  <1> QED
    BY <1>2, <1>3, <1>5, <1>6, <1>7 DEF ScheduleInv

\* No neighbour of a vertex of the frontier has a colour but those above it.
LEMMA UncoloredBelow ==
  ASSUME IInv, VisitedInv, phase = "rounds", NEW k \in V, item[k].pc # "end",
         NEW u \in adj[frontier[k]], u \notin Higher(frontier[k])
  PROVE  colors[u] = 0
  <1>1. PICK v \in V : v = frontier[k] /\ v \notin visited
    BY RunningItem
  <1>2. adj \in Graphs /\ u \in V /\ RoundInv /\ colors \in [V -> Nat]
    BY <1>1, RunningItem, GraphFacts DEF TypeOK
  <1>3. u \notin visited
    <2>1. CASE u = v
      BY <1>1, <2>1
    <2>2. CASE u # v
      <3>1. v \in Higher(u)
        BY <1>1, <1>2, <2>2, TotalOrder
      <3> QED
        BY <1>1, <3>1 DEF VisitedInv
    <2> QED
      BY <2>1, <2>2
  <1>4. ~ (colors[u] > 0) /\ colors[u] \in Nat
    BY <1>2, <1>3 DEF RoundInv, ColorInv
  <1> QED
    BY <1>4

LEMMA VisitKeepsSchedule ==
  ASSUME IInv, ScheduleInv, NEW k \in V, Visit(k)
  PROVE  ScheduleInv'
  <1> USE DEF Visit, input, rounds
  <1>1. /\ phase = "rounds" /\ item[k].pc = "scan"
        /\ UNCHANGED <<adj, algorithm, colors, dependency, newFrontier, newFrontierSize,
                       frontier, frontierSize, num_loops, phase, visited>>
    OBVIOUS
  <1>2. PICK n \in item[k].unread :
          LET counts == item[k].colorOffset = 0 /\ dependency[n] >= 0
          IN  item' = [item EXCEPT
                ![k].unread = @ \ {n},
                ![k].banned = @ \union Banned(colors[n], item[k].colorOffset),
                ![k].pc = IF counts THEN "decrement" ELSE "scan",
                ![k].neigh = IF counts THEN n ELSE 0]
    OBVIOUS
  <1>3. TypeOK /\ RoundInv /\ k \in 0 .. frontierSize - 1 /\ item[k] \in ItemType /\ algorithm \in {"VBD", "VBDBIT"}
    BY <1>1, RunningItem, AlgorithmAssumption DEF TypeOK
  <1>4. PICK v \in V : v = frontier[k] /\ v \notin visited
    BY <1>1, RunningItem
  <1>5. n \in adj[v] /\ n \in V
    <2>1. item[k].unread \subseteq adj[v]
      BY <1>1, <1>3, <1>4 DEF RoundInv, ItemInv, ItemOK
    <2> QED
      BY <1>2, <1>3, <1>4, <2>1, GraphFacts DEF TypeOK
  <1>6. /\ item'[k].banned = item[k].banned \union Banned(colors[n], item[k].colorOffset)
        /\ item'[k].colorOffset = item[k].colorOffset
        /\ \A j \in V : j # k => item'[j] = item[j]
    BY <1>2, <1>3 DEF TypeOK, ItemType
  <1>7. /\ (Deterministic /\ VisitedInv /\ EarliestRound)' /\ InFrontier' = InFrontier
        /\ phase' = "init" => num_loops' = 0
        /\ \A j \in V : item'[j] = item[j] => (BansAbove(j)' <=> BansAbove(j))
        /\ ColorsAbove(v)' = ColorsAbove(v)
    BY <1>1, <1>3, SameTurns DEF TypeOK
  <1>8. ASSUME item[k].colorOffset = 0, NEW b \in Banned(colors[n], 0)
        PROVE  IF algorithm = "VBD" THEN b = 0 \/ b \in ColorsAbove(v) ELSE b + 1 \in ColorsAbove(v)
    <2>1. PICK c \in Nat : c = colors[n]
      BY <1>3, <1>5 DEF TypeOK
    <2>2. c # 0 => c \in ColorsAbove(v)
      BY <1>1, <1>4, <1>5, <2>1, UncoloredBelow DEF ColorsAbove, ScheduleInv
    <2>3. CASE algorithm = "VBD"
      BY <1>8, <2>1, <2>2, <2>3 DEF Banned
    <2>4. CASE algorithm # "VBD"
      <3>1. c > 0 /\ c < 0 + WIDTH + 1 /\ b = (c - 1) % WIDTH
        BY <1>8, <2>1, <2>4 DEF Banned
      <3>2. c - 1 \in 0 .. WIDTH - 1
        BY <3>1, SizeAssumption
      <3>3. b = c - 1
        BY <3>1, <3>2, Remainder
      <3> QED
        BY <2>2, <2>4, <3>1, <3>3
    <2> QED
      BY <2>3, <2>4
  <1>9. BansInv'
    <2> SUFFICES ASSUME NEW j \in V, item'[j].pc # "end" PROVE BansAbove(j)'
      BY DEF BansInv
    <2>1. CASE j # k
      BY <1>1, <1>6, <1>7, <2>1 DEF ScheduleInv, BansInv
    <2>2. CASE j = k
      <3>1. BansAbove(k)
        BY <1>1 DEF ScheduleInv, BansInv
      <3> QED
        BY <1>1, <1>4, <1>6, <1>7, <1>8, <2>2, <3>1 DEF BansAbove
    <2> QED
      BY <2>1, <2>2
  <1>10. EntryInv'
    <2>1. InNewFrontier' = InNewFrontier /\ InNewFrontier \subseteq V
      BY <1>1, RunningItem DEF InNewFrontier
    <2>2. \A w \in V : Higher(w)' = Higher(w)
      BY <1>1, SameOrder
    <2> QED
      BY <1>1, <1>7, <2>1, <2>2 DEF ScheduleInv, EntryInv
  <1> QED
    BY <1>7, <1>9, <1>10 DEF ScheduleInv

\* A vertex that enters was still waiting for the one that counts it down.
LEMMA DecrementKeepsSchedule ==
  ASSUME IInv, ScheduleInv, NEW k \in V, Decrement(k)
  PROVE  ScheduleInv'
  <1> USE DEF Decrement, input, rounds
  <1>0. PICK n \in V, v \in V : n = item[k].neigh /\ v = frontier[k]
    <2>1. item[k].pc # "end" /\ phase = "rounds" /\ TypeOK
      BY DEF IInv
    <2>2. item[k].neigh \in V /\ frontier[k] \in V
      BY <2>1 DEF TypeOK, ItemType
    <2> QED
      BY <2>2
  <1>1. /\ phase = "rounds" /\ item[k].pc = "decrement"
        /\ UNCHANGED <<adj, algorithm, colors, frontier, frontierSize, num_loops, phase, visited>>
        /\ item' = [item EXCEPT ![k].pc = "scan", ![k].neigh = 0]
        /\ IF dependency[n] - 1 = 0 THEN Enter(n) ELSE UNCHANGED <<newFrontier, newFrontierSize>>
    BY <1>0
  <1>2. /\ TypeOK /\ RoundInv /\ k \in 0 .. frontierSize - 1
        /\ v \in InFrontier /\ InNewFrontier \subseteq V /\ item[k] \in ItemType
    BY <1>0, <1>1, RunningItem DEF TypeOK
  <1>3. n \in adj[v] /\ v \in adj[n]
    <2>1. n \in adj[v]
      BY <1>0, <1>1, <1>2 DEF RoundInv, ItemInv, ItemOK
    <2> QED
      BY <1>2, <2>1, GraphFacts DEF TypeOK
  <1>4. /\ item'[k].banned = item[k].banned /\ item'[k].colorOffset = item[k].colorOffset
        /\ \A j \in V : j # k => item'[j] = item[j]
    BY <1>1, <1>2 DEF TypeOK, ItemType
  <1>5. /\ (Deterministic /\ VisitedInv /\ EarliestRound)' /\ InFrontier' = InFrontier
        /\ phase' = "init" => num_loops' = 0
        /\ \A j \in V : item'[j] = item[j] => (BansAbove(j)' <=> BansAbove(j))
        /\ ColorsAbove(v)' = ColorsAbove(v)
    BY <1>1, <1>2, SameTurns DEF TypeOK
  <1>6. BansInv'
    <2> SUFFICES ASSUME NEW j \in V, item'[j].pc # "end" PROVE BansAbove(j)'
      BY DEF BansInv
    <2>1. CASE j # k
      BY <1>1, <1>4, <1>5, <2>1 DEF ScheduleInv, BansInv
    <2>2. CASE j = k
      <3>1. BansAbove(k)
        BY <1>1 DEF ScheduleInv, BansInv
      <3> QED
        BY <1>0, <1>1, <1>4, <1>5, <2>2, <3>1 DEF BansAbove
    <2> QED
      BY <2>1, <2>2
  <1>7. n \notin Entered => v \in Higher(n)
    <2> SUFFICES ASSUME n \notin Entered PROVE v \in Higher(n)
      OBVIOUS
    <2>1. n # v
      BY <1>2 DEF Entered
    <2>2. n \notin Higher(v)
      BY <1>2 DEF RoundInv, FrontierInv, Entered
    <2> QED
      BY <1>2, <1>3, <2>1, <2>2, TotalOrder DEF TypeOK
  <1>8. \A w \in InNewFrontier' : w \in InNewFrontier \/ (w = n /\ v \in Higher(n))
    <2>1. CASE dependency[n] - 1 = 0
      <3>1. n \notin Entered
        BY <1>2, <2>1 DEF RoundInv, CountInv, TypeOK
      <3>2. newFrontierSize \in Nat /\ newFrontier' = [newFrontier EXCEPT ![newFrontierSize] = n]
            /\ newFrontierSize' = newFrontierSize + 1
        BY <1>1, <1>2, <2>1, SizeAssumption DEF Enter, TypeOK
      <3>3. \A i \in 0 .. newFrontierSize' - 1 : i = newFrontierSize \/ i \in 0 .. newFrontierSize - 1
        BY <3>2
      <3>4. \A i \in 0 .. newFrontierSize - 1 : i # newFrontierSize
        BY <3>2
      <3>5. \A i \in 0 .. newFrontierSize' - 1 : i \in V
        <4>1. newFrontierSize' \in 0 .. nv /\ nv \in Nat
          BY DecrementStep, SizeAssumption DEF IInv, TypeOK
        <4> QED
          BY <4>1 DEF V
      <3> QED
        BY <1>2, <1>7, <3>1, <3>2, <3>3, <3>4, <3>5 DEF InNewFrontier, TypeOK
    <2>2. CASE dependency[n] - 1 # 0
      BY <1>1, <2>2 DEF InNewFrontier
    <2> QED
      BY <2>1, <2>2
  <1>9. EntryInv'
    <2>1. \A w \in V : Higher(w)' = Higher(w)
      BY <1>1, SameOrder
    <2>2. \A w \in InNewFrontier' : w \in V /\ Higher(w) \intersect InFrontier # {}
      BY <1>0, <1>1, <1>2, <1>8 DEF ScheduleInv, EntryInv
    <2> QED
      BY <1>5, <2>1, <2>2 DEF EntryInv
  <1> QED
    BY <1>5, <1>6, <1>9 DEF ScheduleInv

\* A later window bans what it likes.
LEMMA NextWindowKeepsSchedule ==
  ASSUME IInv, ScheduleInv, NEW k \in V, NextWindow(k)
  PROVE  ScheduleInv'
  <1> USE DEF NextWindow, input, rounds
  <1>1. /\ phase = "rounds" /\ item[k].pc = "scan"
        /\ UNCHANGED <<adj, algorithm, colors, dependency, newFrontier, newFrontierSize,
                       frontier, frontierSize, num_loops, phase, visited>>
    OBVIOUS
  <1>2. TypeOK /\ InNewFrontier \subseteq V
    BY <1>1, RunningItem
  <1>3. PICK i \in ItemType : i = item[k]
    BY <1>2 DEF TypeOK
  <1>4. PICK o \in Nat : o = IF i.colorOffset + WIDTH <= MaxOffset THEN i.colorOffset + WIDTH ELSE i.colorOffset
    BY <1>3, SizeAssumption DEF ItemType
  <1>5. o > 0
    <2>1. /\ i.colorOffset \in Nat /\ WIDTH \in Nat /\ WIDTH > 0 /\ MaxOffset \in Nat
          /\ nv \in Nat /\ MaxOffset >= nv + WIDTH
      BY <1>3, SizeAssumption DEF ItemType
    <2> QED
      BY <1>4, <2>1
  <1>6. item'[k].colorOffset = o /\ \A j \in V : j # k => item'[j] = item[j]
    <2>1. /\ item'[k] = [i EXCEPT !.colorOffset = o, !.unread = adj[frontier[k]], !.banned = 0 .. WIDTH - 1]
          /\ \A j \in V : j # k => item'[j] = item[j]
      BY <1>2, <1>3, <1>4 DEF TypeOK
    <2> QED
      BY <1>3, <2>1 DEF ItemType
  <1>7. /\ (Deterministic /\ VisitedInv /\ EarliestRound)' /\ InFrontier' = InFrontier
        /\ phase' = "init" => num_loops' = 0
        /\ \A j \in V : item'[j] = item[j] => (BansAbove(j)' <=> BansAbove(j))
    BY <1>1, <1>2, SameTurns DEF TypeOK
  <1>8. BansInv'
    <2> SUFFICES ASSUME NEW j \in V, item'[j].pc # "end" PROVE BansAbove(j)'
      BY DEF BansInv
    <2>1. CASE j # k
      BY <1>1, <1>6, <1>7, <2>1 DEF ScheduleInv, BansInv
    <2>2. CASE j = k
      BY <1>5, <1>6, <2>2 DEF BansAbove
    <2> QED
      BY <2>1, <2>2
  <1>9. EntryInv'
    <2>1. InNewFrontier' = InNewFrontier /\ \A w \in V : Higher(w)' = Higher(w)
      BY <1>1, SameOrder DEF InNewFrontier
    <2> QED
      BY <1>1, <1>2, <1>7, <2>1 DEF ScheduleInv, EntryInv
  <1> QED
    BY <1>7, <1>8, <1>9 DEF ScheduleInv

\* The colours above a vertex are fewer than the vertices.
LEMMA FewColorsAbove ==
  ASSUME TypeOK, NEW v \in V, NEW n \in Nat, 1 .. n \subseteq ColorsAbove(v)
  PROVE  n < nv
  <1>1. Higher(v) \in SUBSET (V \ {v}) /\ IsFiniteSet(Higher(v)) /\ colors \in [V -> Nat]
    BY GraphFacts, Irreflexive DEF TypeOK
  <1>2. IsFiniteSet(V \ {v}) /\ Cardinality(V \ {v}) = nv - 1
    BY FiniteV, FS_RemoveElement
  <1>3. Cardinality(Higher(v)) <= nv - 1 /\ Cardinality(Higher(v)) \in Nat
    BY <1>1, <1>2, FS_Subset, FS_CardinalityType
  <1> DEFINE f == [u \in Higher(v) |-> colors[u]]
  <1>4. f \in Surjection(Higher(v), ColorsAbove(v))
    BY DEF Surjection, ColorsAbove
  <1>5. IsFiniteSet(ColorsAbove(v)) /\ Cardinality(ColorsAbove(v)) <= Cardinality(Higher(v))
    <2> HIDE DEF f
    <2> QED
      BY <1>1, <1>4, FS_Surjection
  <1>6. Cardinality(1 .. n) = n
    <2>1. Cardinality(1 .. n) = IF 1 > n THEN 0 ELSE n - 1 + 1
      BY FS_Interval
    <2> QED
      BY <2>1
  <1>7. Cardinality(1 .. n) <= Cardinality(ColorsAbove(v)) /\ Cardinality(ColorsAbove(v)) \in Nat
    BY <1>5, FS_Subset, FS_CardinalityType
  <1> QED
    BY <1>3, <1>5, <1>6, <1>7, SizeAssumption

\* What an item bans is the colours above its vertex and no others, so the first
\* colour it finds free is the one that the sequential colouring takes.
LEMMA ColorIsSequential ==
  ASSUME IInv, ScheduleInv, NEW k \in V, Color(k)
  PROVE  colors'[frontier[k]] = SequentialColor[frontier[k]]
  <1> USE DEF Color
  <1>0. PICK v \in V : v = frontier[k] /\ v \notin visited
    <2>1. item[k].pc # "end" /\ phase = "rounds"
      OBVIOUS
    <2> QED
      BY <2>1, RunningItem
  <1>1. /\ phase = "rounds" /\ item[k].pc = "scan" /\ item[k].unread = {} /\ ~ WindowIsFull(k)
        /\ \/ \E c \in Free(k) : (\A d \in Free(k) : c <= d) /\ colors' = [colors EXCEPT ![v] = c]
           \/ Free(k) = {} /\ colors' = colors
    BY <1>0
  <1>2. TypeOK /\ RoundInv /\ item[k] \in ItemType /\ algorithm \in {"VBD", "VBDBIT"} /\ v \in InFrontier
    BY <1>0, <1>1, RunningItem, AlgorithmAssumption DEF TypeOK
  <1>3. Higher(v) \subseteq adj[v] \ {v} /\ Higher(v) \subseteq visited /\ Higher(v) \subseteq V /\ adj \in Graphs
    BY <1>2, GraphFacts, Irreflexive DEF RoundInv, FrontierInv, TypeOK
  <1>4. SequentialColor[v] = LeastIn(Palette \ ColorsAbove(v))
    <2>1. {SequentialColor[u] : u \in Higher(v)} = ColorsAbove(v)
      BY <1>3 DEF ScheduleInv, Deterministic, ColorsAbove
    <2>2. SequentialColor[v] = LeastIn(Palette \ {SequentialColor[u] : u \in Higher(v)})
      BY <1>3, SequentialColors
    <2> QED
      BY <2>1, <2>2
  <1>5. BansAbove(k) /\ colors[v] = 0
    <2>1. ~ (colors[v] > 0) /\ colors[v] \in Nat
      BY <1>0, <1>2 DEF RoundInv, ColorInv, TypeOK
    <2> QED
      BY <1>1, <2>1 DEF ScheduleInv, BansInv
  <1>6. item[k].colorOffset = 0
    BY <1>1, <1>2 DEF RoundInv, ItemInv, ItemOK, WindowIsFull
  <1>7. \A c \in Free(k) : c \in Nat /\ c > 0 /\ c \notin ColorsAbove(v)
    BY <1>0, <1>1, <1>3, FreeColor DEF ColorsAbove
  <1>8. \A c \in Free(k) : colors' = [colors EXCEPT ![v] = c] => colors'[v] = c
    BY <1>2 DEF TypeOK
  <1>9. CASE algorithm = "VBD"
    <2>1. Palette \ ColorsAbove(v) = Free(k)
      <3>1. Palette = 1 .. maxColors - 1 /\ Free(k) = (1 .. maxColors - 1) \ item[k].banned
        BY <1>9 DEF Palette, Free
      <3>2. \A b \in item[k].banned : b = 0 \/ b \in ColorsAbove(v)
        BY <1>0, <1>5, <1>6, <1>9 DEF BansAbove
      <3>3. \A c \in 1 .. maxColors - 1 : c # 0
        OBVIOUS
      <3>4. \A c \in Palette : c \in item[k].banned => c \in ColorsAbove(v)
        BY <3>1, <3>2, <3>3
      <3> QED
        BY <1>7, <3>1, <3>4
    <2>2. CASE Free(k) = {}
      BY <1>0, <1>1, <1>4, <1>5, <2>1, <2>2 DEF LeastIn
    <2>3. CASE Free(k) # {}
      <3>1. PICK c \in Free(k) : (\A d \in Free(k) : c <= d) /\ colors' = [colors EXCEPT ![v] = c]
        BY <1>1, <2>3
      <3>2. LeastIn(Free(k)) = c
        BY <1>7, <3>1, LeastIs
      <3> QED
        BY <1>0, <1>4, <1>8, <2>1, <3>1, <3>2
    <2> QED
      BY <2>2, <2>3
  <1>10. CASE algorithm = "VBDBIT"
    <2>1. Free(k) = {b + 1 : b \in (0 .. WIDTH - 1) \ item[k].banned}
      <3>1. Free(k) = {0 + b + 1 : b \in (0 .. WIDTH - 1) \ item[k].banned}
        BY <1>6, <1>10 DEF Free
      <3>2. \A b \in 0 .. WIDTH - 1 : 0 + b + 1 = b + 1
        BY SizeAssumption
      <3> QED
        BY <3>1, <3>2
    <2>2. Free(k) # {}
      BY <1>1, <1>10, <2>1 DEF WindowIsFull
    <2>3. PICK c \in Free(k) : (\A d \in Free(k) : c <= d) /\ colors' = [colors EXCEPT ![v] = c]
      BY <1>1, <2>2
    <2>4. c \in Nat /\ c > 0 /\ c \notin ColorsAbove(v) /\ c <= WIDTH
      BY <1>7, <2>1, <2>3, SizeAssumption
    <2>5. \A b \in item[k].banned : b + 1 \in ColorsAbove(v)
      BY <1>0, <1>5, <1>6, <1>10 DEF BansAbove
    <2>6. 1 .. c - 1 \subseteq ColorsAbove(v)
      <3> SUFFICES ASSUME NEW d \in 1 .. c - 1 PROVE d \in ColorsAbove(v)
        OBVIOUS
      <3>1. d \in Nat /\ d < c /\ d - 1 \in 0 .. WIDTH - 1 /\ d - 1 + 1 = d
        BY <2>4, SizeAssumption
      <3>2. d \notin Free(k)
        BY <2>3, <2>4, <3>1
      <3>3. d - 1 \in item[k].banned
        BY <2>1, <3>1, <3>2
      <3> QED
        BY <2>5, <3>1, <3>3
    <2>7. c - 1 < nv
      <3>1. c - 1 \in Nat
        BY <2>4
      <3> QED
        BY <1>2, <2>6, <3>1, FewColorsAbove
    <2>8. Palette = 1 .. nv /\ nv \in Nat
      BY <1>10, SizeAssumption DEF Palette
    <2>9. c \in Palette \ ColorsAbove(v) /\ \A d \in Palette \ ColorsAbove(v) : c <= d
      <3>1. c \in 1 .. nv
        BY <2>4, <2>7, <2>8
      <3>2. \A d \in 1 .. nv : d \in 1 .. c - 1 \/ c <= d
        BY <2>4, <2>8
      <3> QED
        BY <2>4, <2>6, <2>8, <3>1, <3>2
    <2>10. LeastIn(Palette \ ColorsAbove(v)) = c
      <3>1. Palette \ ColorsAbove(v) \in SUBSET Nat
        BY <2>8
      <3> QED
        BY <2>9, <3>1, LeastIs
    <2> QED
      BY <1>0, <1>4, <1>8, <2>3, <2>10
  <1> QED
    BY <1>2, <1>9, <1>10

LEMMA ColorKeepsSchedule ==
  ASSUME IInv, ScheduleInv, NEW k \in V, Color(k)
  PROVE  ScheduleInv'
  <1> USE DEF Color, input, rounds
  <1>0. PICK v \in V : v = frontier[k]
    <2>1. item[k].pc # "end" /\ phase = "rounds"
      OBVIOUS
    <2> QED
      BY <2>1, RunningItem
  <1>1. /\ phase = "rounds" /\ item[k].pc = "scan"
        /\ UNCHANGED <<adj, algorithm, dependency, newFrontier, newFrontierSize,
                       frontier, frontierSize, num_loops, phase>>
        /\ item' = [item EXCEPT ![k] = Idle]
        /\ visited' = visited \union {v}
        /\ (\E c \in Free(k) : colors' = [colors EXCEPT ![v] = c]) \/ colors' = colors
    BY <1>0
  <1>2. /\ TypeOK /\ RoundInv /\ v \in InFrontier /\ v \notin visited /\ adj \in Graphs
        /\ \A j \in V : j # k /\ item[j].pc # "end" => frontier[j] # v
        /\ InFrontier \subseteq V /\ InNewFrontier \subseteq V
    BY <1>0, <1>1, RunningItem DEF TypeOK
  <1>3. \A u \in V : u # v => colors'[u] = colors[u]
    BY <1>1, <1>2 DEF TypeOK
  <1>4. SequentialColor' = SequentialColor /\ Depth' = Depth /\ \A w \in V : Higher(w)' = Higher(w)
    BY <1>1, SameSchedule, SameOrder
  <1>5. InFrontier' = InFrontier /\ InNewFrontier' = InNewFrontier
    BY <1>1 DEF InFrontier, InNewFrontier
  <1>6. Deterministic'
    <2>1. colors'[v] = SequentialColor[v]
      BY <1>0, ColorIsSequential
    <2> QED
      BY <1>1, <1>2, <1>3, <1>4, <2>1 DEF ScheduleInv, Deterministic, TypeOK
  <1>7. VisitedInv'
    <2>1. Higher(v) \subseteq visited
      BY <1>2 DEF RoundInv, FrontierInv
    <2>2. Depth[v] = num_loops /\ num_loops \in Nat
      BY <1>2 DEF ScheduleInv, EarliestRound, TypeOK
    <2>3. Depth[v] <= num_loops
      BY <2>2
    <2>4. \A w \in visited : w \in V
      BY <1>2 DEF TypeOK
    <2> QED
      BY <1>0, <1>1, <1>4, <2>1, <2>3, <2>4 DEF ScheduleInv, VisitedInv
  <1>8. EarliestRound'
    BY <1>1, <1>4, <1>5 DEF ScheduleInv, EarliestRound
  <1>9. item'[k].pc = "end" /\ \A j \in V : j # k => item'[j] = item[j]
    BY <1>1, <1>2 DEF TypeOK, Idle
  <1>10. BansInv'
    <2> SUFFICES ASSUME NEW j \in V, item'[j].pc # "end" PROVE BansAbove(j)'
      BY DEF BansInv
    <2>1. j # k /\ item'[j] = item[j] /\ item[j].pc # "end"
      BY <1>9
    <2>2. PICK w \in V : w = frontier[j] /\ w \in InFrontier /\ w # v
      BY <1>1, <1>2, <2>1, RunningItem
    <2>3. Higher(w) \subseteq V /\ v \notin Higher(w)
      BY <1>2, <2>2, GraphFacts DEF RoundInv, FrontierInv, FrontierIndependent
    <2>4. ColorsAbove(w)' = ColorsAbove(w)
      BY <1>3, <1>4, <2>2, <2>3 DEF ColorsAbove
    <2>5. ColorsAbove(frontier[j])' = ColorsAbove(frontier[j])
      <3>1. ColorsAbove(frontier[j])' = ColorsAbove(w)'
        BY <1>1, <2>2 DEF ColorsAbove, Higher, Precedes, score
      <3> QED
        BY <2>2, <2>4, <3>1
    <2>6. BansAbove(j)
      BY <1>1, <2>1 DEF ScheduleInv, BansInv
    <2> QED
      BY <1>1, <2>1, <2>5, <2>6 DEF BansAbove
  <1>11. EntryInv'
    BY <1>1, <1>2, <1>4, <1>5 DEF ScheduleInv, EntryInv
  <1> QED
    BY <1>1, <1>6, <1>7, <1>8, <1>10, <1>11 DEF ScheduleInv

\* The kernel that counts the dependencies gives no vertex its turn.
LEMMA InitialDependencyKeepsSchedule ==
  ASSUME IInv, ScheduleInv, NEW k \in V, InitialDependency(k)
  PROVE  ScheduleInv'
  <1>1. /\ phase = "init" /\ UNCHANGED <<adj, algorithm, colors, frontierSize, num_loops, phase, visited>>
    BY DEF InitialDependency, input, rounds
  <1>2. visited = {} /\ frontierSize = 0 /\ num_loops = 0
    BY <1>1 DEF IInv, InitialInv, ScheduleInv
  <1>3. InFrontier' = {}
    BY <1>1, <1>2 DEF InFrontier
  <1> QED
    BY <1>1, <1>2, <1>3 DEF ScheduleInv, Deterministic, VisitedInv, EarliestRound, BansInv, EntryInv

\* Round r + 1 colours the vertices that are below one of round r.
LEMMA NextRoundKeepsSchedule ==
  ASSUME IInv, ScheduleInv, NextRound
  PROVE  ScheduleInv'
  <1> USE DEF NextRound, input
  <1>1. /\ TypeOK /\ UNCHANGED <<adj, algorithm, colors, visited>> /\ \A k \in V : item[k].pc = "end"
        /\ adj \in Graphs /\ visited \subseteq V
    BY DEF IInv, TypeOK
  <1>2. SequentialColor' = SequentialColor /\ Depth' = Depth /\ \A w \in V : Higher(w)' = Higher(w)
    BY <1>1, SameSchedule, SameOrder
  <1>3. newFrontierSize \in Nat /\ num_loops \in Nat
    BY <1>1, SizeAssumption DEF TypeOK
  <1>4. Deterministic'
    BY <1>1, <1>2 DEF ScheduleInv, Deterministic
  <1>5. CASE newFrontierSize > 0
    <2>1. /\ phase' = "rounds" /\ num_loops' = num_loops + 1 /\ newFrontierSize' = 0
          /\ frontierSize' = newFrontierSize /\ frontier' = newFrontier
          /\ item' = [k \in V |-> IF k < newFrontierSize THEN Scanning(newFrontier[k]) ELSE Idle]
      BY <1>5 DEF SizeAfterSwap
    <2>2. InFrontier' = InNewFrontier /\ InNewFrontier' = {}
      BY <2>1 DEF InFrontier, InNewFrontier
    <2>3. VisitedInv'
      <3>1. \A v \in visited : Depth[v] \in Nat /\ Depth[v] <= num_loops
        BY <1>1, Depths DEF ScheduleInv, VisitedInv
      <3> QED
        BY <1>1, <1>2, <1>3, <2>1, <3>1 DEF ScheduleInv, VisitedInv
    <2>4. \A k \in V : item'[k].pc # "end" => item'[k].banned = {}
      BY <2>1 DEF Scanning, Idle
    <2>5. BansInv' /\ EntryInv'
      BY <2>2, <2>4 DEF BansInv, BansAbove, EntryInv
    <2>6. ASSUME NEW v \in InNewFrontier PROVE v \in V /\ Depth[v] = num_loops + 1
      <3>1. RoundInv'
        BY <2>1, NextRoundStep DEF IInv
      <3>2. v \in V /\ Higher(v) \subseteq visited
        <4>1. v \in V
          <5>1. \A i \in 0 .. newFrontierSize - 1 : i \in V
            BY <1>1, SizeAssumption DEF TypeOK, V
          <5> QED
            BY <1>1, <5>1 DEF InNewFrontier, TypeOK
        <4>2. Higher(v)' \subseteq visited'
          BY <2>2, <3>1 DEF RoundInv, FrontierInv
        <4> QED
          BY <1>1, <1>2, <4>1, <4>2
      <3>3. CASE phase = "init"
        <4>1. dependency[v] = 0 /\ dependency[v] = Cardinality(Higher(v)) /\ num_loops = 0
          BY <1>1, <3>2, <3>3 DEF IInv, InitialInv, ScheduleInv
        <4>2. Higher(v) = {}
          BY <1>1, <3>2, <4>1, GraphFacts, FS_EmptySet
        <4> QED
          BY <1>1, <3>2, <4>1, <4>2, Depths
      <3>4. CASE phase # "init"
        <4>1. PICK u \in Higher(v) : u \in InFrontier
          BY <3>4 DEF ScheduleInv, EntryInv
        <4>2. Depth[u] = num_loops
          BY <4>1 DEF ScheduleInv, EarliestRound
        <4>3. \A w \in Higher(v) : Depth[w] <= Depth[u]
          BY <3>2, <4>2 DEF ScheduleInv, VisitedInv
        <4> QED
          BY <1>1, <3>2, <4>2, <4>3, Depths
      <3> QED
        BY <3>2, <3>3, <3>4
    <2>7. EarliestRound'
      BY <1>2, <2>1, <2>2, <2>6 DEF EarliestRound
    <2> QED
      BY <1>4, <2>1, <2>3, <2>5, <2>7 DEF ScheduleInv
  <1>6. CASE ~ (newFrontierSize > 0)
    <2>1. /\ phase' = "done"
          /\ UNCHANGED <<num_loops, frontier, frontierSize, newFrontier, newFrontierSize, item>>
      BY <1>6
    <2>2. InFrontier' = InFrontier /\ InNewFrontier' = {}
      BY <1>3, <1>6, <2>1 DEF InFrontier, InNewFrontier
    <2>3. VisitedInv' /\ EarliestRound'
      BY <1>1, <1>2, <2>1, <2>2 DEF ScheduleInv, VisitedInv, EarliestRound
    <2> QED
      BY <1>1, <1>4, <2>1, <2>2, <2>3 DEF ScheduleInv, BansInv, EntryInv
  <1> QED
    BY <1>5, <1>6

\* The turns and the colours are those of the graph, whatever the schedule.
THEOREM ScheduleInvariance == Spec => []ScheduleInv
  <1>1. Init => ScheduleInv
    BY DEF Init, ScheduleInv, Deterministic, VisitedInv, EarliestRound, BansInv, EntryInv, InFrontier
  <1>2. IInv /\ ScheduleInv /\ [Next]_vars => ScheduleInv'
    <2> SUFFICES ASSUME IInv, ScheduleInv, [Next]_vars PROVE ScheduleInv'
      OBVIOUS
    <2>1. ASSUME NEW k \in V, ItemStep(k) PROVE ScheduleInv'
      BY <2>1, InitialDependencyKeepsSchedule, VisitKeepsSchedule, DecrementKeepsSchedule,
         ColorKeepsSchedule, NextWindowKeepsSchedule DEF ItemStep
    <2>2. CASE NextRound
      BY <2>2, NextRoundKeepsSchedule
    <2>3. CASE UNCHANGED vars
      <3>1. UNCHANGED <<adj, algorithm, colors, frontier, frontierSize, newFrontier, newFrontierSize,
                        num_loops, phase, item, visited>> /\ visited \subseteq V /\ InNewFrontier \subseteq V
        <4>1. \A i \in 0 .. newFrontierSize - 1 : i \in V
          BY SizeAssumption DEF IInv, TypeOK, V
        <4> QED
          BY <2>3, <4>1 DEF vars, IInv, TypeOK, InNewFrontier
      <3>2. /\ (Deterministic /\ VisitedInv /\ EarliestRound)' /\ InFrontier' = InFrontier
            /\ phase' = "init" => num_loops' = 0
            /\ \A k \in V : BansAbove(k)' <=> BansAbove(k)
        BY <3>1, SameTurns
      <3>3. InNewFrontier' = InNewFrontier /\ \A w \in V : Higher(w)' = Higher(w)
        BY <3>1, SameOrder DEF InNewFrontier
      <3> QED
        BY <3>1, <3>2, <3>3 DEF ScheduleInv, BansInv, EntryInv
    <2> QED
      BY <2>1, <2>2, <2>3 DEF Next, Terminated
  <1> QED
    BY <1>1, <1>2, VBDInvariance, PTL DEF Spec

\* The colours are those of the sequential first-fit colouring by falling degree,
\* whatever the graph, the functor and the interleaving of a round's items.
THEOREM ColoringIsDeterministic == Spec => []Deterministic
  <1>1. ScheduleInv => Deterministic
    BY DEF ScheduleInv
  <1> QED
    BY <1>1, ScheduleInvariance, PTL

\* A vertex is coloured in the round that the longest chain above it asks for.
THEOREM NobodyWaitsLonger == Spec => []EarliestRound
  <1>1. ScheduleInv => EarliestRound
    BY DEF ScheduleInv
  <1> QED
    BY <1>1, ScheduleInvariance, PTL

=============================================================================

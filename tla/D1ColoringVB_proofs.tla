------------------------ MODULE D1ColoringVB_proofs ------------------------
(***************************************************************************)
(* For every graph, every number of vertices and every interleaving of the *)
(* work items: the speculative colouring never returns two neighbours with *)
(* the same colour, never changes a colour that it was given, and leaves   *)
(* no vertex without a colour.                                             *)
(*                                                                         *)
(* The parameters are those for which the code keeps its work lists intact *)
(* (Sound): any conflict scheme but COLORING_PPS, and a vertex list of the *)
(* caller only with COLORING_ATOMIC.                                       *)
(***************************************************************************)
EXTENDS D1ColoringVB, TLAPS, FiniteSetTheorems, WellFoundedInduction

Entries(f, size) == {f[k] : k \in 0 .. size - 1}

\* no entry is there twice
Distinct(f, size) == \A i, j \in 0 .. size - 1 : f[i] = f[j] => i = j

\* Such a list has as many members as entries.
LEMMA DistinctSize ==
  ASSUME NEW f, NEW size \in Nat, Distinct(f, size)
  PROVE  IsFiniteSet(Entries(f, size)) /\ Cardinality(Entries(f, size)) = size
  <1> DEFINE S == 0 .. size - 1
             T == Entries(f, size)
             g == [k \in S |-> f[k]]
  <1>1. 0 \in Int /\ size - 1 \in Int
    OBVIOUS
  <1>2. IsFiniteSet(S) /\ Cardinality(S) = size
    BY <1>1, FS_Interval
  <1>3. g \in Surjection(S, T) /\ g \in Injection(S, T)
    <2>1. \A i, j \in S : f[i] = f[j] => i = j
      BY DEF Distinct
    <2> QED
      BY <2>1 DEF Surjection, Injection, IsInjective, Entries
  <1>4. IsFiniteSet(T) /\ Cardinality(T) = Cardinality(S)
    <2> HIDE DEF S, T, g
    <2> QED
      BY <1>2, <1>3, FS_Surjection
  <1> QED
    BY <1>2, <1>4

\* An append of a vertex that is not in the list: there is room for it, because
\* the array has an entry for every vertex.
LEMMA DistinctAppend ==
  ASSUME NEW top \in Nat, NEW f \in [0 .. top - 1 -> 0 .. top - 1], NEW size \in 0 .. top,
         Distinct(f, size), NEW v \in 0 .. top - 1, v \notin Entries(f, size)
  PROVE  /\ [f EXCEPT ![size] = v] \in [0 .. top - 1 -> 0 .. top - 1]
         /\ size + 1 \in 0 .. top
         /\ Entries([f EXCEPT ![size] = v], size + 1) = Entries(f, size) \union {v}
         /\ Distinct([f EXCEPT ![size] = v], size + 1)
  <1>1. size < top
    <2>1. IsFiniteSet(Entries(f, size)) /\ Cardinality(Entries(f, size)) = size
      BY DistinctSize
    <2>2. Cardinality(Entries(f, size) \union {v}) = size + 1
      BY <2>1, FS_AddElement
    <2>3. Entries(f, size) \union {v} \in SUBSET (0 .. top - 1)
      <3>1. \A k \in 0 .. size - 1 : k \in 0 .. top - 1
        OBVIOUS
      <3> QED
        BY <3>1 DEF Entries
    <2>4. IsFiniteSet(0 .. top - 1) /\ Cardinality(0 .. top - 1) = top
      <3>1. 0 \in Int /\ top - 1 \in Int
        OBVIOUS
      <3> QED
        BY <3>1, FS_Interval
    <2>5. Cardinality(Entries(f, size) \union {v}) <= top
      BY <2>3, <2>4, FS_Subset
    <2> QED
      BY <2>2, <2>5
  <1>2. PICK g : g = [f EXCEPT ![size] = v]
    OBVIOUS
  <1>3. g \in [0 .. top - 1 -> 0 .. top - 1]
    BY <1>2
  <1>4. g[size] = v /\ \A i \in 0 .. size - 1 : g[i] = f[i]
    BY <1>1, <1>2
  <1>5. PICK old : old = 0 .. size - 1
    OBVIOUS
  <1>6. 0 .. (size + 1) - 1 = old \union {size}
    <2>1. \A i : i \in 0 .. (size + 1) - 1 <=> i \in 0 .. size - 1 \/ i = size
      <3>1. size \in Nat
        OBVIOUS
      <3> QED
        BY <3>1
    <2> QED
      BY <1>5, <2>1
  <1>7. Entries(g, size + 1) = Entries(f, size) \union {v}
    <2>1. Entries(g, size + 1) = {g[k] : k \in old \union {size}}
      BY <1>6 DEF Entries
    <2>2. Entries(f, size) = {f[k] : k \in old} /\ \A k \in old : g[k] = f[k]
      BY <1>4, <1>5 DEF Entries
    <2> QED
      BY <1>4, <2>1, <2>2
  <1>8. Distinct(g, size + 1)
    <2>1. \A i, j \in old : f[i] = f[j] => i = j
      BY <1>5 DEF Distinct
    <2>2. \A i \in old : g[i] = f[i] /\ f[i] # v
      BY <1>4, <1>5 DEF Entries
    <2>3. \A i, j \in old \union {size} : g[i] = g[j] => i = j
      BY <1>4, <2>1, <2>2
    <2> QED
      BY <1>6, <2>3 DEF Distinct
  <1>9. size + 1 \in 0 .. top
    BY <1>1
  <1> QED
    BY <1>2, <1>3, <1>7, <1>8, <1>9

\* A set of numbers that is not empty has a least, and one up to n a greatest.
LEMMA LeastOf ==
  ASSUME NEW S \in SUBSET Nat, S # {}
  PROVE  \E b \in S : \A c \in S : b <= c
  <1> DEFINE R == OpToRel(<, Nat)
  <1>1. \E b \in S : \A c \in S : ~ (<<c, b>> \in R)
    <2>1. IsWellFoundedOn(R, Nat)
      BY NatLessThanWellFounded
    <2> HIDE DEF R
    <2> QED
      BY <2>1, WFMin
  <1>2. \A b, c \in Nat : <<c, b>> \in R <=> c < b
    BY DEF OpToRel
  <1> HIDE DEF R
  <1>3. PICK b \in S : \A c \in S : ~ (<<c, b>> \in R)
    BY <1>1
  <1>4. \A c \in S : b \in Nat /\ c \in Nat /\ ~ (c < b)
    BY <1>2, <1>3
  <1> QED
    BY <1>4

LEMMA GreatestOf ==
  ASSUME NEW top \in Nat, NEW S \in SUBSET (0 .. top), S # {}
  PROVE  \E b \in S : \A c \in S : c <= b
  <1> DEFINE Bounds == {m \in Nat : \A c \in S : c <= m}
  <1>1. Bounds \in SUBSET Nat /\ top \in Bounds
    OBVIOUS
  <1>2. \E b \in Bounds : \A c \in Bounds : b <= c
    <2> HIDE DEF Bounds
    <2> QED
      BY <1>1, LeastOf
  <1>3. PICK b \in Bounds : \A c \in Bounds : b <= c
    BY <1>2
  <1>4. b \in Nat /\ \A c \in S : c \in Nat /\ c <= b
    BY <1>3
  <1>5. b \in S
    <2>1. SUFFICES ASSUME b \notin S PROVE FALSE
      OBVIOUS
    <2>2. \A c \in S : c \in Nat /\ c < b
      BY <1>4, <2>1
    <2>3. b - 1 \in Bounds
      <3>1. PICK c \in S : TRUE
        OBVIOUS
      <3>2. b - 1 \in Nat
        BY <1>4, <2>2, <3>1
      <3> QED
        BY <1>4, <2>2, <3>2
    <2>4. b <= b - 1
      BY <1>3, <2>3
    <2> QED
      BY <1>4, <2>4
  <1> QED
    BY <1>4, <1>5

-----------------------------------------------------------------------------

Sound(o) == /\ o.conflict_scheme \in {"ATOMIC", "NOCONFLICT"}
            /\ o.use_vtx_list => o.conflict_scheme = "ATOMIC"

SoundOptions == \A o \in Options : Sound(o)

-----------------------------------------------------------------------------
\* The lists hold vertices only, and all of them without conflict lists.
ListInv == /\ vertexList \in [V -> V]
           /\ recolorList \in [V -> V]
           /\ opt.conflict_scheme = "NOCONFLICT" => vertexListLength = nv

\* A vertex that the running greedy kernel colours.
Fresh(v) == \E ii \in V : item[ii].pc \in {"scan", "colored"} /\ vertexList[ii] = v

Clash(u, v) == v \in adj[u] /\ u # v /\ colors[u] > 0 /\ colors[u] = colors[v]

\* Only vertices that are being coloured clash.
GreedyClash ==
  phase = "greedy" => \A u, v \in V : Clash(u, v) => Fresh(u) /\ Fresh(v)

\* Items colour list entries that had no colour from the caller.
GreedyList ==
  phase = "greedy" =>
    \A ii \in V : item[ii].pc \in {"scan", "colored"} =>
      ii < vertexListLength /\ given[vertexList[ii]] = 0

\* Item ii knows the colour of neighbour n: it has still to read it, it has
\* forbidden it, or the colour is outside the window (below it for good, where
\* the neighbour was filtered).
Knows(ii, n) ==
  /\ colors[n] \in Window(ii) => n \in item[ii].unread \/ colors[n] \in item[ii].forbidden
  /\ n \in item[ii].filtered => colors[n] < item[ii].offset + FORBIDDEN_SIZE

\* An item knows the colours of its neighbours that no item is colouring.
GreedyKnows ==
  phase = "greedy" =>
    \A ii, n \in V : /\ item[ii].pc = "scan"
                     /\ n \in Neighbors(vertexList[ii])
                     /\ ~Fresh(n)
                     => Knows(ii, n)

Sees(ii, v) == (item[ii].pc = "scan" /\ v \in item[ii].unread) \/ item[ii].pc = "clash"

\* The lower end of an edge that clashes has an item that has still to see it,
\* or has seen it or another one.
ConflictInv ==
  phase = "conflict" =>
    /\ \A ii \in V : item[ii].pc = "scan" => item[ii].unread \subseteq HigherNeighbors(Target(ii))
    /\ \A ii \in V : item[ii].pc = "clash" => given[Target(ii)] = 0
    /\ \A u, v \in V : Clash(u, v) => given[u] = 0
    /\ \A u, v \in V : Clash(u, v) /\ u < v => \E ii \in V : Target(ii) = u /\ Sees(ii, v)

\* The inductive invariant.
IInv == /\ TypeOK
        /\ ListInv
        /\ GreedyClash /\ GreedyList /\ GreedyKnows
        /\ ConflictInv
        /\ GivenColorsKept
        /\ ProperWhenChecked

-----------------------------------------------------------------------------
LEMMA GraphFacts ==
  ASSUME adj \in Graphs
  PROVE  /\ adj \in [V -> SUBSET V]
         /\ \A u, v \in V : u \in adj[v] => v \in adj[u]
  BY GraphAssumption

LEMMA ProperIsNoClash ==
  ASSUME adj \in Graphs
  PROVE  Proper(adj, colors) <=> \A u, v \in V : ~Clash(u, v)
  BY GraphFacts DEF Proper, Clash

\* What the items of a greedy kernel are when it is launched.
LEMMA Launch ==
  ASSUME NEW g \in Graphs, NEW o \in Options, NEW c \in [V -> Nat],
         NEW list \in [V -> V], NEW len \in Nat
  PROVE  /\ GreedyItems(g, o, c, list, len) \in [V -> ItemType]
         /\ \A ii \in V : LET it == GreedyItems(g, o, c, list, len)[ii]
                         IN  /\ it.pc \in {"scan", "end"}
                             /\ it.pc = "scan" =>
                                  /\ ii < len /\ c[list[ii]] = 0
                                  /\ it.unread = g[list[ii]] \ {list[ii]}
                                  /\ it.filtered = {}
  <1> DEFINE it == GreedyItems(g, o, c, list, len)
  <1>1. Idle \in ItemType /\ Idle.pc = "end"
    BY DEF Idle, ItemType
  <1>2. ASSUME NEW ii \in V
        PROVE  LET p == FirstPass(g, list[ii], FromZero(o))
               IN  /\ p \in ItemType /\ p.pc = "scan"
                   /\ p.unread = g[list[ii]] \ {list[ii]} /\ p.filtered = {}
    <2> DEFINE off == IF FromZero(o) THEN 0 ELSE 1
               forb == IF FromZero(o) THEN {0} ELSE {}
    <2>1. off \in Nat /\ forb \subseteq Nat
      OBVIOUS
    <2>2. g[list[ii]] \ {list[ii]} \subseteq V
      BY GraphAssumption
    <2>3. FirstPass(g, list[ii], FromZero(o))
            = [pc |-> "scan", offset |-> off, unread |-> g[list[ii]] \ {list[ii]},
               forbidden |-> forb, filtered |-> {}]
      BY DEF FirstPass
    <2> HIDE DEF off, forb
    <2> QED
      BY <2>1, <2>2, <2>3 DEF ItemType
  <1>3. \A ii \in V : it[ii] = IF ii < len /\ list[ii] \in V /\ c[list[ii]] = 0
                              THEN FirstPass(g, list[ii], FromZero(o)) ELSE Idle
    BY DEF GreedyItems
  <1>4. it = [ii \in V |-> it[ii]]
    BY DEF GreedyItems
  <1> QED
    BY <1>1, <1>2, <1>3, <1>4

\* What the items of a conflict kernel are when it is launched.
LEMMA LaunchConflict ==
  ASSUME TypeOK, ListInv
  PROVE  /\ ConflictItems \in [V -> ItemType]
         /\ \A ii \in V : /\ ii < vertexListLength => ConflictItems[ii].pc = "scan"
                          /\ ConflictItems[ii].pc # "clash"
                          /\ ConflictItems[ii].pc = "scan" =>
                               ConflictItems[ii].unread = HigherNeighbors(Target(ii))
  <1>1. \A ii \in V : Target(ii) \in V
    BY DEF Target, ListInv
  <1>2. \A ii \in V : HigherNeighbors(Target(ii)) \subseteq V
    BY <1>1, GraphFacts DEF HigherNeighbors, TypeOK
  <1>3. \A ii \in V : [Idle EXCEPT !.pc = "scan", !.unread = HigherNeighbors(Target(ii))]
                       \in ItemType
    BY <1>2 DEF Idle, ItemType
  <1>4. Idle \in ItemType
    BY DEF Idle, ItemType
  <1> QED
    BY <1>3, <1>4 DEF ConflictItems, Idle

-----------------------------------------------------------------------------
LEMMA InitEstablishes ==
  ASSUME SoundOptions
  PROVE  Init => IInv
  <1> SUFFICES ASSUME Init PROVE IInv
    OBVIOUS
  <1>1. /\ adj \in Graphs /\ opt \in Options /\ given \in [V -> Nat] /\ colors = given
        /\ Proper(adj, colors)
    BY ColorAssumption DEF Init
  <1>2. /\ opt.conflict_scheme \in {"ATOMIC", "NOCONFLICT"}
        /\ opt.use_vtx_list => opt.conflict_scheme = "ATOMIC"
    BY <1>1 DEF SoundOptions, Sound
  <1>3. vertexList \in [V -> V] /\ vertexListLength \in Nat
    BY SizeAssumption DEF Init, V
  <1>4. ListInv
    BY <1>2, <1>3, SizeAssumption DEF Init, ListInv, V
  <1>5. Idle \in ItemType
    BY DEF Idle, ItemType
  <1>6. item \in [V -> ItemType]
    BY <1>1, <1>3, <1>5, Launch DEF Init
  <1>7. TypeOK
    <2>1. vertexList \in [V -> Nat] /\ recolorList \in [V -> Nat]
      BY <1>3, <1>4 DEF ListInv, V
    <2> QED
      BY <1>1, <1>3, <1>6, <2>1, SizeAssumption DEF Init, TypeOK
  <1>8. ProperWhenChecked
    BY <1>1 DEF ProperWhenChecked
  <1>9. ASSUME phase = "greedy"
        PROVE  \A ii \in V : /\ item[ii].pc \in {"scan", "end"}
                             /\ item[ii].pc = "scan" =>
                                  /\ ii < vertexListLength /\ colors[vertexList[ii]] = 0
                                  /\ item[ii].unread = Neighbors(vertexList[ii])
                                  /\ item[ii].filtered = {}
    <2>1. item = GreedyItems(adj, opt, colors, vertexList, vertexListLength)
      BY <1>9 DEF Init
    <2>2. colors \in [V -> Nat]
      BY <1>1
    <2> QED
      BY <1>1, <1>3, <2>1, <2>2, Launch DEF Neighbors
  <1>10. GreedyClash
    BY <1>1, ProperIsNoClash DEF GreedyClash
  <1>11. GreedyList
    BY <1>1, <1>9 DEF GreedyList
  <1>12. GreedyKnows
    BY <1>9 DEF GreedyKnows, Knows
  <1>13. ConflictInv /\ GivenColorsKept
    BY <1>1 DEF Init, ConflictInv, GivenColorsKept
  <1> QED
    BY <1>4, <1>7, <1>8, <1>10, <1>11, <1>12, <1>13 DEF IInv

-----------------------------------------------------------------------------
(* The greedy kernel. *)

LEMMA GreedyReadPreserves ==
  ASSUME IInv, NEW ii \in V, GreedyRead(ii)
  PROVE  IInv'
  <1> USE DEF IInv
  <1>0. PICK n \in item[ii].unread :
          item' = [item EXCEPT
            ![ii].unread = @ \ {n},
            ![ii].forbidden = IF colors[n] \in Window(ii) THEN @ \union {colors[n]} ELSE @,
            ![ii].filtered = IF opt.edge_filtering /\ colors[n] > 0
                                /\ colors[n] < item[ii].offset + FORBIDDEN_SIZE
                             THEN @ \union {n} ELSE @]
    BY DEF GreedyRead
  <1>1. /\ phase = "greedy" /\ item[ii].pc = "scan" /\ n \in V
        /\ UNCHANGED <<adj, opt, given, colors, vertexList, vertexListLength, recolorList,
                       recolorListLength, numUncolored, iter, next, numConflicts, phase>>
    BY DEF GreedyRead, input, lists, host, TypeOK, ItemType
  <1> DEFINE old == item[ii]
             new == item'[ii]
  <1>2. /\ new.pc = old.pc /\ new.offset = old.offset /\ new.unread = old.unread \ {n}
        /\ new.forbidden = IF colors[n] \in Window(ii) THEN old.forbidden \union {colors[n]}
                           ELSE old.forbidden
        /\ new.filtered \subseteq old.filtered \union {n}
        /\ n \in new.filtered \ old.filtered => colors[n] < old.offset + FORBIDDEN_SIZE
        /\ \A jj \in V : jj # ii => item'[jj] = item[jj]
    BY <1>0 DEF TypeOK, ItemType
  <1>3. item' \in [V -> ItemType]
    <2> DEFINE forb == IF colors[n] \in Window(ii) THEN old.forbidden \union {colors[n]}
                       ELSE old.forbidden
               filt == IF opt.edge_filtering /\ colors[n] > 0
                          /\ colors[n] < item[ii].offset + FORBIDDEN_SIZE
                       THEN old.filtered \union {n} ELSE old.filtered
    <2>1. old \in ItemType /\ colors[n] \in Nat
      BY <1>1 DEF TypeOK
    <2>2. forb \in SUBSET Nat /\ filt \in SUBSET V /\ old.unread \ {n} \in SUBSET V
      BY <1>1, <2>1 DEF ItemType
    <2>3. item' = [item EXCEPT ![ii] = [old EXCEPT !.unread = @ \ {n}, !.forbidden = forb,
                                                   !.filtered = filt]]
      BY <1>0
    <2> HIDE DEF forb, filt
    <2>4. [old EXCEPT !.unread = @ \ {n}, !.forbidden = forb, !.filtered = filt] \in ItemType
      BY <2>1, <2>2 DEF ItemType
    <2> QED
      BY <2>3, <2>4 DEF TypeOK
  <1>4. TypeOK'
    BY <1>1, <1>3 DEF TypeOK
  <1>5. \A jj \in V : item'[jj].pc = item[jj].pc
    BY <1>2
  <1>6. \A v \in V : Fresh(v)' <=> Fresh(v)
    BY <1>1, <1>5 DEF Fresh
  <1>7. GreedyClash' /\ GreedyList'
    BY <1>1, <1>5, <1>6 DEF GreedyClash, GreedyList, Clash
  <1>8. GreedyKnows'
    <2> SUFFICES ASSUME NEW jj \in V, NEW m \in V, item[jj].pc = "scan",
                        m \in Neighbors(vertexList[jj]), ~Fresh(m)
                 PROVE  Knows(jj, m)'
      BY <1>1, <1>5, <1>6 DEF GreedyKnows, Neighbors
    <2>1. Knows(jj, m)
      BY <1>1 DEF GreedyKnows
    <2>2. CASE jj # ii
      BY <1>1, <1>2, <2>1, <2>2 DEF Knows, Window
    <2>3. CASE jj = ii
      BY <1>1, <1>2, <2>1, <2>3 DEF Knows, Window
    <2> QED
      BY <2>2, <2>3
  <1>9. ListInv' /\ ConflictInv' /\ GivenColorsKept'
    BY <1>1 DEF ListInv, ConflictInv, GivenColorsKept
  <1>10. ProperWhenChecked'
    BY <1>1, <1>5 DEF ProperWhenChecked, Proper
  <1> QED
    BY <1>4, <1>7, <1>8, <1>9, <1>10

LEMMA GreedyColorPreserves ==
  ASSUME IInv, NEW ii \in V, GreedyColor(ii)
  PROVE  IInv'
  <1> USE DEF IInv
  <1> DEFINE i == vertexList[ii]
  <1>0. PICK c \in Window(ii) \ item[ii].forbidden : colors' = [colors EXCEPT ![i] = c]
    BY DEF GreedyColor
  <1>1. /\ phase = "greedy" /\ item[ii].pc = "scan" /\ item[ii].unread = {} /\ i \in V
        /\ item' = [item EXCEPT ![ii].pc = "colored"]
        /\ UNCHANGED <<adj, opt, given, vertexList, vertexListLength, recolorList,
                       recolorListLength, numUncolored, iter, next, numConflicts, phase>>
    BY DEF GreedyColor, input, lists, host, ListInv
  <1>2. c \in Nat
    BY SizeAssumption DEF Window, TypeOK, ItemType
  <1>3. /\ item' \in [V -> ItemType]
        /\ item'[ii].pc = "colored"
        /\ \A jj \in V : jj # ii => item'[jj] = item[jj]
    <2>1. item[ii] \in ItemType
      BY DEF TypeOK
    <2>2. [item[ii] EXCEPT !.pc = "colored"] \in ItemType
      BY <2>1 DEF ItemType
    <2>3. item' = [item EXCEPT ![ii] = [item[ii] EXCEPT !.pc = "colored"]]
      BY <1>1
    <2>4. [item[ii] EXCEPT !.pc = "colored"].pc = "colored"
      BY <2>1 DEF ItemType
    <2> QED
      BY <2>2, <2>3, <2>4 DEF TypeOK
  <1>4. TypeOK'
    BY <1>0, <1>1, <1>2, <1>3 DEF TypeOK
  <1>5. \A v \in V : Fresh(v)' <=> Fresh(v)
    BY <1>1, <1>3 DEF Fresh
  <1>6. Fresh(i)
    BY <1>1 DEF Fresh
  <1>7. colors'[i] = c /\ \A v \in V : v # i => colors'[v] = colors[v]
    BY <1>0, <1>1 DEF TypeOK
  <1>8. ASSUME NEW n \in V, n \in Neighbors(i), ~Fresh(n)
        PROVE  colors[n] # c
    <2>1. Knows(ii, n)
      BY <1>1, <1>8 DEF GreedyKnows
    <2> QED
      BY <1>0, <1>1, <2>1 DEF Knows
  <1>9. GreedyClash'
    <2> SUFFICES ASSUME NEW u \in V, NEW v \in V, Clash(u, v)' PROVE Fresh(u) /\ Fresh(v)
      BY <1>5 DEF GreedyClash
    <2>1. CASE u = i
      BY <1>1, <1>6, <1>7, <1>8, <2>1 DEF Clash, Neighbors
    <2>2. CASE v = i
      <3>1. u \in Neighbors(i)
        BY <1>1, <2>2, GraphFacts DEF Clash, Neighbors, TypeOK
      <3> QED
        BY <1>6, <1>7, <1>8, <2>2, <3>1 DEF Clash
    <2>3. CASE u # i /\ v # i
      BY <1>1, <1>7, <2>3 DEF Clash, GreedyClash
    <2> QED
      BY <2>1, <2>2, <2>3
  <1>10. GreedyList'
    BY <1>1, <1>3 DEF GreedyList
  <1>11. GreedyKnows'
    <2> SUFFICES ASSUME NEW jj \in V, NEW m \in V, item'[jj].pc = "scan",
                        m \in Neighbors(vertexList[jj]), ~Fresh(m)
                 PROVE  Knows(jj, m)'
      BY <1>1, <1>5 DEF GreedyKnows, Neighbors
    <2>1. jj # ii /\ m # i
      BY <1>3, <1>6
    <2>2. Knows(jj, m)
      BY <1>1, <1>3, <2>1 DEF GreedyKnows
    <2> QED
      BY <1>1, <1>3, <1>7, <2>1, <2>2 DEF Knows, Window
  <1>12. GivenColorsKept'
    <2>1. given[i] = 0
      BY <1>1 DEF GreedyList
    <2> QED
      BY <1>1, <1>7, <2>1 DEF GivenColorsKept
  <1>13. ListInv' /\ ConflictInv' /\ ProperWhenChecked'
    BY <1>1, <1>3 DEF ListInv, ConflictInv, ProperWhenChecked
  <1> QED
    BY <1>4, <1>9, <1>10, <1>11, <1>12, <1>13

LEMMA GreedyNextPassPreserves ==
  ASSUME IInv, NEW ii \in V, GreedyNextPass(ii)
  PROVE  IInv'
  <1> USE DEF IInv
  <1> DEFINE i == vertexList[ii]
             old == item[ii]
  <1>1. /\ phase = "greedy" /\ old.pc = "scan" /\ i \in V
        /\ item' = [item EXCEPT ![ii].offset = @ + FORBIDDEN_SIZE,
                                ![ii].unread = Neighbors(i) \ item[ii].filtered,
                                ![ii].forbidden = {}]
        /\ UNCHANGED <<adj, opt, given, colors, vertexList, vertexListLength, recolorList,
                       recolorListLength, numUncolored, iter, next, numConflicts, phase>>
    BY DEF GreedyNextPass, input, lists, host, ListInv
  <1>2. Neighbors(i) \subseteq V /\ old \in ItemType
    BY <1>1, GraphFacts DEF Neighbors, TypeOK
  <1>3. item' \in [V -> ItemType]
    <2>1. item' = [item EXCEPT ![ii] = [old EXCEPT !.offset = @ + FORBIDDEN_SIZE,
                                          !.unread = Neighbors(i) \ old.filtered,
                                          !.forbidden = {}]]
      BY <1>1
    <2>2. old.offset + FORBIDDEN_SIZE \in Nat /\ Neighbors(i) \ old.filtered \in SUBSET V
      BY <1>2, SizeAssumption DEF ItemType
    <2>3. [old EXCEPT !.offset = @ + FORBIDDEN_SIZE, !.unread = Neighbors(i) \ old.filtered,
                      !.forbidden = {}] \in ItemType
      BY <1>2, <2>2 DEF ItemType
    <2> QED
      BY <2>1, <2>3 DEF TypeOK
  <1>4. /\ item'[ii].pc = "scan" /\ item'[ii].offset = old.offset + FORBIDDEN_SIZE
        /\ item'[ii].unread = Neighbors(i) \ old.filtered
        /\ item'[ii].filtered = old.filtered
        /\ \A jj \in V : jj # ii => item'[jj] = item[jj]
    BY <1>1 DEF TypeOK, ItemType
  <1>5. TypeOK'
    BY <1>1, <1>3 DEF TypeOK
  <1>6. \A jj \in V : item'[jj].pc = item[jj].pc
    BY <1>1, <1>4
  <1>7. \A v \in V : Fresh(v)' <=> Fresh(v)
    BY <1>1, <1>6 DEF Fresh
  <1>8. GreedyClash' /\ GreedyList'
    BY <1>1, <1>6, <1>7 DEF GreedyClash, GreedyList, Clash
  <1>9. GreedyKnows'
    <2> SUFFICES ASSUME NEW jj \in V, NEW m \in V, item[jj].pc = "scan",
                        m \in Neighbors(vertexList[jj]), ~Fresh(m)
                 PROVE  Knows(jj, m)'
      BY <1>1, <1>6, <1>7 DEF GreedyKnows, Neighbors
    <2>1. Knows(jj, m)
      BY <1>1 DEF GreedyKnows
    <2>2. CASE jj # ii
      BY <1>1, <1>4, <2>1, <2>2 DEF Knows, Window
    <2>3. CASE jj = ii
      <3>1. colors[m] \in Nat /\ old.offset \in Nat
        BY <1>2 DEF TypeOK, ItemType
      <3>2. m \in old.filtered => colors[m] < old.offset + FORBIDDEN_SIZE
        BY <2>1, <2>3 DEF Knows
      <3>3. m \notin old.filtered => m \in item'[ii].unread
        BY <1>4, <2>3
      <3>4. m \in old.filtered =>
              /\ colors[m] < item'[ii].offset + FORBIDDEN_SIZE
              /\ ~(colors[m] >= item'[ii].offset)
        BY <1>4, <3>1, <3>2, SizeAssumption
      <3>5. colors[m] \in Window(ii)' => colors[m] >= item'[ii].offset
        BY <1>4, <3>1, SizeAssumption DEF Window
      <3>6. /\ colors[m] \in Window(ii)' => m \in item'[ii].unread
            /\ m \in item'[ii].filtered => colors[m] < item'[ii].offset + FORBIDDEN_SIZE
        BY <1>4, <3>3, <3>4, <3>5
      <3> QED
        BY <1>1, <2>3, <3>6 DEF Knows
    <2> QED
      BY <2>2, <2>3
  <1>10. ListInv' /\ ConflictInv' /\ GivenColorsKept'
    BY <1>1 DEF ListInv, ConflictInv, GivenColorsKept
  <1>11. ProperWhenChecked'
    BY <1>1, <1>6 DEF ProperWhenChecked, Proper
  <1> QED
    BY <1>5, <1>8, <1>9, <1>10, <1>11

-----------------------------------------------------------------------------
(* The conflict kernel. *)

LEMMA GreedyFencePreserves ==
  ASSUME SoundOptions, IInv, GreedyFence
  PROVE  IInv'
  <1> USE DEF IInv
  <1>1. /\ phase = "greedy" /\ phase' = "conflict" /\ numConflicts' = 0 /\ item' = ConflictItems
        /\ UNCHANGED <<adj, opt, given, colors, vertexList, vertexListLength, recolorList,
                       recolorListLength, numUncolored, iter, next>>
    BY DEF GreedyFence, input, lists, host
  <1>2. opt.conflict_scheme \in {"ATOMIC", "NOCONFLICT"}
    BY DEF SoundOptions, Sound, TypeOK
  <1>3. TypeOK'
    BY <1>1, LaunchConflict DEF TypeOK
  <1>4. \A ii \in V : Target(ii)' = Target(ii) /\ HigherNeighbors(Target(ii))' = HigherNeighbors(Target(ii))
    BY <1>1 DEF Target, HigherNeighbors
  <1>5. ASSUME NEW u \in V, NEW v \in V, Clash(u, v)
        PROVE  /\ given[u] = 0
               /\ \E ii \in V : ii < vertexListLength /\ Target(ii) = u
    <2>1. PICK ii \in V : item[ii].pc \in {"scan", "colored"} /\ vertexList[ii] = u
      BY <1>1, <1>5 DEF GreedyClash, Fresh
    <2>2. ii < vertexListLength /\ given[u] = 0
      BY <1>1, <2>1 DEF GreedyList
    <2>3. CASE opt.conflict_scheme = "ATOMIC"
      BY <2>1, <2>2, <2>3 DEF Target
    <2>4. CASE opt.conflict_scheme = "NOCONFLICT"
      <3>1. u < vertexListLength
        BY <2>4, SizeAssumption DEF ListInv, V
      <3> QED
        BY <2>2, <2>4, <3>1 DEF Target
    <2> QED
      BY <1>2, <2>3, <2>4
  <1>6. ConflictInv'
    <2>1. \A u, v \in V : Clash(u, v)' <=> Clash(u, v)
      BY <1>1 DEF Clash
    <2>2. \A ii \in V : item'[ii].pc = "scan" => item'[ii].unread = HigherNeighbors(Target(ii))
      BY <1>1, LaunchConflict
    <2>3. ASSUME NEW u \in V, NEW v \in V, Clash(u, v), u < v
          PROVE  \E ii \in V : Target(ii) = u /\ item'[ii].pc = "scan" /\ v \in item'[ii].unread
      <3>1. PICK ii \in V : ii < vertexListLength /\ Target(ii) = u
        BY <1>5, <2>3
      <3>2. item'[ii].pc = "scan"
        <4>1. TypeOK /\ ListInv
          OBVIOUS
        <4>2. ConflictItems[ii].pc = "scan"
          BY ONLY <3>1, <4>1, LaunchConflict
        <4> QED
          BY <1>1, <4>2
      <3>3. v \in HigherNeighbors(u)
        BY <2>3 DEF Clash, HigherNeighbors
      <3> QED
        BY <2>2, <3>1, <3>2, <3>3
    <2>4. \A ii \in V : item'[ii].pc = "scan" => item'[ii].unread \subseteq HigherNeighbors(Target(ii))'
      BY <1>4, <2>2
    <2>5. \A ii \in V : item'[ii].pc # "clash"
      BY <1>1, LaunchConflict
    <2>6. \A u, v \in V : Clash(u, v)' => given'[u] = 0
      BY <1>1, <1>5, <2>1
    <2>7. \A u, v \in V : Clash(u, v)' /\ u < v => \E ii \in V : Target(ii)' = u /\ Sees(ii, v)'
      BY <1>4, <2>1, <2>3 DEF Sees
    <2> QED
      BY <2>4, <2>5, <2>6, <2>7 DEF ConflictInv
  <1>7. ListInv' /\ GivenColorsKept'
    BY <1>1 DEF ListInv, GivenColorsKept
  <1>8. GreedyClash' /\ GreedyList' /\ GreedyKnows' /\ ProperWhenChecked'
    BY <1>1 DEF GreedyClash, GreedyList, GreedyKnows, ProperWhenChecked
  <1> QED
    BY <1>3, <1>6, <1>7, <1>8

LEMMA ConflictPassPreserves ==
  ASSUME IInv, NEW ii \in V, ConflictPass(ii)
  PROVE  IInv'
  <1> USE DEF IInv
  <1> DEFINE old == item[ii]
  <1>0. PICK n \in old.unread : /\ colors[n] # colors[Target(ii)]
                                /\ item' = [item EXCEPT ![ii].unread = @ \ {n}]
    BY DEF ConflictPass
  <1>1. /\ phase = "conflict" /\ old.pc = "scan"
        /\ UNCHANGED <<adj, opt, given, colors, vertexList, vertexListLength, recolorList,
                       recolorListLength, numUncolored, iter, next, numConflicts, phase>>
    BY DEF ConflictPass, input, lists, host
  <1>2. /\ item' \in [V -> ItemType]
        /\ item'[ii].pc = old.pc /\ item'[ii].unread = old.unread \ {n}
        /\ \A jj \in V : jj # ii => item'[jj] = item[jj]
    <2>1. old \in ItemType
      BY DEF TypeOK
    <2>2. [old EXCEPT !.unread = @ \ {n}] \in ItemType
      BY <2>1 DEF ItemType
    <2>3. item' = [item EXCEPT ![ii] = [old EXCEPT !.unread = @ \ {n}]]
      BY <1>0
    <2>4. /\ [old EXCEPT !.unread = @ \ {n}].pc = old.pc
          /\ [old EXCEPT !.unread = @ \ {n}].unread = old.unread \ {n}
      BY <2>1 DEF ItemType
    <2> QED
      BY <2>2, <2>3, <2>4 DEF TypeOK
  <1>3. TypeOK'
    BY <1>1, <1>2 DEF TypeOK
  <1>4. \A jj \in V : Target(jj)' = Target(jj) /\ HigherNeighbors(Target(jj))' = HigherNeighbors(Target(jj))
    BY <1>1 DEF Target, HigherNeighbors
  <1>5. \A u, v \in V : Clash(u, v)' <=> Clash(u, v)
    BY <1>1 DEF Clash
  <1>6. ConflictInv'
    <2>1. \A jj \in V : /\ item'[jj].pc = "scan" => item'[jj].unread \subseteq HigherNeighbors(Target(jj))'
                        /\ item'[jj].pc = "clash" => given'[Target(jj)'] = 0
      BY <1>1, <1>2, <1>4 DEF ConflictInv
    <2>2. \A u, v \in V : Clash(u, v)' => given'[u] = 0
      BY <1>1, <1>5 DEF ConflictInv
    <2>3. ASSUME NEW u \in V, NEW v \in V, Clash(u, v), u < v
          PROVE  \E jj \in V : Target(jj) = u /\ Sees(jj, v)'
      <3>1. PICK jj \in V : Target(jj) = u /\ Sees(jj, v)
        BY <1>1, <2>3 DEF ConflictInv
      <3>2. jj = ii => v # n
        BY <1>0, <2>3, <3>1 DEF Clash
      <3>3. Sees(jj, v)'
        BY <1>2, <3>1, <3>2 DEF Sees
      <3> QED
        BY <3>1, <3>3
    <2>4. \A u, v \in V : Clash(u, v)' /\ u < v => \E jj \in V : Target(jj)' = u /\ Sees(jj, v)'
      BY <1>4, <1>5, <2>3
    <2> QED
      BY <2>1, <2>2, <2>4 DEF ConflictInv
  <1>7. ListInv' /\ GivenColorsKept'
    BY <1>1 DEF ListInv, GivenColorsKept
  <1>8. GreedyClash' /\ GreedyList' /\ GreedyKnows' /\ ProperWhenChecked'
    BY <1>1 DEF GreedyClash, GreedyList, GreedyKnows, ProperWhenChecked
  <1> QED
    BY <1>3, <1>6, <1>7, <1>8

LEMMA ConflictSeenPreserves ==
  ASSUME SoundOptions, IInv, NEW ii \in V, ConflictSeen(ii)
  PROVE  IInv'
  <1> USE DEF IInv
  <1> DEFINE old == item[ii]
             i == Target(ii)
  <1>1. /\ phase = "conflict" /\ old.pc = "scan"
        /\ item' = [item EXCEPT ![ii].pc = "clash", ![ii].unread = {}]
        /\ UNCHANGED <<adj, opt, given, colors, vertexList, vertexListLength, recolorList,
                       recolorListLength, numUncolored, iter, next, numConflicts, phase>>
    BY DEF ConflictSeen, input, lists, host
  <1>2. /\ item' \in [V -> ItemType]
        /\ item'[ii].pc = "clash"
        /\ \A jj \in V : jj # ii => item'[jj] = item[jj]
    <2> DEFINE new == [old EXCEPT !.pc = "clash", !.unread = {}]
    <2>1. old \in ItemType
      BY DEF TypeOK
    <2>2. new \in ItemType /\ new.pc = "clash"
      BY <2>1 DEF ItemType
    <2>3. item' = [item EXCEPT ![ii] = new]
      BY <1>1
    <2> HIDE DEF new
    <2> QED
      BY <2>2, <2>3 DEF TypeOK
  <1>3. TypeOK'
    BY <1>1, <1>2 DEF TypeOK
  <1>4. \A jj \in V : Target(jj)' = Target(jj) /\ HigherNeighbors(Target(jj))' = HigherNeighbors(Target(jj))
    BY <1>1 DEF Target, HigherNeighbors
  <1>5. \A u, v \in V : Clash(u, v)' <=> Clash(u, v)
    BY <1>1 DEF Clash
  <1>6. given[i] = 0
    <2>1. i \in V
      BY DEF SoundOptions, Sound, TypeOK, ListInv, Target
    <2> SUFFICES ASSUME given[i] > 0 PROVE FALSE
      BY <2>1 DEF TypeOK
    <2>2. PICK n \in item[ii].unread : colors[n] = colors[i]
      BY DEF ConflictSeen
    <2>3. n \in adj[i] /\ i < n
      BY <1>1, <2>2 DEF ConflictInv, HigherNeighbors
    <2>4. n \in V /\ i # n
      BY <2>1, <2>3, GraphFacts DEF TypeOK, V
    <2>5. colors[i] > 0
      BY <2>1 DEF GivenColorsKept
    <2>6. Clash(i, n)
      BY <2>2, <2>3, <2>4, <2>5 DEF Clash
    <2> QED
      BY <1>1, <2>1, <2>4, <2>6 DEF ConflictInv
  <1>7. ConflictInv'
    <2>1. \A jj \in V : /\ item'[jj].pc = "scan" => item'[jj].unread \subseteq HigherNeighbors(Target(jj))'
                        /\ item'[jj].pc = "clash" => given'[Target(jj)'] = 0
      BY <1>1, <1>2, <1>4, <1>6 DEF ConflictInv
    <2>2. \A u, v \in V : Clash(u, v)' => given'[u] = 0
      BY <1>1, <1>5 DEF ConflictInv
    <2>3. \A jj, v \in V : Sees(jj, v) => Sees(jj, v)'
      BY <1>2 DEF Sees
    <2>4. \A u, v \in V : Clash(u, v)' /\ u < v => \E jj \in V : Target(jj)' = u /\ Sees(jj, v)'
      BY <1>1, <1>4, <1>5, <2>3 DEF ConflictInv
    <2> QED
      BY <2>1, <2>2, <2>4 DEF ConflictInv
  <1>8. ListInv' /\ GivenColorsKept'
    BY <1>1 DEF ListInv, GivenColorsKept
  <1>9. GreedyClash' /\ GreedyList' /\ GreedyKnows' /\ ProperWhenChecked'
    BY <1>1 DEF GreedyClash, GreedyList, GreedyKnows, ProperWhenChecked
  <1> QED
    BY <1>3, <1>7, <1>8, <1>9

LEMMA UncolorPreserves ==
  ASSUME SoundOptions, IInv, NEW ii \in V, Uncolor(ii)
  PROVE  IInv'
  <1> USE DEF IInv
  <1> DEFINE i == Target(ii)
  <1>1. /\ phase = "conflict" /\ item[ii].pc = "clash"
        /\ colors' = [colors EXCEPT ![i] = 0]
        /\ Remember(ii) /\ numConflicts' = numConflicts + 1
        /\ item' = [item EXCEPT ![ii] = Idle]
        /\ UNCHANGED <<adj, opt, given, numUncolored, iter, next, phase>>
    BY DEF Uncolor, input, host
  <1>2. opt.conflict_scheme \in {"ATOMIC", "NOCONFLICT"} /\ i \in V
    BY DEF SoundOptions, Sound, TypeOK, ListInv, Target
  <1>3. /\ UNCHANGED <<vertexList, vertexListLength>>
        /\ recolorList' \in [V -> V] /\ recolorListLength' \in Nat
    <2>1. CASE opt.conflict_scheme = "ATOMIC"
      <3>1. /\ recolorList' = [recolorList EXCEPT ![recolorListLength] = i]
            /\ recolorListLength' = recolorListLength + 1
            /\ UNCHANGED <<vertexList, vertexListLength>>
        BY <1>1, <2>1 DEF Remember
      <3>2. recolorList \in [V -> V] /\ recolorListLength \in Nat
        BY DEF ListInv, TypeOK
      <3>3. recolorList' \in [V -> V]
        BY <1>2, <3>1, <3>2
      <3> QED
        BY <3>1, <3>2, <3>3
    <2>2. CASE opt.conflict_scheme = "NOCONFLICT"
      BY <1>1, <2>2 DEF Remember, lists, ListInv, TypeOK
    <2> QED
      BY <1>2, <2>1, <2>2
  <1>4. /\ item' \in [V -> ItemType]
        /\ item'[ii].pc = "end"
        /\ \A jj \in V : jj # ii => item'[jj] = item[jj]
    <2>1. Idle \in ItemType /\ Idle.pc = "end"
      BY DEF Idle, ItemType
    <2> QED
      BY <1>1, <2>1 DEF TypeOK
  <1>5. /\ colors' \in [V -> Nat] /\ colors'[i] = 0
        /\ \A v \in V : v # i => colors'[v] = colors[v]
    BY <1>1, <1>2 DEF TypeOK
  <1>6. ListInv'
    BY <1>1, <1>3 DEF ListInv
  <1>7. TypeOK'
    <2>1. vertexList' \in [V -> Nat] /\ recolorList' \in [V -> Nat]
      BY <1>3 DEF TypeOK, V
    <2> QED
      BY <1>1, <1>3, <1>4, <1>5, <2>1 DEF TypeOK
  <1>8. \A jj \in V : Target(jj)' = Target(jj) /\ HigherNeighbors(Target(jj))' = HigherNeighbors(Target(jj))
    BY <1>1, <1>3 DEF Target, HigherNeighbors
  <1>9. \A u, v \in V : Clash(u, v)' => Clash(u, v) /\ u # i /\ v # i
    BY <1>1, <1>5 DEF Clash
  <1>10. ConflictInv'
    <2>1. \A jj \in V : /\ item'[jj].pc = "scan" => item'[jj].unread \subseteq HigherNeighbors(Target(jj))'
                        /\ item'[jj].pc = "clash" => given'[Target(jj)'] = 0
      BY <1>1, <1>4, <1>8 DEF ConflictInv
    <2>2. \A u, v \in V : Clash(u, v)' => given'[u] = 0
      BY <1>1, <1>9 DEF ConflictInv
    <2>3. ASSUME NEW u \in V, NEW v \in V, Clash(u, v), u # i, u < v
          PROVE  \E jj \in V : Target(jj) = u /\ Sees(jj, v)'
      <3>1. PICK jj \in V : Target(jj) = u /\ Sees(jj, v)
        BY <1>1, <2>3 DEF ConflictInv
      <3>2. jj # ii
        BY <2>3, <3>1
      <3> QED
        BY <1>4, <3>1, <3>2 DEF Sees
    <2>4. \A u, v \in V : Clash(u, v)' /\ u < v => \E jj \in V : Target(jj)' = u /\ Sees(jj, v)'
      BY <1>8, <1>9, <2>3
    <2> QED
      BY <2>1, <2>2, <2>4 DEF ConflictInv
  <1>11. given[i] = 0
    BY <1>1 DEF ConflictInv
  <1>12. GivenColorsKept'
    BY <1>1, <1>5, <1>11 DEF GivenColorsKept
  <1>13. GreedyClash' /\ GreedyList' /\ GreedyKnows' /\ ProperWhenChecked'
    BY <1>1 DEF GreedyClash, GreedyList, GreedyKnows, ProperWhenChecked
  <1> QED
    BY <1>6, <1>7, <1>10, <1>12, <1>13

LEMMA ConflictFencePreserves ==
  ASSUME SoundOptions, IInv, ConflictFence
  PROVE  IInv'
  <1> USE DEF IInv
  <1>1. /\ phase = "conflict"
        /\ \A ii \in V : item[ii].unread = {} /\ item[ii].pc # "clash"
        /\ numUncolored' = numConflicts
        /\ iter' = IF opt.serial THEN iter ELSE iter + 1
        /\ phase' = IF ~LastIteration THEN "greedy"
                    ELSE IF numConflicts > 0 THEN "serial" ELSE "done"
        /\ item' = IF LastIteration THEN [ii \in V |-> Idle]
                   ELSE GreedyItems(adj, opt, colors, vertexList', vertexListLength')
        /\ UNCHANGED <<adj, opt, given, colors, numConflicts, next>>
    BY DEF ConflictFence, input
  <1>2. opt.conflict_scheme \in {"ATOMIC", "NOCONFLICT"} /\ ~Compacts
    BY DEF SoundOptions, Sound, TypeOK, Compacts
  <1>3. SwapLists(recolorList)
    BY <1>2 DEF ConflictFence
  <1>4. /\ vertexList' \in [V -> V] /\ recolorList' \in [V -> V]
        /\ vertexListLength' \in Nat /\ recolorListLength' \in Nat
        /\ opt.conflict_scheme = "NOCONFLICT" => vertexListLength' = vertexListLength
    BY <1>2, <1>3 DEF SwapLists, swap_work_arrays, ListInv, TypeOK
  <1>5. ListInv'
    BY <1>1, <1>4 DEF ListInv
  <1>6. \A u, v \in V : ~Clash(u, v)
    <2> SUFFICES ASSUME NEW u \in V, NEW v \in V, Clash(u, v) PROVE FALSE
      OBVIOUS
    <2>1. Clash(v, u)
      BY GraphFacts DEF Clash, TypeOK
    <2>2. ~(u < v) /\ ~(v < u)
      BY <1>1, <2>1 DEF ConflictInv, Sees
    <2> QED
      BY <2>2 DEF Clash, V
  <1>7. Proper(adj, colors)
    BY <1>6, ProperIsNoClash DEF TypeOK
  <1>8. item' \in [V -> ItemType]
    <2>1. Idle \in ItemType
      BY DEF Idle, ItemType
    <2>2. GreedyItems(adj, opt, colors, vertexList', vertexListLength') \in [V -> ItemType]
      BY <1>4, Launch DEF TypeOK
    <2> QED
      BY <1>1, <2>1, <2>2
  <1>9. TypeOK'
    <2>1. vertexList' \in [V -> Nat] /\ recolorList' \in [V -> Nat]
      BY <1>4 DEF V
    <2>2. phase' \in {"greedy", "conflict", "serial", "done"} /\ iter' \in Nat
      BY <1>1 DEF TypeOK
    <2> QED
      BY <1>1, <1>4, <1>8, <2>1, <2>2 DEF TypeOK
  <1>10. ASSUME phase' = "greedy"
         PROVE  \A ii \in V : /\ item'[ii].pc \in {"scan", "end"}
                              /\ item'[ii].pc = "scan" =>
                                   /\ ii < vertexListLength' /\ colors[vertexList'[ii]] = 0
                                   /\ item'[ii].unread = Neighbors(vertexList'[ii])
                                   /\ item'[ii].filtered = {}
    <2>1. item' = GreedyItems(adj, opt, colors, vertexList', vertexListLength')
      BY <1>1, <1>10
    <2> QED
      BY <1>4, <2>1, Launch DEF TypeOK, Neighbors
  <1>11. GreedyClash'
    BY <1>1, <1>6 DEF GreedyClash, Clash
  <1>12. GreedyList'
    <2> SUFFICES ASSUME phase' = "greedy", NEW ii \in V, item'[ii].pc \in {"scan", "colored"}
                 PROVE  ii < vertexListLength' /\ given[vertexList'[ii]] = 0
      BY <1>1 DEF GreedyList
    <2>1. ii < vertexListLength' /\ colors[vertexList'[ii]] = 0
      BY <1>10
    <2>2. vertexList'[ii] \in V
      BY <1>4
    <2> QED
      BY <2>1, <2>2 DEF GivenColorsKept, TypeOK
  <1>13. GreedyKnows'
    <2> SUFFICES ASSUME phase' = "greedy", NEW ii \in V, NEW n \in V, item'[ii].pc = "scan",
                        n \in Neighbors(vertexList'[ii])
                 PROVE  Knows(ii, n)'
      BY <1>1 DEF GreedyKnows, Neighbors
    <2>1. n \in item'[ii].unread /\ n \notin item'[ii].filtered
      BY <1>10
    <2> QED
      BY <2>1 DEF Knows
  <1>14. ConflictInv' /\ GivenColorsKept' /\ ProperWhenChecked'
    <2>1. phase' # "conflict"
      BY <1>1
    <2> QED
      BY <1>1, <1>7, <2>1 DEF ConflictInv, GivenColorsKept, ProperWhenChecked, Proper
  <1> QED
    BY <1>5, <1>9, <1>11, <1>12, <1>13, <1>14

-----------------------------------------------------------------------------
(* The serial loop. *)

LEMMA SerialStepPreserves ==
  ASSUME IInv, SerialStep
  PROVE  IInv'
  <1> USE DEF IInv
  <1> DEFINE i == Target(next)
  <1>1. /\ phase = "serial" /\ next' = next + 1
        /\ IF colors[i] > 0 THEN UNCHANGED colors ELSE SerialColor(i)
        /\ UNCHANGED <<adj, opt, given, vertexList, vertexListLength, recolorList,
                       recolorListLength, numUncolored, iter, numConflicts, phase, item>>
    BY DEF SerialStep, input, lists
  <1>2. Proper(adj, colors)
    BY <1>1 DEF ProperWhenChecked
  <1>3. /\ colors' \in [V -> Nat]
        /\ Proper(adj, colors')
        /\ \A v \in V : colors[v] > 0 => colors'[v] = colors[v]
    <2>1. CASE UNCHANGED colors
      BY <1>2, <2>1 DEF TypeOK
    <2>2. CASE ~(colors[i] > 0) /\ SerialColor(i)
      <3>1. PICK f \in Forbidden(i) : \E c \in 1 .. MaxColor :
                   c \notin f /\ colors' = [colors EXCEPT ![i] = c]
        BY <2>2 DEF SerialColor
      <3>2. PICK c \in 1 .. MaxColor : c \notin f /\ colors' = [colors EXCEPT ![i] = c]
        BY <3>1
      <3>3. \A n \in Neighbors(i) : colors[n] # c
        BY <3>1, <3>2 DEF Forbidden
      <3>4. c \in Nat
        BY SizeAssumption
      <3>5. CASE i \in V
        <4>1. colors'[i] = c /\ \A v \in V : v # i => colors'[v] = colors[v]
          BY <3>2, <3>5 DEF TypeOK
        <4>2. Proper(adj, colors')
          <5> SUFFICES ASSUME NEW u \in V, NEW v \in V, u \in adj[v], u # v, colors'[u] > 0
                       PROVE  colors'[u] # colors'[v]
            BY DEF Proper
          <5>1. CASE u = i
            <6>1. v \in adj[u]
              BY GraphFacts DEF TypeOK
            <6> QED
              BY <3>3, <4>1, <5>1, <6>1 DEF Neighbors
          <5>2. CASE v = i
            BY <3>3, <4>1, <5>2 DEF Neighbors
          <5>3. CASE u # i /\ v # i
            BY <1>2, <4>1, <5>3 DEF Proper
          <5> QED
            BY <5>1, <5>2, <5>3
        <4> QED
          BY <2>2, <3>2, <3>4, <4>1, <4>2 DEF TypeOK
      <3>6. CASE i \notin V
        BY <1>2, <3>2, <3>6 DEF TypeOK
      <3> QED
        BY <3>5, <3>6
    <2> QED
      BY <1>1, <2>1, <2>2
  <1>4. TypeOK'
    BY <1>1, <1>3 DEF TypeOK
  <1>5. GivenColorsKept'
    BY <1>1, <1>3 DEF GivenColorsKept
  <1>6. ListInv' /\ ConflictInv'
    BY <1>1 DEF ListInv, ConflictInv
  <1>7. GreedyClash' /\ GreedyList' /\ GreedyKnows' /\ ProperWhenChecked'
    BY <1>1, <1>3 DEF GreedyClash, GreedyList, GreedyKnows, ProperWhenChecked
  <1> QED
    BY <1>4, <1>5, <1>6, <1>7

LEMMA SerialDonePreserves ==
  ASSUME IInv, SerialDone
  PROVE  IInv'
  <1>1. /\ phase = "serial" /\ phase' = "done"
        /\ UNCHANGED <<adj, opt, given, colors, vertexList, vertexListLength, recolorList,
                       recolorListLength, numUncolored, iter, next, numConflicts, item>>
    BY DEF SerialDone, input, lists, host
  <1>2. TypeOK'
    BY <1>1 DEF IInv, TypeOK
  <1>3. ListInv' /\ ConflictInv' /\ GivenColorsKept'
    BY <1>1 DEF IInv, ListInv, ConflictInv, GivenColorsKept
  <1>4. GreedyClash' /\ GreedyList' /\ GreedyKnows' /\ ProperWhenChecked'
    BY <1>1 DEF IInv, GreedyClash, GreedyList, GreedyKnows, ProperWhenChecked, Proper
  <1> QED
    BY <1>2, <1>3, <1>4 DEF IInv

LEMMA StutterPreserves ==
  ASSUME IInv, UNCHANGED vars
  PROVE  IInv'
  <1>1. UNCHANGED <<adj, opt, given, colors, vertexList, vertexListLength, recolorList,
                    recolorListLength, numUncolored, numConflicts, iter, phase, item, next>>
    BY DEF vars
  <1>2. TypeOK' /\ ListInv' /\ GivenColorsKept' /\ ProperWhenChecked'
    BY <1>1 DEF IInv, TypeOK, ListInv, GivenColorsKept, ProperWhenChecked, Proper
  <1>3. GreedyClash' /\ GreedyList' /\ GreedyKnows'
    BY <1>1 DEF IInv, GreedyClash, GreedyList, GreedyKnows, Clash, Fresh, Knows, Window, Neighbors
  <1>4. ConflictInv'
    BY <1>1 DEF IInv, ConflictInv, Sees, Clash, Target, HigherNeighbors
  <1> QED
    BY <1>2, <1>3, <1>4 DEF IInv

-----------------------------------------------------------------------------
LEMMA NextPreserves ==
  ASSUME SoundOptions
  PROVE  IInv /\ [Next]_vars => IInv'
  <1> SUFFICES ASSUME IInv, [Next]_vars PROVE IInv'
    OBVIOUS
  <1>1. ASSUME NEW ii \in V, GreedyRead(ii) PROVE IInv'
    BY <1>1, GreedyReadPreserves
  <1>2. ASSUME NEW ii \in V, GreedyColor(ii) PROVE IInv'
    BY <1>2, GreedyColorPreserves
  <1>3. ASSUME NEW ii \in V, GreedyNextPass(ii) PROVE IInv'
    BY <1>3, GreedyNextPassPreserves
  <1>4. ASSUME NEW ii \in V, ConflictPass(ii) PROVE IInv'
    BY <1>4, ConflictPassPreserves
  <1>5. ASSUME NEW ii \in V, ConflictSeen(ii) \/ Uncolor(ii) PROVE IInv'
    BY <1>5, ConflictSeenPreserves, UncolorPreserves
  <1>6. CASE GreedyFence
    BY <1>6, GreedyFencePreserves
  <1>7. CASE ConflictFence
    BY <1>7, ConflictFencePreserves
  <1>8. CASE SerialStep
    BY <1>8, SerialStepPreserves
  <1>9. CASE SerialDone
    BY <1>9, SerialDonePreserves
  <1>10. CASE UNCHANGED vars
    BY <1>10, StutterPreserves
  <1> QED
    BY <1>1, <1>2, <1>3, <1>4, <1>5, <1>6, <1>7, <1>8, <1>9, <1>10
    DEF Next, ItemStep, HostStep, Terminated

\* The strengthened invariant holds in every run of sound options.
THEOREM Inductive == SoundOptions => (Spec => []IInv)
  <1> SUFFICES ASSUME SoundOptions PROVE Spec => []IInv
    OBVIOUS
  <1>1. Init => IInv
    BY InitEstablishes
  <1>2. IInv /\ [Next]_vars => IInv'
    BY NextPreserves
  <1> QED
    BY <1>1, <1>2, PTL DEF Spec

\* The colours and work lists of color_graph keep their types (lines 277-429).
THEOREM ColoringTypeCorrect == SoundOptions => (Spec => []TypeOK)
  <1>1. IInv => TypeOK
    BY DEF IInv
  <1> QED
    BY <1>1, Inductive, PTL

\* Whatever the interleaving of the two kernels, no two neighbours have the same
\* colour after a conflict kernel, in the serial loop and when color_graph
\* returns (lines 351-424).
THEOREM ColoringIsProper == SoundOptions => (Spec => []ProperWhenChecked)
  <1>1. IInv => ProperWhenChecked
    BY DEF IInv
  <1> QED
    BY <1>1, Inductive, PTL

\* A colour that the caller gives is never changed (lines 268-276).
THEOREM FixedColorsStay == SoundOptions => (Spec => []GivenColorsKept)
  <1>1. IInv => GivenColorsKept
    BY DEF IInv
  <1> QED
    BY <1>1, Inductive, PTL

-----------------------------------------------------------------------------
(***************************************************************************)
(* The work lists, on top of Inductive: they stay within their arrays and  *)
(* hold every vertex without a colour, so that all vertices have one in    *)
(* the end; no vertex gets a colour beyond its degree plus one; and every  *)
(* iteration leaves fewer vertices without a colour.  The invariant needs  *)
(* that no vertex is on a work list twice.                                 *)
(***************************************************************************)
\* The lists of distinct vertices; the items that run are those of entries.
WorkLists ==
  /\ vertexListLength \in 0 .. nv /\ recolorListLength \in 0 .. nv
  /\ Distinct(vertexList, vertexListLength)
  /\ opt.conflict_scheme = "NOCONFLICT" => vertexList = [ii \in V |-> ii] /\ recolorListLength = 0
  /\ \A ii \in V : item[ii].pc \in {"scan", "clash"} => ii < vertexListLength

\* The vertices without a colour are those that an item is colouring.
GreedyLists ==
  phase = "greedy" =>
    /\ recolorListLength = 0 /\ next = 0
    /\ \A ii \in V : item[ii].pc = "scan" => colors[vertexList[ii]] = 0
    /\ \A v \in Uncolored : \E ii \in V : item[ii].pc = "scan" /\ vertexList[ii] = v

ColorsAround(v) == {colors[n] : n \in Neighbors(v)}

\* An item passes over a colour because a neighbour has it.
GreedyFit ==
  phase = "greedy" =>
    \A ii \in V : item[ii].pc = "scan" =>
      /\ item[ii].unread \subseteq Neighbors(vertexList[ii])
      /\ item[ii].forbidden \ {0} \subseteq ColorsAround(vertexList[ii])
      /\ 1 .. item[ii].offset - 1 \subseteq ColorsAround(vertexList[ii])
      /\ item[ii].offset = 0 => 0 \in item[ii].forbidden

\* The vertices that lost their colour are counted, and on the list.
ConflictLists ==
  phase = "conflict" =>
    /\ next = 0
    /\ \A ii \in V : item[ii].pc \in {"scan", "clash"} => colors[Target(ii)] > 0
    /\ Uncolored \subseteq Entries(vertexList, vertexListLength)
    /\ numConflicts = Cardinality(Uncolored)
    /\ opt.conflict_scheme = "ATOMIC" =>
         Distinct(recolorList, recolorListLength) /\ Entries(recolorList, recolorListLength) = Uncolored

\* The serial loop has all of them before it.
SerialList ==
  phase = "serial" => Uncolored \subseteq {vertexList[k] : k \in next .. vertexListLength - 1}

LInv == /\ WorkLists /\ GreedyLists /\ GreedyFit /\ ConflictLists
        /\ SerialList /\ CompleteAtEnd /\ FirstFitBound

-----------------------------------------------------------------------------
LEMMA VerticesAreFinite == nv \in Nat /\ V = 0 .. nv - 1 /\ V \subseteq Nat /\ IsFiniteSet(V)
  <1>1. nv \in Nat /\ 0 \in Int /\ nv - 1 \in Int
    BY SizeAssumption
  <1>2. IsFiniteSet(0 .. nv - 1)
    BY <1>1, FS_Interval
  <1> QED
    BY <1>1, <1>2 DEF V

\* The entry of an item is its vertex.
LEMMA ListFacts ==
  ASSUME SoundOptions, TypeOK, ListInv, WorkLists
  PROVE  /\ opt.conflict_scheme \in {"ATOMIC", "NOCONFLICT"}
         /\ \A ii \in V : vertexList[ii] \in V /\ Target(ii) = vertexList[ii]
         /\ vertexListLength \in Nat /\ recolorListLength \in Nat
         /\ \A ii \in V : ii < vertexListLength <=> ii \in 0 .. vertexListLength - 1
         /\ \A ii \in 0 .. vertexListLength - 1 : ii \in V
         /\ \A ii, jj \in V : /\ ii < vertexListLength /\ jj < vertexListLength
                              /\ vertexList[ii] = vertexList[jj]
                              => ii = jj
  <1>1. opt.conflict_scheme \in {"ATOMIC", "NOCONFLICT"}
    BY DEF SoundOptions, Sound, TypeOK
  <1>2. \A ii \in V : vertexList[ii] \in V /\ Target(ii) = vertexList[ii]
    BY DEF ListInv, WorkLists, Target
  <1>3. nv \in Nat /\ vertexListLength \in 0 .. nv /\ recolorListLength \in 0 .. nv
    BY SizeAssumption DEF WorkLists
  <1>4. \A ii \in V : ii < vertexListLength <=> ii \in 0 .. vertexListLength - 1
    BY <1>3 DEF V
  <1>5. \A ii \in 0 .. vertexListLength - 1 : ii \in V
    BY <1>3 DEF V
  <1>6. \A ii, jj \in 0 .. vertexListLength - 1 : vertexList[ii] = vertexList[jj] => ii = jj
    BY DEF WorkLists, Distinct
  <1> QED
    BY <1>1, <1>2, <1>3, <1>4, <1>5, <1>6

\* A colour is at most one more than the number of neighbours whose colours are
\* all those below it.
LEMMA FitBound ==
  ASSUME TypeOK, NEW v \in V, NEW c \in Nat, c > 0, 1 .. c - 1 \subseteq ColorsAround(v)
  PROVE  c <= Cardinality(Neighbors(v)) + 1
  <1>1. Neighbors(v) \in SUBSET V
    BY GraphFacts DEF Neighbors, TypeOK
  <1>2. IsFiniteSet(Neighbors(v)) /\ Cardinality(Neighbors(v)) \in Nat
    BY <1>1, VerticesAreFinite, FS_Subset, FS_CardinalityType
  <1>3. IsFiniteSet(ColorsAround(v)) /\ Cardinality(ColorsAround(v)) <= Cardinality(Neighbors(v))
    <2> DEFINE g == [n \in Neighbors(v) |-> colors[n]]
    <2>1. g \in Surjection(Neighbors(v), ColorsAround(v))
      BY DEF Surjection, ColorsAround
    <2> HIDE DEF g
    <2> QED
      BY <1>2, <2>1, FS_Surjection
  <1>4. Cardinality(1 .. c - 1) = c - 1 /\ IsFiniteSet(1 .. c - 1)
    <2>1. 1 \in Int /\ c - 1 \in Int
      OBVIOUS
    <2> QED
      BY <2>1, FS_Interval
  <1>5. Cardinality(1 .. c - 1) <= Cardinality(ColorsAround(v))
    BY <1>3, FS_Subset
  <1>6. Cardinality(ColorsAround(v)) \in Nat
    BY <1>3, FS_CardinalityType
  <1> QED
    BY <1>2, <1>3, <1>4, <1>5, <1>6

\* A greedy kernel is launched with an item for every vertex without a colour.
LEMMA LaunchLists ==
  ASSUME NEW g \in Graphs, NEW o \in Options, NEW c \in [V -> Nat],
         NEW list \in [V -> V], NEW len \in 0 .. nv
  PROVE  \A ii \in V : LET it == GreedyItems(g, o, c, list, len)[ii]
                       IN  /\ it.pc \in {"scan", "end"}
                           /\ it.pc = "scan" <=> ii < len /\ c[list[ii]] = 0
                           /\ it.pc = "scan" => /\ it.unread = g[list[ii]] \ {list[ii]}
                                                /\ it.forbidden \ {0} = {}
                                                /\ 1 .. it.offset - 1 = {}
                                                /\ it.offset = 0 => 0 \in it.forbidden
  <1> SUFFICES ASSUME NEW ii \in V
               PROVE  LET it == GreedyItems(g, o, c, list, len)[ii]
                      IN  /\ it.pc \in {"scan", "end"}
                          /\ it.pc = "scan" <=> ii < len /\ c[list[ii]] = 0
                          /\ it.pc = "scan" => /\ it.unread = g[list[ii]] \ {list[ii]}
                                               /\ it.forbidden \ {0} = {}
                                               /\ 1 .. it.offset - 1 = {}
                                               /\ it.offset = 0 => 0 \in it.forbidden
    OBVIOUS
  <1>1. GreedyItems(g, o, c, list, len)[ii]
          = IF ii < len /\ c[list[ii]] = 0 THEN FirstPass(g, list[ii], FromZero(o)) ELSE Idle
    BY DEF GreedyItems
  <1>2. Idle.pc = "end"
    BY DEF Idle
  <1>3. /\ FirstPass(g, list[ii], FromZero(o)).pc = "scan"
        /\ FirstPass(g, list[ii], FromZero(o)).unread = g[list[ii]] \ {list[ii]}
        /\ FirstPass(g, list[ii], FromZero(o)).forbidden = IF FromZero(o) THEN {0} ELSE {}
        /\ FirstPass(g, list[ii], FromZero(o)).offset = IF FromZero(o) THEN 0 ELSE 1
    BY DEF FirstPass
  <1>4. CASE ii < len /\ c[list[ii]] = 0
    <2>1. CASE FromZero(o)
      <3>1. 1 .. 0 - 1 = {}
        OBVIOUS
      <3> QED
        BY <1>1, <1>3, <1>4, <2>1, <3>1
    <2>2. CASE ~ FromZero(o)
      <3>1. 1 .. 1 - 1 = {} /\ 1 # 0
        OBVIOUS
      <3> QED
        BY <1>1, <1>3, <1>4, <2>2, <3>1
    <2> QED
      BY <2>1, <2>2
  <1>5. CASE ~ (ii < len /\ c[list[ii]] = 0)
    BY <1>1, <1>2, <1>5
  <1> QED
    BY <1>4, <1>5

\* ... if the list holds them all.
LEMMA LaunchedLists ==
  ASSUME NEW g \in Graphs, NEW o \in Options, NEW c \in [V -> Nat],
         NEW list \in [V -> V], NEW len \in 0 .. nv,
         {v \in V : c[v] = 0} \subseteq Entries(list, len),
         NEW it, it = GreedyItems(g, o, c, list, len)
  PROVE  /\ \A ii \in V : it[ii].pc \in {"scan", "clash"} => ii < len
         /\ \A ii \in V : it[ii].pc = "scan" =>
                            /\ c[list[ii]] = 0
                            /\ it[ii].unread = g[list[ii]] \ {list[ii]}
                            /\ it[ii].forbidden \ {0} = {}
                            /\ 1 .. it[ii].offset - 1 = {}
                            /\ it[ii].offset = 0 => 0 \in it[ii].forbidden
         /\ \A v \in V : c[v] = 0 => \E ii \in V : it[ii].pc = "scan" /\ list[ii] = v
  <1>1. \A ii \in V : /\ it[ii].pc \in {"scan", "end"}
                      /\ it[ii].pc = "scan" <=> ii < len /\ c[list[ii]] = 0
                      /\ it[ii].pc = "scan" => /\ it[ii].unread = g[list[ii]] \ {list[ii]}
                                               /\ it[ii].forbidden \ {0} = {}
                                               /\ 1 .. it[ii].offset - 1 = {}
                                               /\ it[ii].offset = 0 => 0 \in it[ii].forbidden
    BY LaunchLists
  <1>2. ASSUME NEW v \in V, c[v] = 0
        PROVE  \E ii \in V : it[ii].pc = "scan" /\ list[ii] = v
    <2>1. PICK ii \in 0 .. len - 1 : list[ii] = v
      BY <1>2 DEF Entries
    <2>2. ii \in V /\ ii < len
      BY VerticesAreFinite
    <2> QED
      BY <1>1, <1>2, <2>1, <2>2
  <1> QED
    BY <1>1, <1>2

LEMMA InitLists ==
  ASSUME SoundOptions
  PROVE  Init => LInv
  <1> SUFFICES ASSUME Init PROVE LInv
    OBVIOUS
  <1>1. TypeOK /\ ListInv
    BY InitEstablishes DEF IInv
  <1>2. vertexListLength \in 0 .. nv /\ recolorListLength = 0 /\ recolorListLength \in 0 .. nv
    BY SizeAssumption DEF Init
  <1>3. opt.use_vtx_list => opt.conflict_scheme = "ATOMIC"
    BY <1>1 DEF SoundOptions, Sound, TypeOK
  <1>4. /\ Distinct(vertexList, vertexListLength)
        /\ Uncolored \subseteq Entries(vertexList, vertexListLength)
    <2>1. CASE opt.use_vtx_list
      <3>1. GivenList(colors, vertexList, vertexListLength)
        BY <2>1 DEF Init
      <3>2. Entries(vertexList, vertexListLength) = Uncolored
        BY <3>1 DEF GivenList, Entries, Uncolored
      <3>3. ASSUME NEW i \in 0 .. vertexListLength - 1, NEW j \in 0 .. vertexListLength - 1,
                   vertexList[i] = vertexList[j], i # j
            PROVE  FALSE
        <4>1. i \in V /\ j \in V /\ vertexList[i] \in Nat /\ vertexList[j] \in Nat
          BY <1>1, <1>2, VerticesAreFinite DEF TypeOK
        <4>2. i < j \/ j < i
          BY <3>3, <4>1, VerticesAreFinite
        <4>3. vertexList[i] < vertexList[j] \/ vertexList[j] < vertexList[i]
          BY <3>1, <4>2 DEF GivenList
        <4> QED
          BY <3>3, <4>1, <4>3
      <3> QED
        BY <3>2, <3>3 DEF Distinct
    <2>2. CASE ~ opt.use_vtx_list
      <3>1. vertexListLength = nv /\ vertexList = [ii \in V |-> ii]
        BY <2>2 DEF Init
      <3>2. \A ii \in 0 .. vertexListLength - 1 : vertexList[ii] = ii
        BY <3>1 DEF V
      <3>3. Entries(vertexList, vertexListLength) = V
        BY <3>1, <3>2 DEF Entries, V
      <3> QED
        BY <3>2, <3>3 DEF Distinct, Uncolored
    <2> QED
      BY <2>1, <2>2
  <1>5. opt.conflict_scheme = "NOCONFLICT" => vertexList = [ii \in V |-> ii]
    BY <1>3 DEF Init
  <1>6. phase \in {"greedy", "serial"}
    BY DEF Init
  <1>7. CASE phase = "greedy"
    <2>1. item = GreedyItems(adj, opt, colors, vertexList, vertexListLength)
      BY <1>7 DEF Init
    <2>2. /\ \A ii \in V : item[ii].pc \in {"scan", "clash"} => ii < vertexListLength
          /\ GreedyLists /\ GreedyFit
      <3>1. /\ adj \in Graphs /\ opt \in Options /\ colors \in [V -> Nat] /\ vertexList \in [V -> V]
            /\ {v \in V : colors[v] = 0} \subseteq Entries(vertexList, vertexListLength)
        BY <1>1, <1>4 DEF TypeOK, ListInv, Uncolored
      <3>2. /\ \A ii \in V : item[ii].pc \in {"scan", "clash"} => ii < vertexListLength
            /\ \A ii \in V : item[ii].pc = "scan" =>
                               /\ colors[vertexList[ii]] = 0
                               /\ item[ii].unread = adj[vertexList[ii]] \ {vertexList[ii]}
                               /\ item[ii].forbidden \ {0} = {}
                               /\ 1 .. item[ii].offset - 1 = {}
                               /\ item[ii].offset = 0 => 0 \in item[ii].forbidden
            /\ \A v \in V : colors[v] = 0 => \E ii \in V : item[ii].pc = "scan" /\ vertexList[ii] = v
        BY <1>2, <2>1, <3>1, LaunchedLists
      <3>3. next = 0
        BY DEF Init
      <3> QED
        BY <1>2, <3>2, <3>3 DEF GreedyLists, GreedyFit, Uncolored, Neighbors
    <2>3. FirstFitBound
      BY DEF Init, FirstFitBound
    <2> QED
      BY <1>2, <1>4, <1>5, <1>7, <2>2, <2>3 DEF LInv, WorkLists, ConflictLists, SerialList, CompleteAtEnd
  <1>8. CASE phase = "serial"
    <2>1. item = [ii \in V |-> Idle] /\ Idle.pc = "end" /\ next = 0
      BY <1>8 DEF Init, Idle
    <2>2. WorkLists
      BY <1>2, <1>4, <1>5, <2>1 DEF WorkLists
    <2>3. SerialList
      BY <1>4, <2>1 DEF SerialList, Entries
    <2> QED
      BY <1>8, <2>2, <2>3 DEF LInv, GreedyLists, GreedyFit, ConflictLists, CompleteAtEnd, FirstFitBound
  <1> QED
    BY <1>6, <1>7, <1>8

-----------------------------------------------------------------------------
(* The greedy kernel. *)

LEMMA GreedyReadLists ==
  ASSUME SoundOptions, IInv, LInv, NEW ii \in V, GreedyRead(ii)
  PROVE  LInv'
  <1>1. /\ phase = "greedy" /\ item[ii].pc = "scan"
        /\ UNCHANGED <<adj, opt, given, colors, vertexList, vertexListLength, recolorList,
                       recolorListLength, numUncolored, iter, next, numConflicts, phase>>
    BY DEF GreedyRead, input, lists, host
  <1>2. PICK n \in item[ii].unread :
          item' = [item EXCEPT
            ![ii].unread = @ \ {n},
            ![ii].forbidden = IF colors[n] \in Window(ii) THEN @ \union {colors[n]} ELSE @,
            ![ii].filtered = IF opt.edge_filtering /\ colors[n] > 0
                                /\ colors[n] < item[ii].offset + FORBIDDEN_SIZE
                             THEN @ \union {n} ELSE @]
    BY DEF GreedyRead
  <1>3. TypeOK /\ WorkLists /\ GreedyLists /\ GreedyFit /\ FirstFitBound
    BY DEF IInv, LInv
  <1>4. item[ii] \in ItemType
    BY <1>3 DEF TypeOK
  <1>5. /\ item'[ii].pc = "scan" /\ item'[ii].offset = item[ii].offset
        /\ item'[ii].unread = item[ii].unread \ {n}
        /\ item'[ii].forbidden \subseteq item[ii].forbidden \union {colors[n]}
        /\ item[ii].forbidden \subseteq item'[ii].forbidden
        /\ \A jj \in V : jj # ii => item'[jj] = item[jj]
    BY <1>1, <1>2, <1>3, <1>4 DEF TypeOK, ItemType
  <1>6. \A jj \in V : item'[jj].pc = item[jj].pc
    BY <1>1, <1>5
  <1>7. WorkLists'
    BY <1>1, <1>3, <1>6 DEF WorkLists, Distinct
  <1>8. GreedyLists'
    BY <1>1, <1>3, <1>6 DEF GreedyLists, Uncolored
  <1>9. GreedyFit'
    <2>1. \A v \in V : ColorsAround(v)' = ColorsAround(v) /\ Neighbors(v)' = Neighbors(v)
      BY <1>1 DEF ColorsAround, Neighbors
    <2>2. vertexList[ii] \in V /\ \A jj \in V : vertexList[jj] \in V
      BY DEF IInv, ListInv
    <2>3. n \in Neighbors(vertexList[ii]) /\ colors[n] \in ColorsAround(vertexList[ii])
      BY <1>1, <1>2, <1>3 DEF GreedyFit, ColorsAround
    <2>4. ASSUME NEW jj \in V, item'[jj].pc = "scan"
          PROVE  /\ item'[jj].unread \subseteq Neighbors(vertexList[jj])
                 /\ item'[jj].forbidden \ {0} \subseteq ColorsAround(vertexList[jj])
                 /\ 1 .. item'[jj].offset - 1 \subseteq ColorsAround(vertexList[jj])
                 /\ item'[jj].offset = 0 => 0 \in item'[jj].forbidden
      <3>1. CASE jj = ii
        BY <1>1, <1>3, <1>5, <2>3, <3>1 DEF GreedyFit
      <3>2. CASE jj # ii
        BY <1>1, <1>3, <1>5, <2>4, <3>2 DEF GreedyFit
      <3> QED
        BY <3>1, <3>2
    <2> QED
      BY <1>1, <2>1, <2>2, <2>4 DEF GreedyFit
  <1>10. ConflictLists' /\ SerialList' /\ CompleteAtEnd' /\ FirstFitBound'
    BY <1>1, <1>3 DEF ConflictLists, SerialList, CompleteAtEnd, FirstFitBound, Neighbors
  <1> QED
    BY <1>7, <1>8, <1>9, <1>10 DEF LInv

LEMMA GreedyColorLists ==
  ASSUME SoundOptions, IInv, LInv, NEW ii \in V, GreedyColor(ii)
  PROVE  LInv'
  <1>1. /\ phase = "greedy" /\ item[ii].pc = "scan"
        /\ item' = [item EXCEPT ![ii].pc = "colored"]
        /\ UNCHANGED <<adj, opt, given, vertexList, vertexListLength, recolorList,
                       recolorListLength, numUncolored, iter, next, numConflicts, phase>>
    BY DEF GreedyColor, input, lists, host
  <1>2. TypeOK /\ ListInv /\ WorkLists /\ GreedyLists /\ GreedyFit /\ FirstFitBound
    BY DEF IInv, LInv
  <1>3. PICK v \in V : v = vertexList[ii]
    BY <1>2 DEF ListInv
  <1>4. PICK c \in Window(ii) \ item[ii].forbidden :
          /\ \A d \in Window(ii) \ item[ii].forbidden : c <= d
          /\ colors' = [colors EXCEPT ![v] = c]
    BY <1>3 DEF GreedyColor
  <1>5. PICK o \in Nat : o = item[ii].offset
    BY <1>2 DEF TypeOK, ItemType
  <1>6. /\ item[ii].forbidden \ {0} \subseteq ColorsAround(v)
        /\ 1 .. o - 1 \subseteq ColorsAround(v)
        /\ o = 0 => 0 \in item[ii].forbidden
        /\ colors[v] = 0
    BY <1>1, <1>2, <1>3, <1>5 DEF GreedyFit, GreedyLists
  <1>7. c \in Nat /\ c >= o /\ c > 0 /\ FORBIDDEN_SIZE \in Nat /\ c <= o + FORBIDDEN_SIZE - 1
    <2>1. c \in o .. o + FORBIDDEN_SIZE - 1 /\ c \notin item[ii].forbidden /\ FORBIDDEN_SIZE \in Nat
      BY <1>4, <1>5, SizeAssumption DEF Window
    <2> QED
      BY <1>5, <1>6, <2>1
  <1>8. 1 .. c - 1 \subseteq ColorsAround(v)
    <2> SUFFICES ASSUME NEW d \in 1 .. c - 1 PROVE d \in ColorsAround(v)
      OBVIOUS
    <2>1. CASE d \in 1 .. o - 1
      BY <1>6, <2>1
    <2>2. CASE ~ (d \in 1 .. o - 1)
      <3>1. d \in Nat /\ d > 0 /\ d < c /\ d >= o
        BY <1>5, <1>7, <2>2
      <3>2. d \in Window(ii)
        BY <1>5, <1>7, <3>1 DEF Window
      <3>3. d \in item[ii].forbidden
        BY <1>4, <1>7, <3>1, <3>2
      <3> QED
        BY <1>6, <3>1, <3>3
    <2> QED
      BY <2>1, <2>2
  <1>9. c <= Cardinality(Neighbors(v)) + 1
    BY <1>2, <1>7, <1>8, FitBound
  <1>10. /\ colors'[v] = c /\ \A u \in V : u # v => colors'[u] = colors[u]
         /\ \A u \in V : colors[u] # 0 => colors'[u] = colors[u]
    BY <1>2, <1>4, <1>6 DEF TypeOK
  <1>11. /\ item'[ii].pc = "colored"
         /\ \A jj \in V : jj # ii => item'[jj] = item[jj]
    BY <1>1, <1>2 DEF TypeOK, ItemType
  <1>12. \A jj \in V : jj # ii /\ item[jj].pc = "scan" => vertexList[jj] # v
    <2>1. \A jj \in V : item[jj].pc = "scan" => jj < vertexListLength
      BY <1>2 DEF WorkLists
    <2> QED
      BY <1>1, <1>2, <1>3, <2>1, ListFacts
  <1>13. WorkLists'
    BY <1>1, <1>2, <1>11 DEF WorkLists, Distinct
  <1>14. GreedyLists'
    <2>1. \A jj \in V : item'[jj].pc = "scan" => colors'[vertexList[jj]] = 0
      <3>1. \A jj \in V : vertexList[jj] \in V
        BY <1>2 DEF ListInv
      <3> QED
        BY <1>1, <1>2, <1>10, <1>11, <1>12, <3>1 DEF GreedyLists
    <2>2. \A u \in Uncolored' : \E jj \in V : item'[jj].pc = "scan" /\ vertexList[jj] = u
      <3> SUFFICES ASSUME NEW u \in V, colors'[u] = 0
                   PROVE  \E jj \in V : item'[jj].pc = "scan" /\ vertexList[jj] = u
        BY DEF Uncolored
      <3>1. u # v /\ u \in Uncolored
        BY <1>7, <1>10 DEF Uncolored
      <3>2. PICK jj \in V : item[jj].pc = "scan" /\ vertexList[jj] = u
        BY <1>1, <1>2, <3>1 DEF GreedyLists
      <3>3. jj # ii
        BY <1>3, <3>1, <3>2
      <3> QED
        BY <1>11, <3>2, <3>3
    <2> QED
      BY <1>1, <1>2, <2>1, <2>2 DEF GreedyLists
  <1>15. GreedyFit'
    <2>1. \A u \in V : ColorsAround(u) \ {0} \subseteq ColorsAround(u)' /\ Neighbors(u)' = Neighbors(u)
      <3>1. \A u \in V : Neighbors(u) \subseteq V
        BY <1>2, GraphFacts DEF Neighbors, TypeOK
      <3> QED
        BY <1>1, <1>10, <3>1 DEF ColorsAround, Neighbors
    <2>2. ASSUME NEW jj \in V, item'[jj].pc = "scan"
          PROVE  /\ item'[jj].unread \subseteq Neighbors(vertexList[jj])
                 /\ item'[jj].forbidden \ {0} \subseteq ColorsAround(vertexList[jj])'
                 /\ 1 .. item'[jj].offset - 1 \subseteq ColorsAround(vertexList[jj])'
                 /\ item'[jj].offset = 0 => 0 \in item'[jj].forbidden
      <3>1. item'[jj] = item[jj] /\ item[jj].pc = "scan"
        BY <1>11, <2>2
      <3>2. /\ item[jj].unread \subseteq Neighbors(vertexList[jj])
            /\ item[jj].forbidden \ {0} \subseteq ColorsAround(vertexList[jj])
            /\ 1 .. item[jj].offset - 1 \subseteq ColorsAround(vertexList[jj])
            /\ item[jj].offset = 0 => 0 \in item[jj].forbidden
        BY <1>1, <1>2, <3>1 DEF GreedyFit
      <3>3. 0 \notin 1 .. item[jj].offset - 1
        OBVIOUS
      <3>4. PICK u \in V : u = vertexList[jj]
        BY <1>2 DEF ListInv
      <3>5. ColorsAround(u) \ {0} \subseteq ColorsAround(u)' /\ vertexList'[jj] = u
        BY <1>1, <2>1, <3>4
      <3>6. ColorsAround(vertexList[jj])' = ColorsAround(u)'
        BY <3>5
      <3> QED
        BY <3>1, <3>2, <3>3, <3>4, <3>5, <3>6
    <2>3. \A jj \in V : Neighbors(vertexList[jj])' = Neighbors(vertexList[jj])
      BY <1>1 DEF Neighbors
    <2> QED
      BY <1>1, <2>2, <2>3 DEF GreedyFit
  <1>16. FirstFitBound'
    <2>1. \A u \in V : Neighbors(u)' = Neighbors(u)
      BY <1>1 DEF Neighbors
    <2> QED
      BY <1>1, <1>2, <1>9, <1>10, <2>1 DEF FirstFitBound
  <1>17. ConflictLists' /\ SerialList' /\ CompleteAtEnd'
    BY <1>1 DEF ConflictLists, SerialList, CompleteAtEnd
  <1> QED
    BY <1>13, <1>14, <1>15, <1>16, <1>17 DEF LInv

LEMMA GreedyNextPassLists ==
  ASSUME SoundOptions, IInv, LInv, NEW ii \in V, GreedyNextPass(ii)
  PROVE  LInv'
  <1>1. /\ phase = "greedy" /\ item[ii].pc = "scan" /\ Window(ii) \subseteq item[ii].forbidden
        /\ item' = [item EXCEPT ![ii].offset = @ + FORBIDDEN_SIZE,
                                ![ii].unread = Neighbors(vertexList[ii]) \ item[ii].filtered,
                                ![ii].forbidden = {}]
        /\ UNCHANGED <<adj, opt, given, colors, vertexList, vertexListLength, recolorList,
                       recolorListLength, numUncolored, iter, next, numConflicts, phase>>
    BY DEF GreedyNextPass, input, lists, host
  <1>2. TypeOK /\ ListInv /\ WorkLists /\ GreedyLists /\ GreedyFit /\ FirstFitBound
    BY DEF IInv, LInv
  <1>3. PICK o \in Nat : o = item[ii].offset
    BY <1>2 DEF TypeOK, ItemType
  <1>4. /\ item'[ii].pc = "scan" /\ item'[ii].offset = o + FORBIDDEN_SIZE
        /\ item'[ii].unread = Neighbors(vertexList[ii]) \ item[ii].filtered
        /\ item'[ii].forbidden = {}
        /\ \A jj \in V : jj # ii => item'[jj] = item[jj]
    BY <1>1, <1>2, <1>3 DEF TypeOK, ItemType
  <1>5. \A jj \in V : item'[jj].pc = item[jj].pc
    BY <1>1, <1>4
  <1>6. WorkLists'
    BY <1>1, <1>2, <1>5 DEF WorkLists, Distinct
  <1>7. GreedyLists'
    BY <1>1, <1>2, <1>5 DEF GreedyLists, Uncolored
  <1>8. GreedyFit'
    <2>1. \A v \in V : ColorsAround(v)' = ColorsAround(v) /\ Neighbors(v)' = Neighbors(v)
      BY <1>1 DEF ColorsAround, Neighbors
    <2>2. \A jj \in V : vertexList[jj] \in V
      BY <1>2 DEF ListInv
    \* the colours of the window are colours of neighbours, but for 0
    <2>3. 1 .. (o + FORBIDDEN_SIZE) - 1 \subseteq ColorsAround(vertexList[ii]) /\ o + FORBIDDEN_SIZE # 0
      <3>1. FORBIDDEN_SIZE \in Nat /\ FORBIDDEN_SIZE > 0
        BY SizeAssumption
      <3>2. /\ item[ii].forbidden \ {0} \subseteq ColorsAround(vertexList[ii])
            /\ 1 .. o - 1 \subseteq ColorsAround(vertexList[ii])
        BY <1>1, <1>2, <1>3 DEF GreedyFit
      <3>3. \A d \in 1 .. (o + FORBIDDEN_SIZE) - 1 : d \in 1 .. o - 1 \/ (d \in Window(ii) /\ d # 0)
        BY <1>3, <3>1 DEF Window
      <3>4. o + FORBIDDEN_SIZE # 0
        BY <3>1
      <3> QED
        BY <1>1, <3>2, <3>3, <3>4
    <2>4. ASSUME NEW jj \in V, item'[jj].pc = "scan"
          PROVE  /\ item'[jj].unread \subseteq Neighbors(vertexList[jj])
                 /\ item'[jj].forbidden \ {0} \subseteq ColorsAround(vertexList[jj])
                 /\ 1 .. item'[jj].offset - 1 \subseteq ColorsAround(vertexList[jj])
                 /\ item'[jj].offset = 0 => 0 \in item'[jj].forbidden
      <3>1. CASE jj = ii
        BY <1>4, <2>3, <3>1
      <3>2. CASE jj # ii
        BY <1>1, <1>2, <1>4, <2>4, <3>2 DEF GreedyFit
      <3> QED
        BY <3>1, <3>2
    <2> QED
      BY <1>1, <2>1, <2>2, <2>4 DEF GreedyFit
  <1>9. ConflictLists' /\ SerialList' /\ CompleteAtEnd' /\ FirstFitBound'
    BY <1>1, <1>2 DEF ConflictLists, SerialList, CompleteAtEnd, FirstFitBound, Neighbors
  <1> QED
    BY <1>6, <1>7, <1>8, <1>9 DEF LInv

LEMMA GreedyFenceLists ==
  ASSUME SoundOptions, IInv, LInv, GreedyFence
  PROVE  LInv'
  <1>1. /\ phase = "greedy" /\ phase' = "conflict" /\ numConflicts' = 0 /\ item' = ConflictItems
        /\ \A ii \in V : item[ii].pc # "scan"
        /\ UNCHANGED <<adj, opt, given, colors, vertexList, vertexListLength, recolorList,
                       recolorListLength, next>>
    BY DEF GreedyFence, input, lists, host
  <1>2. TypeOK /\ ListInv /\ WorkLists /\ GreedyLists /\ FirstFitBound
    BY DEF IInv, LInv
  <1>3. Uncolored = {} /\ Uncolored' = {} /\ recolorListLength = 0 /\ next = 0
    <2>1. Uncolored = {} /\ recolorListLength = 0 /\ next = 0
      BY <1>1, <1>2 DEF GreedyLists
    <2> QED
      BY <1>1, <2>1 DEF Uncolored
  <1>4. \A ii \in V : item'[ii].pc \in {"scan", "clash"} => ii < vertexListLength
    BY <1>1 DEF ConflictItems, Idle
  <1>5. WorkLists'
    BY <1>1, <1>2, <1>4 DEF WorkLists, Distinct
  <1>6. ConflictLists'
    <2>1. \A ii \in V : Target(ii)' = Target(ii) /\ Target(ii) \in V
      BY <1>1, <1>2, ListFacts DEF Target
    <2>2. \A v \in V : colors[v] > 0
      BY <1>2, <1>3 DEF Uncolored, TypeOK
    <2>3. Entries(recolorList', recolorListLength') = {} /\ Distinct(recolorList', recolorListLength')
      <3>1. recolorListLength' = 0 /\ 0 .. 0 - 1 = {}
        BY <1>1, <1>3
      <3> QED
        BY <3>1 DEF Entries, Distinct
    <2> QED
      BY <1>1, <1>3, <2>1, <2>2, <2>3, FS_EmptySet DEF ConflictLists
  <1>7. GreedyLists' /\ GreedyFit' /\ SerialList' /\ CompleteAtEnd' /\ FirstFitBound'
    BY <1>1, <1>2 DEF GreedyLists, GreedyFit, SerialList, CompleteAtEnd, FirstFitBound, Neighbors
  <1> QED
    BY <1>5, <1>6, <1>7 DEF LInv

-----------------------------------------------------------------------------
(* The conflict kernel. *)

\* A read changes nothing but the place of its item.
LEMMA ConflictReadLists ==
  ASSUME SoundOptions, IInv, LInv, NEW ii \in V, ConflictPass(ii) \/ ConflictSeen(ii)
  PROVE  LInv'
  <1>1. /\ phase = "conflict" /\ item[ii].pc = "scan"
        /\ UNCHANGED <<adj, opt, given, colors, vertexList, vertexListLength, recolorList,
                       recolorListLength, numUncolored, iter, next, numConflicts, phase>>
    BY DEF ConflictPass, ConflictSeen, input, lists, host
  <1>2. TypeOK /\ ListInv /\ WorkLists /\ ConflictLists /\ FirstFitBound
    BY DEF IInv, LInv
  <1>3. \A jj \in V : item'[jj].pc \in {"scan", "clash"} => item[jj].pc \in {"scan", "clash"}
    <2>1. \A jj \in V : jj # ii => item'[jj] = item[jj]
      BY <1>2 DEF ConflictPass, ConflictSeen, TypeOK
    <2> QED
      BY <1>1, <2>1
  <1>4. WorkLists'
    BY <1>1, <1>2, <1>3 DEF WorkLists, Distinct
  <1>5. ConflictLists'
    <2>1. Uncolored' = Uncolored /\ \A jj \in V : Target(jj)' = Target(jj)
      BY <1>1 DEF Uncolored, Target
    <2> QED
      BY <1>1, <1>2, <1>3, <2>1 DEF ConflictLists, Entries, Distinct
  <1>6. GreedyLists' /\ GreedyFit' /\ SerialList' /\ CompleteAtEnd' /\ FirstFitBound'
    BY <1>1, <1>2 DEF GreedyLists, GreedyFit, SerialList, CompleteAtEnd, FirstFitBound, Neighbors
  <1> QED
    BY <1>4, <1>5, <1>6 DEF LInv

LEMMA UncolorLists ==
  ASSUME SoundOptions, IInv, LInv, NEW ii \in V, Uncolor(ii)
  PROVE  LInv'
  <1>1. /\ phase = "conflict" /\ item[ii].pc = "clash"
        /\ colors' = [colors EXCEPT ![Target(ii)] = 0]
        /\ Remember(ii)
        /\ numConflicts' = numConflicts + 1
        /\ item' = [item EXCEPT ![ii] = Idle]
        /\ UNCHANGED <<adj, opt, given, numUncolored, iter, next, phase>>
    BY DEF Uncolor, input, host
  <1>2. TypeOK /\ ListInv /\ WorkLists /\ ConflictLists /\ FirstFitBound
    BY DEF IInv, LInv
  <1>3. /\ opt.conflict_scheme \in {"ATOMIC", "NOCONFLICT"}
        /\ ii < vertexListLength /\ ii \in 0 .. vertexListLength - 1
    BY <1>1, <1>2, ListFacts DEF WorkLists
  <1>4. PICK v \in V : v = vertexList[ii] /\ v = Target(ii)
    BY <1>2, ListFacts
  <1>5. UNCHANGED <<vertexList, vertexListLength>>
    BY <1>1, <1>3 DEF Remember, lists
  <1>6. /\ colors'[v] = 0 /\ \A u \in V : u # v => colors'[u] = colors[u]
        /\ colors[v] > 0
    BY <1>1, <1>2, <1>4 DEF TypeOK, ConflictLists
  <1>7. v \notin Uncolored /\ Uncolored' = Uncolored \union {v}
    BY <1>6 DEF Uncolored
  <1>8. /\ item'[ii].pc = "end" /\ \A jj \in V : jj # ii => item'[jj] = item[jj]
        /\ \A jj \in V : Target(jj)' = Target(jj)
    BY <1>1, <1>2, <1>5 DEF TypeOK, Idle, Target
  <1>9. numConflicts' = Cardinality(Uncolored')
    <2>1. IsFiniteSet(Uncolored)
      <3>1. Uncolored \in SUBSET V
        BY DEF Uncolored
      <3> QED
        BY <3>1, VerticesAreFinite, FS_Subset
    <2> QED
      BY <1>1, <1>2, <1>7, <2>1, FS_AddElement DEF ConflictLists
  <1>10. /\ recolorListLength' \in 0 .. nv
         /\ opt.conflict_scheme = "NOCONFLICT" => recolorListLength' = recolorListLength
         /\ opt.conflict_scheme = "ATOMIC" =>
              /\ Distinct(recolorList', recolorListLength')
              /\ Entries(recolorList', recolorListLength') = Uncolored'
    <2>1. CASE opt.conflict_scheme = "NOCONFLICT"
      BY <1>1, <1>2, <2>1 DEF Remember, lists, WorkLists
    <2>2. CASE opt.conflict_scheme = "ATOMIC"
      <3>1. /\ recolorList' = [recolorList EXCEPT ![recolorListLength] = v]
            /\ recolorListLength' = recolorListLength + 1
        BY <1>1, <1>4, <2>2 DEF Remember
      <3>2. /\ nv \in Nat /\ recolorList \in [0 .. nv - 1 -> 0 .. nv - 1]
            /\ recolorListLength \in 0 .. nv /\ v \in 0 .. nv - 1
        BY <1>2, <1>4, SizeAssumption DEF ListInv, WorkLists, V
      <3>3. /\ Distinct(recolorList, recolorListLength) /\ v \notin Entries(recolorList, recolorListLength)
            /\ Entries(recolorList, recolorListLength) = Uncolored
        BY <1>1, <1>2, <1>7, <2>2 DEF ConflictLists
      <3>4. /\ [recolorList EXCEPT ![recolorListLength] = v] \in [0 .. nv - 1 -> 0 .. nv - 1]
            /\ recolorListLength + 1 \in 0 .. nv
            /\ Entries([recolorList EXCEPT ![recolorListLength] = v], recolorListLength + 1)
                 = Entries(recolorList, recolorListLength) \union {v}
            /\ Distinct([recolorList EXCEPT ![recolorListLength] = v], recolorListLength + 1)
        BY <3>2, <3>3, DistinctAppend
      <3> QED
        BY <1>7, <2>2, <3>1, <3>3, <3>4
    <2> QED
      BY <1>3, <2>1, <2>2
  <1>11. WorkLists'
    BY <1>1, <1>2, <1>5, <1>8, <1>10 DEF WorkLists, Distinct
  <1>12. ConflictLists'
    <2>1. \A jj \in V : item'[jj].pc \in {"scan", "clash"} => colors'[Target(jj)] > 0
      <3> SUFFICES ASSUME NEW jj \in V, item'[jj].pc \in {"scan", "clash"}
                   PROVE  colors'[Target(jj)] > 0
        OBVIOUS
      <3>1. jj # ii /\ item[jj].pc \in {"scan", "clash"}
        BY <1>8
      <3>2. jj < vertexListLength /\ Target(jj) = vertexList[jj] /\ Target(jj) \in V
        BY <1>2, <3>1, ListFacts DEF WorkLists
      <3>3. Target(jj) # v
        BY <1>2, <1>3, <1>4, <3>1, <3>2, ListFacts
      <3> QED
        BY <1>1, <1>2, <1>6, <3>1, <3>2, <3>3 DEF ConflictLists
    <2>2. Uncolored' \subseteq Entries(vertexList, vertexListLength)
      <3>1. v \in Entries(vertexList, vertexListLength)
        BY <1>3, <1>4 DEF Entries
      <3> QED
        BY <1>1, <1>2, <1>7, <3>1 DEF ConflictLists
    <2>3. Entries(vertexList, vertexListLength)' = Entries(vertexList, vertexListLength)
      BY <1>5 DEF Entries
    <2> QED
      BY <1>1, <1>2, <1>8, <1>9, <1>10, <2>1, <2>2, <2>3 DEF ConflictLists
  <1>13. FirstFitBound'
    <2>1. \A u \in V : Neighbors(u)' = Neighbors(u)
      BY <1>1 DEF Neighbors
    <2>2. 0 <= Cardinality(Neighbors(v)) + 1
      <3>1. Neighbors(v) \in SUBSET V
        BY <1>2, GraphFacts DEF Neighbors, TypeOK
      <3>2. Cardinality(Neighbors(v)) \in Nat
        BY <3>1, VerticesAreFinite, FS_Subset, FS_CardinalityType
      <3> QED
        BY <3>2
    <2> QED
      BY <1>1, <1>2, <1>6, <2>1, <2>2 DEF FirstFitBound
  <1>14. GreedyLists' /\ GreedyFit' /\ SerialList' /\ CompleteAtEnd'
    BY <1>1 DEF GreedyLists, GreedyFit, SerialList, CompleteAtEnd
  <1> QED
    BY <1>11, <1>12, <1>13, <1>14 DEF LInv

LEMMA ConflictFenceLists ==
  ASSUME SoundOptions, IInv, LInv, ConflictFence
  PROVE  LInv'
  <1>1. /\ phase = "conflict"
        /\ phase' = IF ~LastIteration THEN "greedy"
                    ELSE IF numConflicts > 0 THEN "serial" ELSE "done"
        /\ item' = IF LastIteration THEN [ii \in V |-> Idle]
                   ELSE GreedyItems(adj, opt, colors, vertexList', vertexListLength')
        /\ UNCHANGED <<adj, opt, given, colors, numConflicts, next>>
    BY DEF ConflictFence, input
  <1>2. TypeOK /\ ListInv /\ WorkLists /\ ConflictLists /\ FirstFitBound
    BY DEF IInv, LInv
  <1>3. TypeOK' /\ ListInv'
    BY ConflictFencePreserves DEF IInv
  <1>4. opt.conflict_scheme \in {"ATOMIC", "NOCONFLICT"} /\ ~Compacts
    BY <1>2, ListFacts DEF Compacts
  <1>5. SwapLists(recolorList)
    BY <1>4 DEF ConflictFence
  <1>6. /\ Uncolored \subseteq Entries(vertexList, vertexListLength)
        /\ numConflicts = Cardinality(Uncolored)
        /\ opt.conflict_scheme = "ATOMIC" =>
             Distinct(recolorList, recolorListLength) /\ Entries(recolorList, recolorListLength) = Uncolored
    BY <1>1, <1>2 DEF ConflictLists
  <1>7. Uncolored' = Uncolored
    BY <1>1 DEF Uncolored
  <1>8. FirstFitBound'
    <2>1. \A u \in V : Neighbors(u)' = Neighbors(u)
      BY <1>1 DEF Neighbors
    <2> QED
      BY <1>1, <1>2, <2>1 DEF FirstFitBound
  <1>9. ConflictLists'
    BY <1>1 DEF ConflictLists
  <1>10. ASSUME ~LastIteration, vertexListLength' \in 0 .. nv, recolorListLength' = 0,
                Uncolored \subseteq Entries(vertexList', vertexListLength')
         PROVE  /\ \A ii \in V : item'[ii].pc \in {"scan", "clash"} => ii < vertexListLength'
                /\ GreedyLists' /\ GreedyFit'
    <2>1. item' = GreedyItems(adj, opt, colors, vertexList', vertexListLength')
      BY <1>1, <1>10
    <2>2. /\ adj \in Graphs /\ opt \in Options /\ colors \in [V -> Nat] /\ vertexList' \in [V -> V]
          /\ {v \in V : colors[v] = 0} \subseteq Entries(vertexList', vertexListLength')
      BY <1>2, <1>3, <1>10 DEF TypeOK, ListInv, Uncolored
    <2>3. /\ \A ii \in V : item'[ii].pc \in {"scan", "clash"} => ii < vertexListLength'
          /\ \A ii \in V : item'[ii].pc = "scan" =>
                             /\ colors[vertexList'[ii]] = 0
                             /\ item'[ii].unread = adj[vertexList'[ii]] \ {vertexList'[ii]}
                             /\ item'[ii].forbidden \ {0} = {}
                             /\ 1 .. item'[ii].offset - 1 = {}
                             /\ item'[ii].offset = 0 => 0 \in item'[ii].forbidden
          /\ \A v \in V : colors[v] = 0 => \E ii \in V : item'[ii].pc = "scan" /\ vertexList'[ii] = v
      BY <1>10, <2>1, <2>2, LaunchedLists
    <2>4. next' = 0
      BY <1>1, <1>2 DEF ConflictLists
    <2>5. GreedyLists'
      BY <1>1, <1>10, <2>3, <2>4 DEF GreedyLists, Uncolored
    <2>6. GreedyFit'
      BY <1>1, <2>3 DEF GreedyFit, Neighbors
    <2> QED
      BY <2>3, <2>5, <2>6
  <1>11. Uncolored = {} <=> numConflicts = 0
    <2>1. IsFiniteSet(Uncolored)
      <3>1. Uncolored \in SUBSET V
        BY DEF Uncolored
      <3> QED
        BY <3>1, VerticesAreFinite, FS_Subset
    <2> QED
      BY <1>6, <2>1, FS_EmptySet
  \* the recolour list becomes the work list
  <1>12. CASE opt.conflict_scheme = "ATOMIC" /\ ~opt.serial /\ iter + 1 < opt.max_num_iterations
    <2>1. /\ vertexList' = recolorList /\ vertexListLength' = numConflicts /\ recolorListLength' = 0
      BY <1>5, <1>12 DEF SwapLists, swap_work_arrays
    <2>2. recolorListLength \in Nat /\ recolorListLength \in 0 .. nv
      BY <1>2, SizeAssumption DEF WorkLists
    <2>3. numConflicts = recolorListLength
      BY <1>6, <1>12, <2>2, DistinctSize
    <2>4. /\ vertexListLength' \in 0 .. nv /\ recolorListLength' \in 0 .. nv
          /\ Distinct(vertexList', vertexListLength')
          /\ Entries(vertexList', vertexListLength') = Uncolored
      BY <1>6, <1>12, <2>1, <2>2, <2>3, SizeAssumption
    <2>5. CASE LastIteration
      <3>1. numConflicts = 0
        BY <1>12, <2>5 DEF LastIteration
      <3>2. Uncolored = {} /\ phase' = "done"
        BY <1>1, <1>11, <2>5, <3>1
      <3>3. WorkLists'
        BY <1>1, <1>12, <2>4, <2>5 DEF WorkLists, Idle
      <3> QED
        BY <1>7, <1>8, <1>9, <3>2, <3>3 DEF LInv, GreedyLists, GreedyFit, SerialList, CompleteAtEnd
    <2>6. CASE ~LastIteration
      <3>1. phase' = "greedy"
        BY <1>1, <2>6
      <3>2. /\ \A ii \in V : item'[ii].pc \in {"scan", "clash"} => ii < vertexListLength'
            /\ GreedyLists' /\ GreedyFit'
        BY <1>10, <2>1, <2>4, <2>6
      <3>3. WorkLists'
        BY <1>1, <1>12, <2>4, <3>2 DEF WorkLists
      <3> QED
        BY <1>8, <1>9, <3>1, <3>2, <3>3 DEF LInv, SerialList, CompleteAtEnd
    <2> QED
      BY <2>5, <2>6
  <1>13. CASE ~ (opt.conflict_scheme = "ATOMIC" /\ ~opt.serial /\ iter + 1 < opt.max_num_iterations)
    <2>1. UNCHANGED <<vertexList, vertexListLength, recolorListLength>>
      BY <1>4, <1>5, <1>13 DEF SwapLists, swap_work_arrays
    <2>2. Entries(vertexList, vertexListLength)' = Entries(vertexList, vertexListLength)
      BY <2>1 DEF Entries
    <2>3. CASE LastIteration
      <3>1. WorkLists'
        BY <1>1, <1>2, <2>1, <2>3 DEF WorkLists, Idle, Distinct
      <3>2. CASE numConflicts > 0
        <4>1. phase' = "serial" /\ next' = 0
          BY <1>1, <1>2, <2>3, <3>2 DEF ConflictLists
        <4>2. SerialList'
          BY <1>6, <1>7, <2>1, <4>1 DEF SerialList, Entries
        <4> QED
          BY <1>8, <1>9, <3>1, <4>1, <4>2 DEF LInv, GreedyLists, GreedyFit, CompleteAtEnd
      <3>3. CASE ~ (numConflicts > 0)
        <4>1. phase' = "done" /\ Uncolored = {}
          BY <1>1, <1>2, <1>11, <2>3, <3>3 DEF TypeOK
        <4> QED
          BY <1>7, <1>8, <1>9, <3>1, <4>1 DEF LInv, GreedyLists, GreedyFit, SerialList, CompleteAtEnd
      <3> QED
        BY <3>2, <3>3
    <2>4. CASE ~LastIteration
      <3>1. opt.conflict_scheme = "NOCONFLICT" /\ phase' = "greedy"
        BY <1>1, <1>4, <1>13, <2>4 DEF LastIteration
      <3>2. /\ vertexListLength' \in 0 .. nv /\ recolorListLength' = 0
            /\ Uncolored \subseteq Entries(vertexList', vertexListLength')
        BY <1>2, <1>6, <2>1, <3>1 DEF WorkLists
      <3>3. /\ \A ii \in V : item'[ii].pc \in {"scan", "clash"} => ii < vertexListLength'
            /\ GreedyLists' /\ GreedyFit'
        BY <1>10, <2>4, <3>2
      <3>4. WorkLists'
        BY <1>1, <1>2, <2>1, <3>2, <3>3 DEF WorkLists, Distinct
      <3> QED
        BY <1>8, <1>9, <3>1, <3>3, <3>4 DEF LInv, SerialList, CompleteAtEnd
    <2> QED
      BY <2>3, <2>4
  <1> QED
    BY <1>12, <1>13

-----------------------------------------------------------------------------
(* The serial loop, and all steps together. *)

LEMMA SerialStepLists ==
  ASSUME SoundOptions, IInv, LInv, SerialStep
  PROVE  LInv'
  <1>1. /\ phase = "serial" /\ next < SerialEnd /\ next' = next + 1
        /\ IF colors[Target(next)] > 0 THEN UNCHANGED colors ELSE SerialColor(Target(next))
        /\ UNCHANGED <<adj, opt, given, vertexList, vertexListLength, recolorList,
                       recolorListLength, numUncolored, iter, numConflicts, phase, item>>
    BY DEF SerialStep, input, lists
  <1>2. TypeOK /\ ListInv /\ WorkLists /\ SerialList
    BY <1>1 DEF IInv, LInv
  <1>3. next \in Nat /\ next \in V /\ next \in next .. vertexListLength - 1
    <2>1. SerialEnd = vertexListLength /\ vertexListLength \in 0 .. nv /\ nv \in Nat /\ next \in Nat
      BY <1>2, SizeAssumption DEF SerialEnd, ListInv, WorkLists, TypeOK
    <2> QED
      BY <1>1, <2>1 DEF V
  <1>4. PICK v \in V : v = vertexList[next] /\ v = Target(next)
    BY <1>2, <1>3, ListFacts
  <1>5. /\ \A u \in V : u # v => colors'[u] = colors[u]
        /\ colors'[v] # 0
    <2>1. CASE colors[v] > 0
      BY <1>1, <1>2, <1>4, <2>1 DEF TypeOK
    <2>2. CASE ~ (colors[v] > 0)
      <3>1. PICK c \in 1 .. MaxColor : colors' = [colors EXCEPT ![v] = c]
        BY <1>1, <1>4, <2>2 DEF SerialColor
      <3> QED
        BY <1>2, <3>1, SizeAssumption DEF TypeOK
    <2> QED
      BY <2>1, <2>2
  <1>6. SerialList'
    <2>1. ASSUME NEW u \in V, colors'[u] = 0
          PROVE  \E k \in next + 1 .. vertexListLength - 1 : vertexList[k] = u
      <3>1. u # v /\ u \in Uncolored
        BY <1>5, <2>1 DEF Uncolored
      <3>2. PICK k \in next .. vertexListLength - 1 : vertexList[k] = u
        BY <1>1, <1>2, <3>1 DEF SerialList
      <3>3. k # next /\ vertexListLength \in Nat
        BY <1>2, <1>4, <3>1, <3>2 DEF TypeOK
      <3>4. k \in next + 1 .. vertexListLength - 1
        BY <1>3, <3>2, <3>3
      <3> QED
        BY <3>2, <3>4
    <2> QED
      BY <1>1, <2>1 DEF SerialList, Uncolored
  <1>7. WorkLists'
    BY <1>1, <1>2 DEF WorkLists, Distinct
  <1>8. GreedyLists' /\ GreedyFit' /\ ConflictLists' /\ CompleteAtEnd' /\ FirstFitBound'
    BY <1>1 DEF GreedyLists, GreedyFit, ConflictLists, CompleteAtEnd, FirstFitBound
  <1> QED
    BY <1>6, <1>7, <1>8 DEF LInv

LEMMA SerialDoneLists ==
  ASSUME SoundOptions, IInv, LInv, SerialDone
  PROVE  LInv'
  <1>1. /\ phase = "serial" /\ phase' = "done" /\ next >= SerialEnd
        /\ UNCHANGED <<adj, opt, given, colors, vertexList, vertexListLength, recolorList,
                       recolorListLength, item>>
    BY DEF SerialDone, input, lists
  <1>2. TypeOK /\ ListInv /\ WorkLists /\ SerialList
    BY DEF IInv, LInv
  <1>3. next .. vertexListLength - 1 = {}
    <2>1. SerialEnd = vertexListLength /\ vertexListLength \in Nat /\ next \in Nat
      BY <1>2 DEF SerialEnd, ListInv, TypeOK
    <2> QED
      BY <1>1, <2>1
  <1>4. CompleteAtEnd'
    BY <1>1, <1>2, <1>3 DEF SerialList, CompleteAtEnd, Uncolored
  <1>5. WorkLists'
    BY <1>1, <1>2 DEF WorkLists, Distinct
  <1>6. GreedyLists' /\ GreedyFit' /\ ConflictLists' /\ SerialList' /\ FirstFitBound'
    BY <1>1 DEF GreedyLists, GreedyFit, ConflictLists, SerialList, FirstFitBound
  <1> QED
    BY <1>4, <1>5, <1>6 DEF LInv

LEMMA StutterLists ==
  ASSUME LInv, UNCHANGED vars
  PROVE  LInv'
  <1>1. UNCHANGED <<adj, opt, given, colors, vertexList, vertexListLength, recolorList,
                    recolorListLength, numUncolored, numConflicts, iter, phase, item, next>>
    BY DEF vars
  <1>2. WorkLists' /\ SerialList' /\ CompleteAtEnd' /\ FirstFitBound'
    BY <1>1 DEF LInv, WorkLists, Distinct, SerialList, CompleteAtEnd, FirstFitBound, Uncolored, Neighbors
  <1>3. GreedyLists' /\ GreedyFit'
    BY <1>1 DEF LInv, GreedyLists, GreedyFit, Uncolored, Neighbors, ColorsAround
  <1>4. ConflictLists'
    BY <1>1 DEF LInv, ConflictLists, Uncolored, Target, Distinct, Entries
  <1> QED
    BY <1>2, <1>3, <1>4 DEF LInv

\* The work lists are in order in every run of sound options.
THEOREM ListsInductive == SoundOptions => (Spec => [](IInv /\ LInv))
  <1> SUFFICES ASSUME SoundOptions PROVE Spec => [](IInv /\ LInv)
    OBVIOUS
  <1>1. Init => IInv /\ LInv
    BY InitEstablishes, InitLists
  <1>2. (IInv /\ LInv) /\ [Next]_vars => (IInv /\ LInv)'
    <2> SUFFICES ASSUME IInv, LInv, [Next]_vars PROVE IInv' /\ LInv'
      OBVIOUS
    <2>1. IInv'
      BY NextPreserves
    <2>2. ASSUME NEW ii \in V, ItemStep(ii) PROVE LInv'
      BY <2>2, GreedyReadLists, GreedyColorLists, GreedyNextPassLists, ConflictReadLists,
         UncolorLists DEF ItemStep
    <2>3. CASE HostStep
      BY <2>1, <2>3, GreedyFenceLists, ConflictFenceLists, SerialStepLists, SerialDoneLists DEF HostStep
    <2>4. CASE UNCHANGED vars
      BY <2>1, <2>4, StutterLists
    <2> QED
      BY <2>1, <2>2, <2>3, <2>4 DEF Next, Terminated
  <1> QED
    BY <1>1, <1>2, PTL DEF Spec

\* The work lists never outgrow their arrays, and hold vertices only, although
\* the items append to them without a test of the bound (lines 532-595).
THEOREM ListsStayInBounds == SoundOptions => (Spec => []ListsInBounds)
  <1>1. IInv /\ LInv => ListsInBounds
    <2> SUFFICES ASSUME IInv, LInv PROVE ListsInBounds
      OBVIOUS
    <2>1. WorkLists /\ \A k \in V : vertexList[k] \in V
      BY DEF IInv, LInv, ListInv
    <2>2. \A k \in 0 .. vertexListLength - 1 : k \in V
      BY <2>1, SizeAssumption DEF WorkLists, V
    <2> QED
      BY <2>1, <2>2 DEF ListsInBounds, WorkLists
  <1> QED
    BY <1>1, ListsInductive, PTL

\* However the appends race, every vertex without a colour is on the list that
\* the next kernel goes through, and the count that ends the loop is theirs.
THEOREM NoVertexIsLost == SoundOptions => (Spec => []NoVertexLost)
  <1>1. IInv /\ LInv => NoVertexLost
    <2> SUFFICES ASSUME IInv, LInv PROVE NoVertexLost
      OBVIOUS
    <2>1. phase = "greedy" => Uncolored \subseteq Listed
      <3> SUFFICES ASSUME phase = "greedy", NEW v \in Uncolored PROVE v \in Listed
        OBVIOUS
      <3>1. PICK ii \in V : item[ii].pc = "scan" /\ vertexList[ii] = v
        BY DEF LInv, GreedyLists
      <3>2. ii \in 0 .. vertexListLength - 1
        BY <3>1, SizeAssumption DEF LInv, WorkLists, V
      <3> QED
        BY <3>1, <3>2 DEF Listed
    <2> QED
      BY <2>1 DEF NoVertexLost, LInv, SerialList, ConflictLists
  <1> QED
    BY <1>1, ListsInductive, PTL

\* Every vertex has a colour when color_graph returns.
THEOREM ColoringIsComplete == SoundOptions => (Spec => []CompleteAtEnd)
  <1>1. IInv /\ LInv => CompleteAtEnd
    BY DEF LInv
  <1> QED
    BY <1>1, ListsInductive, PTL

\* First fit under races: a vertex gets a colour of at most its degree plus one,
\* so that the passes over its row find one (lines 440-530).
THEOREM ColorsFitDegrees == SoundOptions => (Spec => []FirstFitBound)
  <1>1. IInv /\ LInv => FirstFitBound
    BY DEF LInv
  <1> QED
    BY <1>1, ListsInductive, PTL

-----------------------------------------------------------------------------
(***************************************************************************)
(* Progress.  W is the set of the vertices that the iteration colours, or  *)
(* more of them; m is the highest, which keeps the colour that it gets.    *)
(***************************************************************************)
KeepsOne(W, m) ==
  /\ Cardinality(W) <= numUncolored
  /\ colors[m] > 0 /\ \A w \in W : w <= m
  /\ Uncolored \subseteq W
  /\ \A u, v \in V : Clash(u, v) => u \in W /\ v \in W
  /\ \A ii \in V : item[ii].pc = "clash" => Target(ii) \in W \ {m}

ShrinkInv ==
  /\ phase = "greedy" =>
       \E W \in SUBSET V : /\ W # {} /\ Cardinality(W) <= numUncolored
                           /\ \A v \in V : Fresh(v) => v \in W
  /\ phase = "conflict" => \E W \in SUBSET V : \E m \in W : KeepsOne(W, m)

LEMMA InitShrinks == Init => ShrinkInv
  <1> SUFFICES ASSUME Init PROVE ShrinkInv
    OBVIOUS
  <1>1. numUncolored = nv /\ phase # "conflict"
    BY DEF Init
  <1>2. V # {} /\ Cardinality(V) = nv
    <2>1. 0 \in Int /\ nv - 1 \in Int /\ nv \in Nat \ {0}
      BY SizeAssumption
    <2>2. Cardinality(0 .. nv - 1) = nv
      BY <2>1, FS_Interval
    <2> QED
      BY <2>1, <2>2 DEF V
  <1>3. Cardinality(V) <= numUncolored
    BY <1>1, <1>2, SizeAssumption
  <1> QED
    BY <1>1, <1>2, <1>3 DEF ShrinkInv

LEMMA GreedyStepShrinks ==
  ASSUME IInv, ShrinkInv, NEW ii \in V, GreedyRead(ii) \/ GreedyColor(ii) \/ GreedyNextPass(ii)
  PROVE  ShrinkInv'
  <1>1. phase = "greedy" /\ phase' = "greedy" /\ UNCHANGED <<numUncolored, vertexList>>
        /\ item[ii].pc = "scan"
    BY DEF GreedyRead, GreedyColor, GreedyNextPass, lists, host
  <1>2. item \in [V -> ItemType]
    BY DEF IInv, TypeOK
  <1>3. \A jj \in V : jj # ii => item'[jj] = item[jj]
    BY <1>2 DEF GreedyRead, GreedyColor, GreedyNextPass
  <1>4. \A v \in V : Fresh(v)' => Fresh(v)
    BY <1>1, <1>3 DEF Fresh
  <1>5. PICK W \in SUBSET V : /\ W # {} /\ Cardinality(W) <= numUncolored
                              /\ \A v \in V : Fresh(v) => v \in W
    BY <1>1 DEF ShrinkInv
  <1> QED
    BY <1>1, <1>4, <1>5 DEF ShrinkInv

LEMMA GreedyFenceShrinks ==
  ASSUME SoundOptions, IInv, LInv, ShrinkInv, GreedyFence
  PROVE  ShrinkInv'
  <1>1. /\ phase = "greedy" /\ phase' = "conflict" /\ item' = ConflictItems
        /\ \A ii \in V : item[ii].pc # "scan"
        /\ UNCHANGED <<adj, opt, colors, vertexList, vertexListLength, numUncolored>>
    BY DEF GreedyFence, input, lists, host
  <1>2. PICK W \in SUBSET V : /\ W # {} /\ Cardinality(W) <= numUncolored
                              /\ \A v \in V : Fresh(v) => v \in W
    BY <1>1 DEF ShrinkInv
  <1>3. Uncolored = {}
    BY <1>1 DEF LInv, GreedyLists
  <1>4. PICK m \in W : \A w \in W : w <= m
    <2>1. W \in SUBSET (0 .. nv) /\ nv \in Nat
      BY SizeAssumption DEF V
    <2> QED
      BY <1>2, <2>1, GreatestOf
  <1>5. colors[m] > 0
    BY <1>3 DEF Uncolored, IInv, TypeOK
  <1>6. \A u, v \in V : Clash(u, v) => u \in W /\ v \in W
    BY <1>1, <1>2 DEF IInv, GreedyClash
  <1>7. \A ii \in V : item'[ii].pc # "clash"
    BY <1>1, LaunchConflict DEF IInv
  <1>8. KeepsOne(W, m)'
    BY <1>1, <1>2, <1>3, <1>4, <1>5, <1>6, <1>7 DEF KeepsOne, Clash, Uncolored
  <1> QED
    BY <1>1, <1>8 DEF ShrinkInv

LEMMA ConflictReadShrinks ==
  ASSUME SoundOptions, IInv, LInv, ShrinkInv, NEW ii \in V, ConflictPass(ii) \/ ConflictSeen(ii)
  PROVE  ShrinkInv'
  <1>1. /\ phase = "conflict" /\ phase' = "conflict" /\ item[ii].pc = "scan"
        /\ UNCHANGED <<adj, opt, colors, vertexList, numUncolored>>
    BY DEF ConflictPass, ConflictSeen, input, lists, host
  <1>2. item \in [V -> ItemType] /\ adj \in Graphs /\ colors \in [V -> Nat]
    BY DEF IInv, TypeOK
  <1>3. PICK W \in SUBSET V : \E m \in W : KeepsOne(W, m)
    BY <1>1 DEF ShrinkInv
  <1>m. PICK m \in W : KeepsOne(W, m)
    BY <1>3
  <1>4. \A jj \in V : jj # ii => item'[jj] = item[jj]
    BY <1>2 DEF ConflictPass, ConflictSeen
  <1>5. item'[ii].pc = "clash" => Target(ii) \in W \ {m}
    <2>1. CASE ConflictPass(ii)
      <3>1. item'[ii].pc = "scan"
        BY <1>1, <1>2, <2>1 DEF ConflictPass
      <3> QED
        BY <3>1
    <2>2. CASE ConflictSeen(ii)
      <3>1. PICK k \in item[ii].unread : colors[k] = colors[Target(ii)]
        BY <2>2 DEF ConflictSeen
      <3>2. Target(ii) \in V /\ k \in HigherNeighbors(Target(ii)) /\ colors[Target(ii)] > 0
        BY <1>1, <3>1, ListFacts DEF IInv, LInv, ConflictInv, ConflictLists
      <3>3. PICK t \in V : t = Target(ii)
        BY <3>2
      <3>4. k \in V /\ t \in Nat /\ k \in Nat /\ t < k /\ k \in adj[t]
        BY <1>2, <3>2, <3>3, GraphFacts, VerticesAreFinite DEF HigherNeighbors
      <3>5. Clash(t, k)
        BY <3>1, <3>2, <3>3, <3>4 DEF Clash
      <3>6. t \in W /\ k \in W /\ k <= m
        BY <1>m, <3>4, <3>5 DEF KeepsOne
      <3> QED
        BY <3>3, <3>4, <3>6
    <2> QED
      BY <2>1, <2>2
  <1>6. \A jj \in V : Target(jj)' = Target(jj)
    BY <1>1 DEF Target
  <1>7. KeepsOne(W, m)'
    <2>1. \A jj \in V : item'[jj].pc = "clash" => Target(jj)' \in W \ {m}
      BY <1>m, <1>4, <1>5, <1>6 DEF KeepsOne
    <2> QED
      BY <1>m, <1>1, <2>1 DEF KeepsOne, Clash, Uncolored
  <1> QED
    BY <1>1, <1>7 DEF ShrinkInv

LEMMA UncolorShrinks ==
  ASSUME SoundOptions, IInv, LInv, ShrinkInv, NEW ii \in V, Uncolor(ii)
  PROVE  ShrinkInv'
  <1>1. /\ phase = "conflict" /\ phase' = "conflict" /\ item[ii].pc = "clash"
        /\ colors' = [colors EXCEPT ![Target(ii)] = 0]
        /\ Remember(ii)
        /\ item' = [item EXCEPT ![ii] = Idle]
        /\ UNCHANGED <<adj, opt, numUncolored>>
    BY DEF Uncolor, input, host
  <1>2. item \in [V -> ItemType] /\ colors \in [V -> Nat] /\ TypeOK /\ ListInv /\ WorkLists
    BY DEF IInv, LInv, TypeOK
  <1>3. PICK t \in V : t = Target(ii)
    BY <1>2, ListFacts
  <1>4. PICK W \in SUBSET V : \E m \in W : KeepsOne(W, m)
    BY <1>1 DEF ShrinkInv
  <1>m. PICK m \in W : KeepsOne(W, m)
    BY <1>4
  <1>5. t \in W /\ t # m
    BY <1>m, <1>1, <1>3 DEF KeepsOne
  <1>6. colors'[t] = 0 /\ \A u \in V : u # t => colors'[u] = colors[u]
    BY <1>1, <1>2, <1>3
  <1>7. opt.conflict_scheme \in {"ATOMIC", "NOCONFLICT"}
    BY <1>2, ListFacts
  <1>8. UNCHANGED vertexList
    BY <1>1, <1>7 DEF Remember, lists
  <1>9. \A jj \in V : item'[jj].pc = "clash" => Target(jj)' \in W \ {m}
    <2>1. item'[ii].pc = "end" /\ \A jj \in V : jj # ii => item'[jj] = item[jj]
      BY <1>1, <1>2 DEF Idle
    <2>2. \A jj \in V : Target(jj)' = Target(jj)
      BY <1>1, <1>8 DEF Target
    <2> QED
      BY <1>m, <2>1, <2>2 DEF KeepsOne
  <1>10. \A u, v \in V : Clash(u, v)' => Clash(u, v)
    BY <1>1, <1>2, <1>6 DEF Clash
  <1>11. Uncolored' \subseteq Uncolored \union {t}
    BY <1>6 DEF Uncolored
  <1>12. KeepsOne(W, m)'
    BY <1>m, <1>1, <1>5, <1>6, <1>9, <1>10, <1>11 DEF KeepsOne
  <1> QED
    BY <1>1, <1>12 DEF ShrinkInv

\* The vertices without a colour are fewer than those of the iteration.
LEMMA FewerUncolored ==
  ASSUME IInv, LInv, ShrinkInv, phase = "conflict"
  PROVE  numConflicts < numUncolored
  <1>1. PICK W \in SUBSET V : \E m \in W : KeepsOne(W, m)
    BY DEF ShrinkInv
  <1>m. PICK m \in W : KeepsOne(W, m)
    BY <1>1
  <1>2. numConflicts = Cardinality(Uncolored) /\ numUncolored \in Nat
    BY DEF LInv, ConflictLists, IInv, TypeOK
  <1>3. Uncolored \in SUBSET (W \ {m})
    BY <1>m DEF KeepsOne, Uncolored, IInv, TypeOK
  <1>4. IsFiniteSet(W)
    BY VerticesAreFinite, FS_Subset
  <1>5. IsFiniteSet(W \ {m}) /\ Cardinality(W \ {m}) = Cardinality(W) - 1
    BY <1>4, FS_RemoveElement
  <1>6. Cardinality(Uncolored) <= Cardinality(W \ {m})
    BY <1>3, <1>5, FS_Subset
  <1>7. Cardinality(W) \in Nat /\ Cardinality(Uncolored) \in Nat
    BY <1>3, <1>4, <1>5, FS_Subset, FS_CardinalityType
  <1> QED
    BY <1>m, <1>2, <1>5, <1>6, <1>7 DEF KeepsOne

LEMMA ConflictFenceShrinks ==
  ASSUME SoundOptions, IInv, LInv, ShrinkInv, ConflictFence
  PROVE  ShrinkInv'
  <1>1. /\ phase = "conflict" /\ phase' # "conflict"
        /\ phase' = "greedy" => numConflicts # 0
        /\ phase' = "greedy" => item' = GreedyItems(adj, opt, colors, vertexList', vertexListLength')
        /\ numUncolored' = numConflicts /\ UNCHANGED <<adj, opt, colors>>
    BY DEF ConflictFence, LastIteration, input
  <1>2. TypeOK /\ TypeOK' /\ ListInv'
    BY ConflictFencePreserves DEF IInv
  <1>3. LInv'
    BY ConflictFenceLists
  <1>4. numConflicts = Cardinality(Uncolored) /\ Uncolored \in SUBSET V
    BY <1>1 DEF LInv, ConflictLists, Uncolored
  <1>5. ASSUME phase' = "greedy"
        PROVE  Uncolored # {} /\ \A v \in V : Fresh(v)' => v \in Uncolored
    <2>1. Uncolored # {}
      BY <1>1, <1>4, <1>5, FS_EmptySet
    <2>2. \A ii \in V : item'[ii].pc # "colored"
      <3>1. PICK list \in [V -> V], len \in Nat : list = vertexList' /\ len = vertexListLength'
        BY <1>2 DEF TypeOK, ListInv
      <3>2. item' = GreedyItems(adj, opt, colors, list, len)
        BY <1>1, <1>5, <3>1
      <3>3. adj \in Graphs /\ opt \in Options /\ colors \in [V -> Nat]
        BY <1>2 DEF TypeOK
      <3>4. \A ii \in V : GreedyItems(adj, opt, colors, list, len)[ii].pc \in {"scan", "end"}
        BY <3>3, Launch
      <3> QED
        BY <3>2, <3>4
    <2>3. ASSUME NEW v \in V, Fresh(v)' PROVE v \in Uncolored
      <3>1. PICK ii \in V : item'[ii].pc = "scan" /\ vertexList'[ii] = v
        BY <2>2, <2>3 DEF Fresh
      <3>2. colors'[v] = 0
        BY <1>3, <1>5, <3>1 DEF LInv, GreedyLists
      <3> QED
        BY <1>1, <3>2 DEF Uncolored
    <2> QED
      BY <2>1, <2>3
  <1>6. phase' = "greedy" => Cardinality(Uncolored) <= numUncolored'
    <2>1. Cardinality(Uncolored) \in Nat
      BY <1>4, VerticesAreFinite, FS_Subset, FS_CardinalityType
    <2> QED
      BY <1>1, <1>4, <2>1
  <1> QED
    BY <1>1, <1>4, <1>5, <1>6 DEF ShrinkInv

LEMMA StutterShrinks ==
  ASSUME ShrinkInv, UNCHANGED vars
  PROVE  ShrinkInv'
  <1>1. UNCHANGED <<adj, opt, colors, vertexList, numUncolored, phase, item>>
    BY DEF vars
  <1>2. /\ \A v \in V : Fresh(v)' <=> Fresh(v)
        /\ \A u, v \in V : Clash(u, v)' <=> Clash(u, v)
        /\ \A ii \in V : Target(ii)' = Target(ii)
        /\ Uncolored' = Uncolored
    BY <1>1 DEF Fresh, Clash, Target, Uncolored
  <1>3. CASE phase = "greedy"
    BY <1>1, <1>2, <1>3 DEF ShrinkInv
  <1>4. CASE phase = "conflict"
    <2>1. PICK W \in SUBSET V : \E m \in W : KeepsOne(W, m)
      BY <1>4 DEF ShrinkInv
    <2>m. PICK m \in W : KeepsOne(W, m)
      BY <2>1
    <2>2. KeepsOne(W, m)'
      BY <1>1, <1>2, <2>m DEF KeepsOne
    <2> QED
      BY <1>1, <1>4, <2>2 DEF ShrinkInv
  <1> QED
    BY <1>1, <1>3, <1>4 DEF ShrinkInv

\* Every iteration leaves fewer vertices without a colour than the one before, so
\* that the loop over the iterations ends whatever its limit is: the highest
\* vertex that an iteration colours keeps its colour (lines 354-395, 1245-1275).
THEOREM EachIterationShrinks == SoundOptions => (Spec => IterationsShrink)
  <1> SUFFICES ASSUME SoundOptions PROVE Spec => IterationsShrink
    OBVIOUS
  <1>1. Init => ShrinkInv
    BY InitShrinks
  <1>2. (IInv /\ LInv) /\ ShrinkInv /\ [Next]_vars => ShrinkInv'
    <2> SUFFICES ASSUME IInv, LInv, ShrinkInv, [Next]_vars PROVE ShrinkInv'
      OBVIOUS
    <2>1. ASSUME NEW ii \in V, ItemStep(ii) PROVE ShrinkInv'
      BY <2>1, GreedyStepShrinks, ConflictReadShrinks, UncolorShrinks DEF ItemStep
    <2>2. CASE HostStep
      <3>1. CASE SerialStep \/ SerialDone
        BY <3>1 DEF SerialStep, SerialDone, ShrinkInv
      <3> QED
        BY <2>2, <3>1, GreedyFenceShrinks, ConflictFenceShrinks DEF HostStep
    <2>3. CASE UNCHANGED vars
      BY <2>3, StutterShrinks
    <2> QED
      BY <2>1, <2>2, <2>3 DEF Next, Terminated
  <1>3. (IInv /\ LInv) /\ ShrinkInv /\ [Next]_vars
          => [ConflictFence => numUncolored' < numUncolored]_vars
    <2> SUFFICES ASSUME IInv, LInv, ShrinkInv, ConflictFence
                 PROVE  numUncolored' < numUncolored
      OBVIOUS
    <2>1. phase = "conflict" /\ numUncolored' = numConflicts
      BY DEF ConflictFence
    <2> QED
      BY <2>1, FewerUncolored
  <1> QED
    BY <1>1, <1>2, <1>3, ListsInductive, PTL DEF Spec, IterationsShrink

=============================================================================

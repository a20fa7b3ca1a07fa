------------------------ MODULE D1ColoringEB_proofs ------------------------
(***************************************************************************)
(* For every graph, every width of the words and every interleaving of the *)
(* items: an edge that is dropped is safe for good, and the edge based     *)
(* colouring is proper when the loop ends.                                 *)
(***************************************************************************)
EXTENDS D1ColoringEB, FiniteSetTheorems, WellFoundedInduction, TLAPS

\* Nobody takes the colour of v away in this kernel: no item that ends in v has
\* found or can still find the same colour at its source.
Quiet(v) ==
  \A e \in edges :
    Dst(e) = v =>
      /\ pc[e] # "clear"
      /\ color_set[Src(e)] = color_set[v] =>
           /\ pc[e] = "src" => kokcolors[Src(e)] # kokcolors[v]
           /\ pc[e] = "dst" => loc[e].src # kokcolors[v]

\* The end u of a dropped edge has its colour for good, and v stays away from it.
SafeFrom(u, v) ==
  /\ kokcolors[u] > 0 /\ Quiet(u)
  /\ \/ color_set[v] > color_set[u]
     \/ /\ color_set[v] = color_set[u] /\ kokcolors[u] \in color_ban[v]
        /\ kokcolors[v] # kokcolors[u]
     \/ kokcolors[v] > 0 /\ Quiet(v) /\ ~ SameColor(u, v)

\* A vertex without a colour that has bans still has an edge.
Remembered ==
  \A v \in V : kokcolors[v] = 0 /\ color_ban[v] # {} =>
    \E e \in marker : Dst(e) = v /\ color_set[Src(e)] = color_set[v]

MarkInv ==
  /\ \A v \in V : kokcolors[v] >= 0
  /\ \A e \in edges : pc[e] \in {"src", "dst", "clear", "out"} /\ (e \notin work => pc[e] = "out")
  /\ \A e \in edges : pc[e] = "dst" => kokcolors[Src(e)] \in {0, loc[e].src}
  /\ \A e \in edges : pc[e] = "clear" => e \in marker /\ color_set[Src(e)] = color_set[Dst(e)]
  /\ \A e \in work : pc[e] = "out" /\ kokcolors[Src(e)] > 0 => ~ SameColor(Src(e), Dst(e))
  /\ \A e \in edges \ marker : SafeFrom(Src(e), Dst(e)) \/ SafeFrom(Dst(e), Src(e))
  /\ Remembered

\* Between the conflicts of one round and the colours of the next, every colour
\* that is not tentative is final.
NoClash == \A e \in edges : kokcolors[Src(e)] > 0 => ~ SameColor(Src(e), Dst(e))

\* an edge that is kept has no colour at its ends, or one in a later word
KeptBy(strict) ==
  \A e \in marker :
    /\ ~ (kokcolors[Src(e)] > 0 /\ kokcolors[Dst(e)] > 0)
    /\ kokcolors[Src(e)] > 0 => /\ color_set[Dst(e)] <= color_set[Src(e)]
                                /\ strict => color_set[Dst(e)] # color_set[Src(e)]
    /\ kokcolors[Dst(e)] > 0 => /\ color_set[Src(e)] <= color_set[Dst(e)]
                                /\ strict => color_set[Src(e)] # color_set[Dst(e)]

TentativeAllowed == \A v \in V : kokcolors[v] < 0 => - kokcolors[v] \notin color_ban[v]

\* the items of expand_ban change only ends without a colour, to allowed colours
ExpandItems ==
  \A e \in edges :
    /\ pc[e] \in {"dst", "src", "banDst", "banSrc", "rechoose", "storeDst", "choose",
                  "storeSrc", "send", "out"}
    /\ pc[e] \notin {"dst", "out"} => kokcolors[Dst(e)] <= 0
    /\ pc[e] \notin {"dst", "src", "out"} => kokcolors[Src(e)] <= 0
    /\ pc[e] \in {"banDst", "rechoose", "storeDst"} => loc[e].src < 0
    /\ pc[e] = "src" => loc[e].dst <= 0
    /\ pc[e] = "banSrc" => loc[e].dst < 0
    /\ pc[e] = "storeDst" => loc[e].new \notin color_ban[Dst(e)]
    /\ pc[e] = "storeSrc" => loc[e].new \notin color_ban[Src(e)]

RoundInv ==
  /\ NoClash
  /\ DroppedEdgesAreSafe
  /\ ph \in {"count", "shrink", "ban", "final"} => \A v \in V : kokcolors[v] >= 0
  /\ ph \in {"count", "shrink"} => Remembered
  /\ ph \in {"shrink", "ban"} => KeptBy(FALSE)
  /\ ph \in {"expand", "choose"} => KeptBy(TRUE) /\ TentativeAllowed
  /\ ph = "expand" => ExpandItems
  /\ ph = "final" => marker = {} /\ \A v \in V : kokcolors[v] = 0 => color_ban[v] = {}

IInv ==
  /\ TypeOK
  /\ ph = "mark" => MarkInv
  /\ ph \notin {"mark", "done"} => RoundInv
  /\ ProperAtEnd
-----------------------------------------------------------------------------
\* There is a first colour in every set of colours.
LEMMA FirstOf ==
  ASSUME NEW S \in SUBSET Nat, S # {}
  PROVE  \E b \in S : \A c \in S : b <= c
  <1> DEFINE R == OpToRel(<, Nat)
  <1>1. \E b \in S : \A c \in S : ~ (<<c, b>> \in R)
    <2>1. IsWellFoundedOn(R, Nat)
      BY NatLessThanWellFounded
    <2> HIDE DEF R
    <2> QED
      BY <2>1, WFMin
  <1>2. \A b, c \in Nat : <<c, b>> \in R <=> c < b
    BY DEF OpToRel
  <1> HIDE DEF R
  <1>3. PICK b \in S : \A c \in S : ~ (<<c, b>> \in R)
    BY <1>1
  <1>4. \A c \in S : b \in Nat /\ c \in Nat /\ ~ (c < b)
    BY <1>2, <1>3
  <1> QED
    BY <1>4

LEMMA FirstFreeFact ==
  ASSUME NEW banned
  PROVE  FirstFree(banned) = 0 \/ FirstFree(banned) \in Bits \ banned
  <1>1. Bits \ banned \in SUBSET Nat
    BY SizeAssumption DEF Bits
  <1>2. CASE Bits \subseteq banned
    BY <1>2 DEF FirstFree
  <1>3. CASE ~ (Bits \subseteq banned)
    <2>1. \E b \in Bits \ banned : \A c \in Bits \ banned : b <= c
      BY <1>1, <1>3, FirstOf
    <2> QED
      BY <2>1, <1>3 DEF FirstFree
  <1> QED
    BY <1>2, <1>3

LEMMA EdgeFacts ==
  ASSUME edges = EdgesOf(adj)
  PROVE  \A e \in edges : Src(e) \in V /\ Dst(e) \in V /\ Src(e) # Dst(e) /\ e = <<Src(e), Dst(e)>>
  <1> SUFFICES ASSUME NEW e \in edges
               PROVE  Src(e) \in V /\ Dst(e) \in V /\ Src(e) # Dst(e) /\ e = <<Src(e), Dst(e)>>
    OBVIOUS
  <1>1. e \in V \X V /\ e[1] < e[2]
    BY DEF EdgesOf, Src, Dst
  <1>2. e[1] \in V /\ e[2] \in V /\ e = <<e[1], e[2]>>
    BY <1>1
  <1>3. e[1] # e[2]
    <2>1. e[1] \in Nat /\ e[2] \in Nat
      BY <1>2, VertexAssumption
    <2>2. \A a, b \in Nat : a < b => a # b
      OBVIOUS
    <2> QED
      BY <1>1, <2>1, <2>2
  <1> QED
    BY <1>2, <1>3 DEF Src, Dst

LEMMA FiniteEdges ==
  ASSUME edges = EdgesOf(adj)
  PROVE  IsFiniteSet(edges)
  <1>1. IsFiniteSet(V \X V)
    BY VertexAssumption, FS_Product
  <1>2. edges \subseteq V \X V
    BY DEF EdgesOf
  <1> QED
    BY <1>1, <1>2, FS_Subset

\* A colour is determined by its bit and its word.
LEMMA ColorsOfWords ==
  ASSUME NEW B \in Nat, NEW j \in 1 .. B, NEW k \in 1 .. B, NEW s \in Nat, NEW t \in Nat,
         j + s * B = k + t * B
  PROVE  j = k /\ s = t
  <1>1. ASSUME NEW x \in Nat, NEW y \in Nat, x < y  PROVE y * B >= x * B + B
    <2>1. PICK d \in Nat : y = x + 1 + d
      <3>1. y - x - 1 \in Nat /\ y = x + 1 + (y - x - 1)
        BY <1>1
      <3> QED
        BY <3>1
    <2>2. y * B = x * B + B + d * B
      BY <2>1
    <2>3. d * B \in Nat /\ x * B \in Nat
      OBVIOUS
    <2> QED
      BY <2>2, <2>3
  <1>2. s * B \in Nat /\ t * B \in Nat
    OBVIOUS
  <1>3. ~ (s < t)
    <2>1. SUFFICES ASSUME s < t PROVE FALSE
      OBVIOUS
    <2>2. t * B >= s * B + B
      BY <2>1, <1>1
    <2> QED
      BY <2>2, <1>2
  <1>4. ~ (t < s)
    <2>1. SUFFICES ASSUME t < s PROVE FALSE
      OBVIOUS
    <2>2. s * B >= t * B + B
      BY <2>1, <1>1
    <2> QED
      BY <2>2, <1>2
  <1>5. s = t
    BY <1>3, <1>4
  <1> QED
    BY <1>5, <1>2

-----------------------------------------------------------------------------
LEMMA InitOK == Init => IInv
  <1> SUFFICES ASSUME Init PROVE IInv
    OBVIOUS
  <1> USE DEF Init
  <1>1. PICK p \in Problems :
          /\ adj = p.adj /\ ps_min = p.ps_min /\ pps_cutoff = p.pps_cutoff
          /\ edges = EdgesOf(p.adj)
          /\ kokcolors = [v \in V |-> IF p.colors[v] > 0 THEN 1 + ((p.colors[v] - 1) % ColorSize) ELSE 0]
          /\ color_set = [v \in V |-> IF p.colors[v] > 0 THEN (p.colors[v] - 1) \div ColorSize ELSE 0]
    OBVIOUS
  <1>2. /\ adj \in [V -> SUBSET V] /\ p.colors \in [V -> Nat] /\ ps_min \in Nat /\ pps_cutoff \in Nat
    BY <1>1, ProblemAssumption
  <1>3. ASSUME NEW c \in Nat, c > 0
        PROVE  1 + ((c - 1) % ColorSize) \in 0 .. ColorSize /\ (c - 1) \div ColorSize \in Nat
    BY <1>3, SizeAssumption
  <1>4. kokcolors \in [V -> 0 .. ColorSize] /\ color_set \in [V -> Nat]
    <2>1. \A v \in V : kokcolors[v] \in 0 .. ColorSize /\ color_set[v] \in Nat
      BY <1>1, <1>2, <1>3, SizeAssumption
    <2> QED
      BY <1>1, <2>1
  <1>5. TypeOK
    <2>1. kokcolors \in [V -> Int] /\ kokcolors \in [V -> - ColorSize .. ColorSize]
      BY <1>4, SizeAssumption
    <2>2. loc \in [edges -> [src : - ColorSize .. ColorSize, dst : - ColorSize .. ColorSize, new : {0} \union Bits]]
      BY SizeAssumption DEF Nothing, Bits
    <2> QED
      BY <1>1, <1>2, <1>4, <2>1, <2>2 DEF TypeOK
  <1>6. MarkInv
    <2>1. \A v \in V : kokcolors[v] >= 0
      BY <1>4, SizeAssumption
    <2>2. Remembered
      BY DEF Remembered
    <2> QED
      BY <2>1, <2>2 DEF MarkInv
  <1> QED
    BY <1>5, <1>6 DEF IInv, ProperAtEnd

-----------------------------------------------------------------------------
(* The items of mark_conflicts. *)

LEMMA LoadSourceStep ==
  ASSUME IInv, NEW x \in edges, LoadSource(x)
  PROVE  IInv'
  <1> USE DEF LoadSource, At, Goto, problem, bans
  <1>1. TypeOK /\ MarkInv
    BY DEF IInv
  <1>2. \A e \in edges : Src(e) \in V /\ Dst(e) \in V /\ Src(e) # Dst(e)
    BY <1>1, EdgeFacts DEF TypeOK
  <1>3. TypeOK'
    BY <1>1, <1>2 DEF TypeOK
  <1>4. /\ \A e \in edges : e # x => pc'[e] = pc[e] /\ loc'[e] = loc[e]
        /\ pc[x] = "src" /\ pc'[x] = "dst" /\ loc'[x].src = kokcolors[Src(x)]
    BY <1>1 DEF TypeOK
  <1>5. \A v \in V : Quiet(v) => Quiet(v)'
    BY <1>2, <1>4 DEF Quiet
  <1>6. \A u, v \in V : SafeFrom(u, v) => SafeFrom(u, v)'
    BY <1>5 DEF SafeFrom, SameColor
  <1>7. MarkInv'
    <2>1. \A e \in edges : pc'[e] \in {"src", "dst", "clear", "out"} /\ (e \notin work => pc'[e] = "out")
      BY <1>1, <1>4 DEF MarkInv
    <2>2. \A e \in edges : pc'[e] = "dst" => kokcolors[Src(e)] \in {0, loc'[e].src}
      BY <1>1, <1>4 DEF MarkInv
    <2>3. \A e \in edges \ marker : SafeFrom(Src(e), Dst(e))' \/ SafeFrom(Dst(e), Src(e))'
      BY <1>1, <1>2, <1>6 DEF MarkInv
    <2>4. Remembered'
      BY <1>1 DEF MarkInv, Remembered
    <2> QED
      BY <1>1, <1>4, <2>1, <2>2, <2>3, <2>4 DEF MarkInv, SameColor, TypeOK
  <1> QED
    BY <1>3, <1>7 DEF IInv, ProperAtEnd

LEMMA LoadDestStep ==
  ASSUME IInv, NEW x \in edges, LoadDest(x)
  PROVE  IInv'
  <1> USE DEF LoadDest, At, Goto, problem, bans
  <1>1. TypeOK /\ MarkInv
    BY DEF IInv
  <1>2. \A e \in edges : Src(e) \in V /\ Dst(e) \in V /\ Src(e) # Dst(e)
    BY <1>1, EdgeFacts DEF TypeOK
  <1> DEFINE clash == /\ loc[x].src # 0 /\ loc[x].src = kokcolors[Dst(x)]
                      /\ color_set[Src(x)] = color_set[Dst(x)]
  <1>3. TypeOK'
    BY <1>1, <1>2 DEF TypeOK
  <1>4. /\ \A e \in edges : e # x => pc'[e] = pc[e] /\ loc'[e] = loc[e]
        /\ pc[x] = "dst" /\ pc'[x] = IF clash THEN "clear" ELSE "out"
    BY <1>1 DEF TypeOK
  <1>5. \A v \in V : Quiet(v) => Quiet(v)'
    BY <1>2, <1>4 DEF Quiet
  <1>6. \A u, v \in V : SafeFrom(u, v) => SafeFrom(u, v)'
    BY <1>5 DEF SafeFrom, SameColor
  <1>7. clash => x \in marker
    <2>1. SUFFICES ASSUME clash, x \notin marker PROVE FALSE
      OBVIOUS
    <2>2. ~ Quiet(Dst(x))
      BY <1>4, <2>1 DEF Quiet
    <2>3. SafeFrom(Src(x), Dst(x))
      BY <1>1, <2>1, <2>2 DEF MarkInv, SafeFrom
    <2>4. kokcolors[Src(x)] = loc[x].src
      BY <1>1, <1>4, <2>3, <1>2 DEF MarkInv, SafeFrom
    <2> QED
      BY <1>1, <1>2, <2>1, <2>2, <2>3, <2>4 DEF SafeFrom, TypeOK
  <1>8. MarkInv'
    <2>1. \A e \in edges : pc'[e] \in {"src", "dst", "clear", "out"} /\ (e \notin work => pc'[e] = "out")
      BY <1>1, <1>4 DEF MarkInv
    <2>2. \A e \in edges : pc'[e] = "dst" => kokcolors[Src(e)] \in {0, loc'[e].src}
      BY <1>1, <1>4 DEF MarkInv
    <2>3. \A e \in edges \ marker : SafeFrom(Src(e), Dst(e))' \/ SafeFrom(Dst(e), Src(e))'
      BY <1>1, <1>2, <1>6 DEF MarkInv
    <2>4. Remembered'
      BY <1>1 DEF MarkInv, Remembered
    <2>5. \A e \in edges : pc'[e] = "clear" => e \in marker /\ color_set[Src(e)] = color_set[Dst(e)]
      BY <1>1, <1>4, <1>7 DEF MarkInv
    <2>6. kokcolors[Src(x)] > 0 /\ pc'[x] = "out" => ~ SameColor(Src(x), Dst(x))
      BY <1>1, <1>2, <1>4 DEF MarkInv, SameColor, TypeOK
    <2>7. \A e \in work : pc'[e] = "out" /\ kokcolors[Src(e)] > 0 => ~ SameColor(Src(e), Dst(e))
      BY <1>1, <1>4, <2>6 DEF MarkInv, TypeOK
    <2> QED
      BY <1>1, <2>1, <2>2, <2>3, <2>4, <2>5, <2>7 DEF MarkInv, SameColor, TypeOK
  <1> QED
    BY <1>3, <1>8 DEF IInv, ProperAtEnd

LEMMA ClearDestStep ==
  ASSUME IInv, NEW x \in edges, ClearDest(x)
  PROVE  IInv'
  <1> USE DEF ClearDest, At, Goto, problem, bans
  <1>1. TypeOK /\ MarkInv
    BY DEF IInv
  <1>2. \A e \in edges : Src(e) \in V /\ Dst(e) \in V /\ Src(e) # Dst(e)
    BY <1>1, EdgeFacts DEF TypeOK
  <1>3. TypeOK'
    BY <1>1, <1>2, SizeAssumption DEF TypeOK
  <1>4. /\ \A e \in edges : e # x => pc'[e] = pc[e]
        /\ pc[x] = "clear" /\ pc'[x] = "out"
        /\ \A v \in V : kokcolors'[v] = IF v = Dst(x) THEN 0 ELSE kokcolors[v]
    BY <1>1 DEF TypeOK
  <1>5. ~ Quiet(Dst(x))
    BY <1>4 DEF Quiet
  <1>6. \A v \in V : Quiet(v) /\ kokcolors[v] > 0 => Quiet(v)' /\ kokcolors'[v] = kokcolors[v]
    BY <1>1, <1>2, <1>4, <1>5 DEF Quiet, TypeOK
  <1>7. \A u, v \in V : SafeFrom(u, v) => SafeFrom(u, v)'
    <2> SUFFICES ASSUME NEW u \in V, NEW v \in V, SafeFrom(u, v) PROVE SafeFrom(u, v)'
      OBVIOUS
    <2>1. kokcolors'[u] = kokcolors[u] /\ kokcolors[u] > 0 /\ Quiet(u)'
      BY <1>6 DEF SafeFrom
    <2>2. CASE kokcolors[v] > 0 /\ Quiet(v) /\ ~ SameColor(u, v)
      BY <1>6, <2>1, <2>2 DEF SafeFrom, SameColor
    <2>3. CASE color_set[v] > color_set[u]
      BY <2>1, <2>3 DEF SafeFrom
    <2>4. CASE /\ color_set[v] = color_set[u] /\ kokcolors[u] \in color_ban[v]
               /\ kokcolors[v] # kokcolors[u]
      <3>1. kokcolors'[v] # kokcolors'[u]
        BY <1>1, <1>4, <2>1, <2>4 DEF TypeOK
      <3> QED
        BY <2>1, <2>4, <3>1 DEF SafeFrom
    <2> QED
      BY <2>2, <2>3, <2>4 DEF SafeFrom
  <1>8. MarkInv'
    <2>1. \A e \in edges : pc'[e] \in {"src", "dst", "clear", "out"} /\ (e \notin work => pc'[e] = "out")
      BY <1>1, <1>4 DEF MarkInv
    <2>2. \A e \in edges : pc'[e] = "dst" => kokcolors'[Src(e)] \in {0, loc[e].src}
      BY <1>1, <1>2, <1>4 DEF MarkInv
    <2>3. \A e \in edges \ marker : SafeFrom(Src(e), Dst(e))' \/ SafeFrom(Dst(e), Src(e))'
      BY <1>1, <1>2, <1>7 DEF MarkInv
    <2>4. Remembered'
      BY <1>1, <1>2, <1>4 DEF MarkInv, Remembered, TypeOK
    <2>5. \A e \in edges : pc'[e] = "clear" => e \in marker /\ color_set[Src(e)] = color_set[Dst(e)]
      BY <1>1, <1>4 DEF MarkInv
    <2>6. \A e \in work : pc'[e] = "out" /\ kokcolors'[Src(e)] > 0
                           => ~ (kokcolors'[Src(e)] = kokcolors'[Dst(e)] /\ color_set[Src(e)] = color_set[Dst(e)])
      BY <1>1, <1>2, <1>4 DEF MarkInv, SameColor, TypeOK
    <2>7. \A v \in V : kokcolors'[v] >= 0
      BY <1>1, <1>4 DEF MarkInv
    <2> QED
      BY <2>1, <2>2, <2>3, <2>4, <2>5, <2>6, <2>7 DEF MarkInv, SameColor
  <1> QED
    BY <1>3, <1>8 DEF IInv, ProperAtEnd

\* In the conflict kernel as well a dropped edge is safe.
LEMMA SafeMeans ==
  ASSUME TypeOK, MarkInv
  PROVE  \A e \in edges \ marker :
           \/ kokcolors[Src(e)] > 0 /\ kokcolors[Dst(e)] > 0 /\ ~ SameColor(Src(e), Dst(e))
           \/ Barred(Src(e), Dst(e))
           \/ Barred(Dst(e), Src(e))
  <1>1. \A u, v \in V : SafeFrom(u, v) => \/ kokcolors[v] > 0 /\ kokcolors[u] > 0 /\ ~ SameColor(u, v)
                                          \/ Barred(u, v)
    <2> SUFFICES ASSUME NEW u \in V, NEW v \in V, SafeFrom(u, v)
                 PROVE  \/ kokcolors[v] > 0 /\ kokcolors[u] > 0 /\ ~ SameColor(u, v)
                        \/ Barred(u, v)
      OBVIOUS
    <2>1. kokcolors[u] > 0 /\ kokcolors[v] >= 0 /\ kokcolors[u] \in Int /\ kokcolors[v] \in Int
          /\ color_set[u] \in Nat /\ color_set[v] \in Nat
      BY DEF MarkInv, SafeFrom, TypeOK
    <2>2. CASE kokcolors[v] > 0
      BY <2>1, <2>2 DEF SafeFrom, SameColor
    <2>3. CASE kokcolors[v] = 0
      BY <2>1, <2>3 DEF SafeFrom, Barred
    <2> QED
      BY <2>1, <2>2, <2>3
  <1>2. \A u, v \in V : SameColor(u, v) <=> SameColor(v, u)
    BY DEF SameColor
  <1> QED
    <2>1. \A e \in edges : Src(e) \in V /\ Dst(e) \in V
      BY EdgeFacts DEF TypeOK
    <2> QED
      BY <1>1, <1>2, <2>1 DEF MarkInv

LEMMA MarkedStep ==
  ASSUME IInv, Marked
  PROVE  IInv'
  <1> USE DEF Marked, problem, bans, items
  <1>1. TypeOK /\ MarkInv
    BY DEF IInv
  <1>2. \A e \in edges : Src(e) \in V /\ Dst(e) \in V /\ Src(e) # Dst(e)
    BY <1>1, EdgeFacts DEF TypeOK
  <1>3. TypeOK'
    BY <1>1 DEF TypeOK
  <1>4. \A e \in edges \ marker :
          \/ kokcolors[Src(e)] > 0 /\ kokcolors[Dst(e)] > 0 /\ ~ SameColor(Src(e), Dst(e))
          \/ Barred(Src(e), Dst(e))
          \/ Barred(Dst(e), Src(e))
    BY <1>1, SafeMeans
  <1>5. NoClash
    <2> SUFFICES ASSUME NEW e \in edges, kokcolors[Src(e)] > 0, SameColor(Src(e), Dst(e)) PROVE FALSE
      BY DEF NoClash
    <2>1. e \notin work
      BY <1>1 DEF MarkInv, AllOut
    <2>2. e \in edges \ marker
      BY <1>1, <2>1 DEF TypeOK
    <2>3. kokcolors[Dst(e)] > 0
      BY DEF SameColor
    <2> QED
      BY <1>1, <1>2, <1>4, <2>2, <2>3 DEF Barred, TypeOK
  <1>6. RoundInv'
    BY <1>1, <1>4, <1>5 DEF RoundInv, MarkInv, NoClash, DroppedEdgesAreSafe, Barred, SameColor, Remembered
  <1> QED
    BY <1>3, <1>6 DEF IInv, ProperAtEnd
-----------------------------------------------------------------------------
(* The host between two colourings. *)

LEMMA CountConflictsStep ==
  ASSUME IInv, CountConflicts
  PROVE  IInv'
  <1> USE DEF CountConflicts, problem, bans, items
  <1> DEFINE colored(v) == kokcolors[v] # 0
             done(e) == \/ colored(Src(e)) /\ colored(Dst(e))
                        \/ colored(Src(e)) /\ color_set[Dst(e)] > color_set[Src(e)]
                        \/ colored(Dst(e)) /\ color_set[Src(e)] > color_set[Dst(e)]
  <1>1. TypeOK /\ RoundInv
    BY DEF IInv
  <1>2. \A e \in edges : Src(e) \in V /\ Dst(e) \in V
    BY <1>1, EdgeFacts DEF TypeOK
  <1>3. \A v \in V : kokcolors[v] \in Nat /\ color_set[v] \in Nat
    BY <1>1 DEF RoundInv, TypeOK
  <1>4. marker' = marker \ {e \in work : done(e)}
    OBVIOUS
  <1>5. TypeOK'
    BY <1>1 DEF TypeOK
  <1>6. ASSUME NEW e \in edges \ marker'
        PROVE  \/ kokcolors[Src(e)] > 0 /\ kokcolors[Dst(e)] > 0 /\ ~ SameColor(Src(e), Dst(e))
               \/ Barred(Src(e), Dst(e))
               \/ Barred(Dst(e), Src(e))
    <2>1. CASE e \notin marker
      BY <1>1, <2>1 DEF RoundInv, DroppedEdgesAreSafe
    <2>2. CASE done(e)
      BY <1>1, <1>2, <1>3, <2>2 DEF RoundInv, NoClash, Barred
    <2> QED
      BY <1>4, <2>1, <2>2
  <1>7. ASSUME NEW e \in marker'
        PROVE  ~ done(e) /\ e \in edges
    BY <1>1, <1>4 DEF TypeOK
  <1>8. KeptBy(FALSE)'
    BY <1>2, <1>3, <1>7 DEF KeptBy
  <1>9. Remembered'
    <2> SUFFICES ASSUME NEW v \in V, kokcolors[v] = 0, color_ban[v] # {}
                 PROVE  \E e \in marker' : Dst(e) = v /\ color_set[Src(e)] = color_set[v]
      BY DEF Remembered
    <2>1. PICK e \in marker : Dst(e) = v /\ color_set[Src(e)] = color_set[v]
      BY <1>1 DEF RoundInv, Remembered
    <2>2. ~ done(e)
      BY <1>1, <1>2, <1>3, <2>1 DEF TypeOK
    <2> QED
      BY <1>4, <2>1, <2>2
  <1> HIDE DEF done, colored
  <1>10. RoundInv'
    BY <1>1, <1>6, <1>8, <1>9 DEF RoundInv, NoClash, DroppedEdgesAreSafe, Barred, SameColor
  <1> QED
    BY <1>5, <1>10 DEF IInv, ProperAtEnd

LEMMA ShrinkWorklistStep ==
  ASSUME IInv, ShrinkWorklist
  PROVE  IInv'
  <1> USE DEF ShrinkWorklist, problem, bans, items
  <1>1. TypeOK /\ RoundInv
    BY DEF IInv
  <1>2. TypeOK'
    BY <1>1 DEF TypeOK
  <1>3. CASE ph' = "final"
    <2>1. Cardinality(work) = Cardinality(work \ marker) /\ marker \subseteq work
      BY <1>1, <1>3 DEF TypeOK
    <2>2. IsFiniteSet(work)
      BY <1>1, FiniteEdges, FS_Subset DEF TypeOK
    <2>3. work \ marker = work
      BY <2>1, <2>2, FS_Subset
    <2>4. marker = {}
      BY <2>1, <2>3
    <2>5. RoundInv'
      BY <1>1, <1>3, <2>4 DEF RoundInv, NoClash, DroppedEdgesAreSafe, Barred, SameColor, Remembered
    <2> QED
      BY <1>2, <1>3, <2>5 DEF IInv, ProperAtEnd
  <1>4. CASE ph' = "ban"
    <2>1. RoundInv'
      BY <1>1, <1>4 DEF RoundInv, NoClash, DroppedEdgesAreSafe, Barred, SameColor, KeptBy
    <2> QED
      BY <1>2, <1>4, <2>1 DEF IInv, ProperAtEnd
  <1> QED
    BY <1>3, <1>4

LEMMA BanColorsStep ==
  ASSUME IInv, BanColors
  PROVE  IInv'
  <1> USE DEF BanColors, problem, Launch
  <1> DEFINE half == {e \in work : /\ color_set[Src(e)] = color_set[Dst(e)]
                                   /\ (kokcolors[Src(e)] = 0) # (kokcolors[Dst(e)] = 0)}
             sent(v) == {kokcolors[u] : u \in {u \in V : <<u, v>> \in half \/ <<v, u>> \in half}}
  <1>1. TypeOK /\ RoundInv
    BY DEF IInv
  <1>2. \A e \in edges : Src(e) \in V /\ Dst(e) \in V /\ e = <<Src(e), Dst(e)>>
    BY <1>1, EdgeFacts DEF TypeOK
  <1>3. \A v \in V : kokcolors[v] \in 0 .. ColorSize /\ color_set[v] \in Nat
    BY <1>1, SizeAssumption DEF RoundInv, TypeOK
  <1>4. marker' = marker \ half
    OBVIOUS
  <1>5. color_ban' = [v \in V |-> IF kokcolors[v] = 0 THEN color_ban[v] \union sent(v) ELSE color_ban[v]]
    OBVIOUS
  <1>6. \A e \in half : /\ e \in edges /\ color_set[Src(e)] = color_set[Dst(e)]
                        /\ \/ kokcolors[Src(e)] = 0 /\ kokcolors[Dst(e)] > 0
                           \/ kokcolors[Src(e)] > 0 /\ kokcolors[Dst(e)] = 0
    BY <1>1, <1>2, <1>3, SizeAssumption DEF TypeOK
  <1>7. \A v \in V : kokcolors[v] = 0 => sent(v) \subseteq Bits
    <2> SUFFICES ASSUME NEW v \in V, kokcolors[v] = 0, NEW u \in V, <<u, v>> \in half \/ <<v, u>> \in half
                 PROVE  kokcolors[u] \in Bits
      BY Zenon
    <2>1. kokcolors[u] # 0
      BY <1>6 DEF Src, Dst
    <2> QED
      BY <1>3, <2>1, SizeAssumption DEF Bits
  <1>8. \A e \in half : /\ kokcolors[Dst(e)] = 0 => kokcolors[Src(e)] \in sent(Dst(e))
                        /\ kokcolors[Src(e)] = 0 => kokcolors[Dst(e)] \in sent(Src(e))
    BY <1>2, <1>6, Zenon
  <1> HIDE DEF half, sent
  <1>9. TypeOK'
    <2>1. color_ban' \in [V -> SUBSET Bits]
      BY <1>1, <1>5, <1>7 DEF TypeOK
    <2>2. pc' \in [edges -> {"src", "dst", "clear", "banDst", "banSrc", "rechoose", "storeDst",
                             "choose", "storeSrc", "send", "out"}]
      OBVIOUS
    <2> QED
      BY <1>1, <1>4, <2>1, <2>2 DEF TypeOK
  <1>10. ASSUME NEW u \in V, NEW v \in V, Barred(u, v)
         PROVE  Barred(u, v)'
    BY <1>3, <1>5, <1>10 DEF Barred
  <1>11. DroppedEdgesAreSafe'
    <2> SUFFICES ASSUME NEW e \in edges \ marker'
                 PROVE  \/ kokcolors[Src(e)] > 0 /\ kokcolors[Dst(e)] > 0 /\ ~ SameColor(Src(e), Dst(e))
                        \/ Barred(Src(e), Dst(e))'
                        \/ Barred(Dst(e), Src(e))'
      BY DEF DroppedEdgesAreSafe, SameColor
    <2>1. CASE e \notin marker
      BY <1>1, <1>2, <1>10, <2>1 DEF RoundInv, DroppedEdgesAreSafe
    <2>2. CASE e \in half
      <3>1. CASE kokcolors[Dst(e)] = 0
        <4>1. kokcolors[Src(e)] \in color_ban'[Dst(e)] /\ kokcolors[Src(e)] > 0
          BY <1>2, <1>5, <1>6, <1>8, <2>2, <3>1
        <4> QED
          BY <1>3, <1>6, <2>2, <3>1, <4>1 DEF Barred
      <3>2. CASE kokcolors[Src(e)] = 0
        <4>1. kokcolors[Dst(e)] \in color_ban'[Src(e)] /\ kokcolors[Dst(e)] > 0
          BY <1>2, <1>5, <1>6, <1>8, <2>2, <3>2
        <4> QED
          BY <1>3, <1>6, <2>2, <3>2, <4>1 DEF Barred
      <3> QED
        BY <1>6, <2>2, <3>1, <3>2
    <2> QED
      BY <1>4, <2>1, <2>2
  <1>12. KeptBy(TRUE)'
    <2> SUFFICES ASSUME NEW e \in marker'
                 PROVE  /\ ~ (kokcolors[Src(e)] > 0 /\ kokcolors[Dst(e)] > 0)
                        /\ kokcolors[Src(e)] > 0 => /\ color_set[Dst(e)] <= color_set[Src(e)]
                                                    /\ color_set[Dst(e)] # color_set[Src(e)]
                        /\ kokcolors[Dst(e)] > 0 => /\ color_set[Src(e)] <= color_set[Dst(e)]
                                                    /\ color_set[Src(e)] # color_set[Dst(e)]
      BY DEF KeptBy
    <2>1. e \in marker /\ e \in edges /\ e \in work /\ e \notin half
      BY <1>1, <1>4 DEF TypeOK
    <2>2. ~ (/\ color_set[Src(e)] = color_set[Dst(e)]
             /\ (kokcolors[Src(e)] = 0) # (kokcolors[Dst(e)] = 0))
      BY <2>1 DEF half
    <2> QED
      BY <1>1, <1>2, <1>3, <2>1, <2>2 DEF RoundInv, KeptBy
  <1>13. TentativeAllowed'
    BY <1>3, SizeAssumption DEF TentativeAllowed
  <1>14. ExpandItems'
    BY DEF ExpandItems
  <1>15. NoClash'
    BY <1>1 DEF RoundInv, NoClash, SameColor
  <1> QED
    BY <1>9, <1>11, <1>12, <1>13, <1>14, <1>15 DEF IInv, RoundInv, ProperAtEnd
-----------------------------------------------------------------------------
(* The items of expand_ban. *)

\* An end without a final colour may take any tentative colour that is not banned for good.
LEMMA RecolorOpen ==
  ASSUME TypeOK, RoundInv, ph = "expand", NEW w \in V, kokcolors[w] <= 0,
         NEW c \in {0} \union Bits, c \notin color_ban[w],
         kokcolors' = [kokcolors EXCEPT ![w] = - c],
         edges' = edges, color_set' = color_set, color_ban' = color_ban, marker' = marker, ph' = ph
  PROVE  /\ NoClash' /\ DroppedEdgesAreSafe' /\ KeptBy(TRUE)' /\ TentativeAllowed'
         /\ kokcolors' \in [V -> - ColorSize .. ColorSize]
         /\ \A v \in V : kokcolors[v] <= 0 => kokcolors'[v] <= 0
  <1>1. \A e \in edges : Src(e) \in V /\ Dst(e) \in V /\ Src(e) # Dst(e)
    BY EdgeFacts DEF TypeOK
  <1>2. c \in 0 .. ColorSize
    BY SizeAssumption DEF Bits
  <1>3. \A v \in V : kokcolors[v] \in Int /\ kokcolors'[v] = IF v = w THEN - c ELSE kokcolors[v]
    BY DEF TypeOK
  <1>4. \A v \in V : kokcolors'[v] \in Int /\ (kokcolors[v] > 0 <=> kokcolors'[v] > 0)
                     /\ (kokcolors[v] > 0 => kokcolors'[v] = kokcolors[v])
    BY <1>2, <1>3
  <1>5. NoClash'
    <2> SUFFICES ASSUME NEW e \in edges, kokcolors'[Src(e)] > 0, kokcolors'[Src(e)] = kokcolors'[Dst(e)],
                        color_set[Src(e)] = color_set[Dst(e)]
                 PROVE  FALSE
      BY DEF NoClash, SameColor
    <2>1. kokcolors[Src(e)] > 0 /\ kokcolors[Dst(e)] > 0 /\ kokcolors[Src(e)] = kokcolors[Dst(e)]
      BY <1>1, <1>4
    <2> QED
      BY <2>1 DEF RoundInv, NoClash, SameColor
  <1>6. ASSUME NEW u \in V, NEW v \in V, Barred(u, v)
        PROVE  Barred(u, v)'
    <2>1. kokcolors'[u] = kokcolors[u] /\ kokcolors[u] > 0 /\ kokcolors'[v] <= 0
      BY <1>4, <1>6 DEF Barred
    <2>2. CASE v = w /\ kokcolors[u] \in color_ban[v]
      <3>1. kokcolors[u] # c /\ kokcolors'[v] = - c
        BY <1>3, <2>2
      <3>2. kokcolors'[u] # - kokcolors'[v]
        BY <1>2, <1>3, <2>1, <3>1
      <3> QED
        BY <1>6, <2>1, <2>2, <3>2 DEF Barred
    <2>3. CASE v # w \/ kokcolors[u] \notin color_ban[v]
      BY <1>3, <1>6, <2>1, <2>3 DEF Barred
    <2> QED
      BY <2>2, <2>3
  <1>7. DroppedEdgesAreSafe'
    BY <1>1, <1>4, <1>6 DEF RoundInv, DroppedEdgesAreSafe, SameColor
  <1>8. KeptBy(TRUE)'
    BY <1>1, <1>4 DEF RoundInv, KeptBy, TypeOK
  <1>9. TentativeAllowed'
    <2> SUFFICES ASSUME NEW v \in V, kokcolors'[v] < 0 PROVE - kokcolors'[v] \notin color_ban[v]
      BY DEF TentativeAllowed
    <2>1. CASE v = w
      <3>1. - kokcolors'[v] = c
        BY <1>2, <1>3, <2>1
      <3> QED
        BY <2>1, <3>1
    <2>2. CASE v # w
      BY <1>3, <2>2 DEF RoundInv, TentativeAllowed
    <2> QED
      BY <2>1, <2>2
  <1>10. kokcolors' \in [V -> - ColorSize .. ColorSize]
    BY <1>2, SizeAssumption DEF TypeOK
  <1>11. \A v \in V : kokcolors[v] <= 0 => kokcolors'[v] <= 0
    BY <1>2, <1>3
  <1> QED
    BY <1>5, <1>7, <1>8, <1>9, <1>10, <1>11

\* Items that only load, ban tentatively or choose keep the colours and the bans.
LEMMA ExpandOnlyItems ==
  ASSUME TypeOK', ExpandItems', RoundInv, ph = "expand",
         UNCHANGED <<edges, kokcolors, color_set, color_ban, marker, ph>>
  PROVE  IInv'
  <1>1. RoundInv'
    BY DEF RoundInv, NoClash, DroppedEdgesAreSafe, Barred, SameColor, KeptBy, TentativeAllowed
  <1> QED
    BY <1>1 DEF IInv, ProperAtEnd

LEMMA ExpandLoadDestStep ==
  ASSUME IInv, NEW x \in edges, ExpandLoadDest(x)
  PROVE  IInv'
  <1> USE DEF ExpandLoadDest, At, Goto, problem, bans
  <1>1. TypeOK /\ RoundInv /\ ExpandItems
    BY DEF IInv, RoundInv
  <1>2. \A e \in edges : Src(e) \in V /\ Dst(e) \in V
    BY <1>1, EdgeFacts DEF TypeOK
  <1>3. TypeOK'
    BY <1>1, <1>2 DEF TypeOK
  <1>4. /\ \A e \in edges : e # x => pc'[e] = pc[e] /\ loc'[e] = loc[e]
        /\ pc'[x] = IF kokcolors[Dst(x)] > 0 THEN "out" ELSE "src"
    BY <1>1 DEF TypeOK
  <1>5. ExpandItems'
    BY <1>1, <1>2, <1>4 DEF ExpandItems, TypeOK
  <1> QED
    BY <1>1, <1>3, <1>5, ExpandOnlyItems

LEMMA ExpandLoadSourceStep ==
  ASSUME IInv, NEW x \in edges, ExpandLoadSource(x)
  PROVE  IInv'
  <1> USE DEF ExpandLoadSource, At, Goto, problem, bans
  <1>1. TypeOK /\ RoundInv /\ ExpandItems
    BY DEF IInv, RoundInv
  <1>2. \A e \in edges : Src(e) \in V /\ Dst(e) \in V
    BY <1>1, EdgeFacts DEF TypeOK
  <1> DEFINE src == kokcolors[Src(x)]
             dst == loc[x].dst
             at == CASE src > 0 \/ color_set[Src(x)] # color_set[Dst(x)] -> "out"
                     [] src < 0 /\ dst < 0 -> IF src = dst THEN "banDst" ELSE "out"
                     [] src < 0 /\ dst = 0 -> "banDst"
                     [] src = 0 /\ dst < 0 -> "banSrc"
                     [] src = 0 /\ dst = 0 -> "choose"
  <1>3. src \in Int /\ dst \in Int
    BY <1>1, <1>2, SizeAssumption DEF TypeOK
  <1>4. dst <= 0 /\ kokcolors[Dst(x)] <= 0
    BY <1>1 DEF ExpandItems
  <1>5. /\ at \in {"out", "banDst", "banSrc", "choose"}
        /\ at # "out" => src <= 0
        /\ at = "banDst" => src < 0
        /\ at = "banSrc" => dst < 0
    BY <1>3, <1>4
  <1>6. pc' = [pc EXCEPT ![x] = at]
    OBVIOUS
  <1> HIDE DEF at
  <1>7. TypeOK'
    <2>1. loc' = [loc EXCEPT ![x].src = kokcolors[Src(x)]] /\ kokcolors[Src(x)] \in - ColorSize .. ColorSize
      BY <1>1, <1>2 DEF TypeOK
    <2>2. loc' \in [edges -> [src : - ColorSize .. ColorSize, dst : - ColorSize .. ColorSize, new : {0} \union Bits]]
      BY <1>1, <2>1 DEF TypeOK
    <2>3. pc' \in [edges -> {"src", "dst", "clear", "banDst", "banSrc", "rechoose", "storeDst",
                             "choose", "storeSrc", "send", "out"}]
      BY <1>1, <1>5, <1>6 DEF TypeOK
    <2>4. UNCHANGED <<adj, ps_min, pps_cutoff, edges, kokcolors, color_set, color_ban, tentative_color_ban,
                      work, marker, ph>>
      OBVIOUS
    <2> QED
      BY <1>1, <2>2, <2>3, <2>4 DEF TypeOK
  <1>8. /\ \A e \in edges : e # x => pc'[e] = pc[e] /\ loc'[e] = loc[e]
        /\ pc'[x] = at /\ loc'[x].src = src /\ loc'[x].dst = dst
    <2>1. \A e \in edges : e # x => pc'[e] = pc[e]
      BY <1>1, <1>6 DEF TypeOK
    <2>2. pc'[x] = at
      BY <1>1, <1>6 DEF TypeOK
    <2>3. loc' = [loc EXCEPT ![x].src = kokcolors[Src(x)]]
      OBVIOUS
    <2>4. \A e \in edges : e # x => loc'[e] = loc[e]
      BY <1>1, <2>3 DEF TypeOK
    <2>5. loc'[x].src = src /\ loc'[x].dst = dst
      BY <1>1, <2>3 DEF TypeOK
    <2> QED
      BY <2>1, <2>2, <2>4, <2>5
  <1>9. ExpandItems'
    BY <1>1, <1>2, <1>4, <1>5, <1>8 DEF ExpandItems, TypeOK
  <1> QED
    BY <1>1, <1>7, <1>9, ExpandOnlyItems
\* atomic_fetch_or of tentative_color_ban: BanDest, BanSource and SendChoice
LEMMA BanStep ==
  ASSUME IInv, NEW x \in edges, BanDest(x) \/ BanSource(x) \/ SendChoice(x)
  PROVE  IInv'
  <1> USE DEF BanDest, BanSource, SendChoice, At, Goto, problem
  <1>1. TypeOK /\ RoundInv /\ ExpandItems
    BY DEF IInv, RoundInv
  <1>2. \A e \in edges : Src(e) \in V /\ Dst(e) \in V
    BY <1>1, EdgeFacts DEF TypeOK
  <1>3. loc[x].src \in - ColorSize .. ColorSize /\ loc[x].dst \in - ColorSize .. ColorSize
        /\ loc[x].new \in {0} \union Bits
    BY <1>1 DEF TypeOK
  <1>4. tentative_color_ban' \in [V -> SUBSET Bits]
    <2>1. CASE BanDest(x)
      <3>1. - loc[x].src \in Bits
        BY <1>1, <1>3, <2>1, SizeAssumption DEF ExpandItems, Bits
      <3> QED
        BY <1>1, <1>2, <2>1, <3>1 DEF TypeOK
    <2>2. CASE BanSource(x)
      <3>1. - loc[x].dst \in Bits
        BY <1>1, <1>3, <2>2, SizeAssumption DEF ExpandItems, Bits
      <3> QED
        BY <1>1, <1>2, <2>2, <3>1 DEF TypeOK
    <2>3. CASE SendChoice(x)
      <3>1. {loc[x].new} \ {0} \subseteq Bits
        BY <1>3
      <3> QED
        BY <1>1, <1>2, <2>3, <3>1 DEF TypeOK
    <2> QED
      BY <2>1, <2>2, <2>3
  <1>5. TypeOK'
    BY <1>1, <1>4 DEF TypeOK
  <1>6. /\ \A e \in edges : e # x => pc'[e] = pc[e]
        /\ pc[x] \in {"banDst", "banSrc", "send"}
        /\ \/ pc'[x] = "out"
           \/ pc[x] = "banDst" /\ pc'[x] = "rechoose"
    BY <1>1 DEF TypeOK
  <1>7. ExpandItems'
    BY <1>1, <1>2, <1>6 DEF ExpandItems
  <1> QED
    BY <1>1, <1>5, <1>7, ExpandOnlyItems

LEMMA ChooseStep ==
  ASSUME IInv, NEW x \in edges, ChooseAgain(x) \/ ChooseSource(x)
  PROVE  IInv'
  <1> USE DEF ChooseAgain, ChooseSource, At, Goto, problem, bans
  <1>1. TypeOK /\ RoundInv /\ ExpandItems
    BY DEF IInv, RoundInv
  <1>2. \A e \in edges : Src(e) \in V /\ Dst(e) \in V
    BY <1>1, EdgeFacts DEF TypeOK
  <1>3. \A v \in V : Choice(v) = 0 \/ Choice(v) \in Bits \ (color_ban[v] \union tentative_color_ban[v])
    BY FirstFreeFact DEF Choice
  <1>4. \A v \in V : Choice(v) \in {0} \union Bits /\ Choice(v) \notin color_ban[v]
    <2>1. \A v \in V : 0 \notin color_ban[v]
      BY <1>1, SizeAssumption DEF TypeOK, Bits
    <2> QED
      BY <1>3, <2>1
  <1>5. TypeOK'
    BY <1>1, <1>2, <1>4 DEF TypeOK
  <1>6. /\ \A e \in edges : e # x => pc'[e] = pc[e] /\ loc'[e] = loc[e]
        /\ loc'[x].src = loc[x].src
        /\ \/ pc[x] = "rechoose" /\ pc'[x] = "storeDst" /\ loc'[x].new = Choice(Dst(x))
           \/ pc[x] = "choose" /\ pc'[x] = "storeSrc" /\ loc'[x].new = Choice(Src(x))
    BY <1>1 DEF TypeOK
  <1>7. ExpandItems'
    BY <1>1, <1>2, <1>4, <1>6 DEF ExpandItems
  <1> QED
    BY <1>1, <1>5, <1>7, ExpandOnlyItems

LEMMA StoreStep ==
  ASSUME IInv, NEW x \in edges, StoreDest(x) \/ StoreSource(x)
  PROVE  IInv'
  <1> USE DEF StoreDest, StoreSource, At, Goto, problem, bans
  <1>1. TypeOK /\ RoundInv /\ ExpandItems
    BY DEF IInv, RoundInv
  <1>2. \A e \in edges : Src(e) \in V /\ Dst(e) \in V
    BY <1>1, EdgeFacts DEF TypeOK
  <1>3. PICK w \in V : /\ \/ w = Dst(x) /\ pc[x] = "storeDst"
                          \/ w = Src(x) /\ pc[x] = "storeSrc"
                       /\ kokcolors' = [kokcolors EXCEPT ![w] = - loc[x].new]
    BY <1>2
  <1>4. loc[x].new \in {0} \union Bits
    BY <1>1 DEF TypeOK
  <1>5. kokcolors[w] <= 0 /\ loc[x].new \notin color_ban[w]
    BY <1>1, <1>3 DEF ExpandItems
  <1>6. /\ NoClash' /\ DroppedEdgesAreSafe' /\ KeptBy(TRUE)' /\ TentativeAllowed'
        /\ kokcolors' \in [V -> - ColorSize .. ColorSize]
        /\ \A v \in V : kokcolors[v] <= 0 => kokcolors'[v] <= 0
    BY <1>1, <1>3, <1>4, <1>5, RecolorOpen
  <1>7. TypeOK'
    <2>1. kokcolors' \in [V -> Int]
      BY <1>6, SizeAssumption
    <2> QED
      BY <1>1, <1>6, <2>1 DEF TypeOK
  <1>8. /\ \A e \in edges : e # x => pc'[e] = pc[e]
        /\ \/ pc'[x] = "out"
           \/ pc[x] = "storeSrc" /\ pc'[x] = "send"
    BY <1>1 DEF TypeOK
  <1>9. ExpandItems'
    BY <1>1, <1>2, <1>6, <1>8 DEF ExpandItems
  <1>10. RoundInv'
    BY <1>6, <1>9 DEF RoundInv
  <1> QED
    BY <1>7, <1>10 DEF IInv, ProperAtEnd

LEMMA ExpandedStep ==
  ASSUME IInv, Expanded
  PROVE  IInv'
  <1> USE DEF Expanded, problem, bans, items
  <1>1. TypeOK /\ RoundInv
    BY DEF IInv
  <1>2. TypeOK'
    BY <1>1 DEF TypeOK
  <1>3. RoundInv'
    BY <1>1 DEF RoundInv, NoClash, DroppedEdgesAreSafe, Barred, SameColor, KeptBy, TentativeAllowed
  <1> QED
    BY <1>2, <1>3 DEF IInv, ProperAtEnd
-----------------------------------------------------------------------------
(* choose_colors and set_final_colors *)

LEMMA ChooseColorsStep ==
  ASSUME IInv, ChooseColors
  PROVE  IInv'
  <1> USE DEF ChooseColors, problem, Launch
  <1>1. TypeOK /\ RoundInv
    BY DEF IInv
  <1>2. \A e \in edges : Src(e) \in V /\ Dst(e) \in V
    BY <1>1, EdgeFacts DEF TypeOK
  <1> DEFINE full == {v \in V : kokcolors[v] = 0 /\ Choice(v) = 0}
  <1>3. /\ kokcolors' = [v \in V |-> IF kokcolors[v] = 0 THEN Choice(v)
                                     ELSE IF kokcolors[v] < 0 THEN - kokcolors[v] ELSE kokcolors[v]]
        /\ color_set' = [v \in V |-> IF v \in full THEN color_set[v] + 1 ELSE color_set[v]]
        /\ color_ban' = [v \in V |-> IF v \in full THEN {} ELSE color_ban[v]]
        /\ tentative_color_ban' = [v \in V |-> IF v \in full THEN {} ELSE tentative_color_ban[v]]
    OBVIOUS
  <1>4. \A v \in V : kokcolors[v] \in - ColorSize .. ColorSize /\ color_set[v] \in Nat
                     /\ color_ban[v] \subseteq Bits
    BY <1>1 DEF TypeOK
  \* v moves to the next word, or it takes a colour that is not banned
  <1>5. ASSUME NEW v \in V, kokcolors[v] <= 0
        PROVE  \/ kokcolors'[v] = 0 /\ color_set'[v] = color_set[v] + 1 /\ color_ban'[v] = {}
               \/ /\ kokcolors'[v] \in Bits \ color_ban[v]
                  /\ color_set'[v] = color_set[v] /\ color_ban'[v] = color_ban[v]
    <2>1. CASE v \in full
      BY <1>3, <2>1
    <2>2. CASE kokcolors[v] = 0 /\ Choice(v) # 0
      <3>1. Choice(v) \in Bits \ color_ban[v]
        BY <2>2, FirstFreeFact DEF Choice
      <3> QED
        BY <1>3, <2>2, <3>1
    <2>3. CASE kokcolors[v] < 0
      <3>1. kokcolors'[v] = - kokcolors[v] /\ v \notin full
        BY <1>3, <2>3
      <3>2. - kokcolors[v] \in Bits
        BY <1>4, <2>3, SizeAssumption DEF Bits
      <3>3. - kokcolors[v] \notin color_ban[v]
        BY <1>1, <2>3 DEF RoundInv, TentativeAllowed
      <3> QED
        BY <1>3, <3>1, <3>2, <3>3
    <2> QED
      BY <1>4, <1>5, <2>1, <2>2, <2>3
  <1>6. ASSUME NEW v \in V, kokcolors[v] > 0
        PROVE  kokcolors'[v] = kokcolors[v] /\ color_set'[v] = color_set[v] /\ color_ban'[v] = color_ban[v]
    BY <1>3, <1>4, <1>6
  <1> HIDE DEF full
  <1>7. \A v \in V : kokcolors'[v] \in 0 .. ColorSize /\ color_set'[v] \in Nat /\ color_set'[v] >= color_set[v]
    BY <1>4, <1>5, <1>6, SizeAssumption DEF Bits
  <1>8. TypeOK'
    <2>1. kokcolors' \in [V -> Int] /\ kokcolors' \in [V -> - ColorSize .. ColorSize]
      BY <1>3, <1>7, SizeAssumption
    <2>2. color_set' \in [V -> Nat]
      BY <1>3, <1>7
    <2>3. color_ban' \in [V -> SUBSET Bits] /\ tentative_color_ban' \in [V -> SUBSET Bits]
      BY <1>1, <1>3 DEF TypeOK
    <2>4. pc' \in [edges -> {"src", "dst", "clear", "banDst", "banSrc", "rechoose", "storeDst",
                             "choose", "storeSrc", "send", "out"}]
      OBVIOUS
    <2> QED
      BY <1>1, <2>1, <2>2, <2>3, <2>4 DEF TypeOK
  <1>9. \A e \in edges : pc'[e] = IF e \in work THEN "src" ELSE "out"
    OBVIOUS
  \* the other end of an edge does not come to a final colour
  <1>10. ASSUME NEW u \in V, NEW v \in V, Barred(u, v)
         PROVE  \/ color_set'[v] > color_set'[u]
                \/ color_set'[v] = color_set'[u] /\ kokcolors'[u] \in color_ban'[v] /\ kokcolors'[v] # kokcolors'[u]
    <2>1. kokcolors[u] > 0 /\ kokcolors[v] <= 0
      BY <1>10 DEF Barred
    <2>2. kokcolors'[u] = kokcolors[u] /\ color_set'[u] = color_set[u]
      BY <1>6, <2>1
    <2>3. CASE color_set[v] > color_set[u]
      BY <1>4, <1>7, <2>2, <2>3
    <2>4. CASE color_set[v] = color_set[u] /\ kokcolors[u] \in color_ban[v]
      <3>1. CASE color_set'[v] = color_set[v] + 1
        BY <1>4, <2>2, <2>4, <3>1
      <3>2. CASE kokcolors'[v] \in Bits \ color_ban[v] /\ color_set'[v] = color_set[v] /\ color_ban'[v] = color_ban[v]
        BY <2>2, <2>4, <3>2
      <3> QED
        BY <1>5, <2>1, <3>1, <3>2
    <2> QED
      BY <1>10, <2>3, <2>4 DEF Barred
  <1>11. ASSUME NEW u \in V, kokcolors[u] > 0
         PROVE  Quiet(u)'
    <2> SUFFICES ASSUME NEW e \in edges, Dst(e) = u, color_set'[Src(e)] = color_set'[u]
                 PROVE  kokcolors'[Src(e)] # kokcolors'[u]
      BY <1>9 DEF Quiet
    <2>1. kokcolors'[u] = kokcolors[u] /\ color_set'[u] = color_set[u]
      BY <1>6, <1>11
    <2>2. CASE kokcolors[Src(e)] > 0
      BY <1>1, <1>2, <1>6, <2>1, <2>2 DEF RoundInv, NoClash, SameColor
    <2>3. CASE kokcolors[Src(e)] <= 0 /\ e \in marker
      <3>1. color_set[Src(e)] <= color_set[u] /\ color_set[Src(e)] # color_set[u]
        BY <1>1, <1>11, <2>3 DEF RoundInv, KeptBy
      <3>2. color_set'[Src(e)] # color_set[Src(e)]
        BY <2>1, <3>1
      <3>3. kokcolors'[Src(e)] = 0
        BY <1>2, <1>5, <2>3, <3>2
      <3> QED
        BY <1>11, <2>1, <3>3
    <2>4. CASE kokcolors[Src(e)] <= 0 /\ e \notin marker
      <3>1. ~ (kokcolors[Src(e)] > 0)
        BY <1>2, <1>4, <2>4
      <3>2. Barred(Dst(e), Src(e))
        BY <1>1, <2>4, <3>1 DEF RoundInv, DroppedEdgesAreSafe, Barred
      <3>3. \/ color_set'[Src(e)] > color_set'[u]
            \/ kokcolors'[Src(e)] # kokcolors'[u]
        BY <1>2, <1>10, <3>2
      <3> QED
        BY <1>2, <1>7, <3>3
    <2> QED
      BY <1>2, <1>4, <2>2, <2>3, <2>4
  <1>12. ASSUME NEW e \in edges \ marker'
         PROVE  SafeFrom(Src(e), Dst(e))' \/ SafeFrom(Dst(e), Src(e))'
    <2>1. Src(e) \in V /\ Dst(e) \in V /\ e \in edges \ marker
      BY <1>2
    <2>2. ASSUME NEW u \in V, NEW v \in V, Barred(u, v)
          PROVE  SafeFrom(u, v)'
      <3>1. kokcolors[u] > 0
        BY <2>2 DEF Barred
      <3>2. kokcolors'[u] > 0 /\ Quiet(u)'
        BY <1>6, <1>11, <3>1
      <3> QED
        BY <1>10, <2>2, <3>2 DEF SafeFrom
    <2>3. CASE kokcolors[Src(e)] > 0 /\ kokcolors[Dst(e)] > 0 /\ ~ SameColor(Src(e), Dst(e))
      <3>1. Quiet(Src(e))' /\ Quiet(Dst(e))'
        BY <1>11, <2>1, <2>3
      <3> QED
        BY <1>6, <2>1, <2>3, <3>1 DEF SafeFrom, SameColor
    <2> QED
      BY <1>1, <2>1, <2>2, <2>3 DEF RoundInv, DroppedEdgesAreSafe
  <1>13. Remembered'
    <2> SUFFICES ASSUME NEW v \in V, kokcolors'[v] = 0 PROVE color_ban'[v] = {}
      BY DEF Remembered
    <2>1. 0 \notin Bits
      BY SizeAssumption DEF Bits
    <2>2. kokcolors[v] <= 0
      BY <1>4, <1>6
    <2> QED
      BY <1>5, <2>1, <2>2
  <1>14. MarkInv'
    <2>1. \A v \in V : kokcolors'[v] >= 0
      BY <1>7, SizeAssumption
    <2>2. \A e \in edges : pc'[e] \in {"src", "dst", "clear", "out"} /\ (e \notin work => pc'[e] = "out")
      BY <1>9
    <2>3. \A e \in edges : pc'[e] # "dst" /\ pc'[e] # "clear"
      BY <1>9
    <2>4. \A e \in work : pc'[e] # "out"
      BY <1>1, <1>9 DEF TypeOK
    <2> QED
      BY <1>12, <1>13, <2>1, <2>2, <2>3, <2>4 DEF MarkInv
  <1> QED
    BY <1>8, <1>14 DEF IInv, ProperAtEnd

LEMMA SetFinalColorsStep ==
  ASSUME IInv, SetFinalColors
  PROVE  IInv'
  <1> USE DEF SetFinalColors, problem, bans, items
  <1>1. TypeOK /\ RoundInv
    BY DEF IInv
  <1>2. \A e \in edges : Src(e) \in V /\ Dst(e) \in V
    BY <1>1, EdgeFacts DEF TypeOK
  <1>3. /\ marker = {} /\ ph = "final"
        /\ \A v \in V : /\ kokcolors[v] \in 0 .. ColorSize /\ color_set[v] \in Nat
                        /\ kokcolors[v] = 0 => color_ban[v] = {}
    BY <1>1, SizeAssumption DEF RoundInv, TypeOK
  <1> DEFINE bit(v) == IF kokcolors[v] = 0 THEN 1 ELSE kokcolors[v]
  <1>4. \A v \in V : bit(v) \in 1 .. ColorSize
    BY <1>3, SizeAssumption
  <1>5. \A v \in V : kokcolors'[v] = bit(v) + color_set[v] * ColorSize
    BY DEF FinalColor
  <1>6. TypeOK'
    <2>1. \A v \in V : FinalColor(v) \in Int
      BY <1>3, SizeAssumption DEF FinalColor
    <2>2. kokcolors' \in [V -> Int]
      BY <2>1
    <2> QED
      BY <1>1, <2>2 DEF TypeOK
  <1>7. ASSUME NEW u \in V, NEW v \in V, Barred(u, v)
        PROVE  color_set[v] > color_set[u]
    BY <1>3, <1>7 DEF Barred
  <1>8. ASSUME NEW e \in edges
        PROVE  bit(Src(e)) # bit(Dst(e)) \/ color_set[Src(e)] # color_set[Dst(e)]
    <2>1. \/ kokcolors[Src(e)] > 0 /\ kokcolors[Dst(e)] > 0 /\ ~ SameColor(Src(e), Dst(e))
          \/ Barred(Src(e), Dst(e))
          \/ Barred(Dst(e), Src(e))
      BY <1>1, <1>3 DEF RoundInv, DroppedEdgesAreSafe
    <2>2. \A v \in V : color_set[v] \in Nat
      BY <1>3
    <2> QED
      BY <1>2, <1>7, <2>1, <2>2 DEF SameColor
  <1> HIDE DEF bit
  <1>9. ProperAtEnd'
    <2> SUFFICES ASSUME NEW e \in edges
                 PROVE  kokcolors'[Src(e)] > 0 /\ kokcolors'[Src(e)] # kokcolors'[Dst(e)]
      BY DEF ProperAtEnd
    <2>1. kokcolors'[Src(e)] # kokcolors'[Dst(e)]
      <3>1. /\ bit(Src(e)) \in 1 .. ColorSize /\ bit(Dst(e)) \in 1 .. ColorSize
            /\ color_set[Src(e)] \in Nat /\ color_set[Dst(e)] \in Nat /\ ColorSize \in Nat
        BY <1>2, <1>3, <1>4, SizeAssumption
      <3>2. \A B \in Nat : \A j, k \in 1 .. B : \A s, t \in Nat : j + s * B = k + t * B => j = k /\ s = t
        BY ColorsOfWords
      <3>3. /\ kokcolors'[Src(e)] = bit(Src(e)) + color_set[Src(e)] * ColorSize
            /\ kokcolors'[Dst(e)] = bit(Dst(e)) + color_set[Dst(e)] * ColorSize
        BY <1>2, <1>5
      <3>4. bit(Src(e)) # bit(Dst(e)) \/ color_set[Src(e)] # color_set[Dst(e)]
        BY <1>8
      <3> HIDE DEF SetFinalColors
      <3>5. SUFFICES ASSUME bit(Src(e)) + color_set[Src(e)] * ColorSize = bit(Dst(e)) + color_set[Dst(e)] * ColorSize
                     PROVE  FALSE
        BY <3>3
      <3> QED
        BY <3>1, <3>2, <3>4, <3>5
    <2>2. kokcolors'[Src(e)] > 0
      <3>1. color_set[Src(e)] * ColorSize \in Nat
        BY <1>2, <1>3, SizeAssumption
      <3> QED
        BY <1>2, <1>4, <1>5, <3>1, SizeAssumption
    <2> QED
      BY <2>1, <2>2
  <1> QED
    BY <1>6, <1>9 DEF IInv

-----------------------------------------------------------------------------
LEMMA InductiveStep == IInv /\ [Next]_vars => IInv'
  <1> SUFFICES ASSUME IInv, [Next]_vars PROVE IInv'
    OBVIOUS
  <1>1. ASSUME NEW x \in edges, Item(x) PROVE IInv'
    BY <1>1, LoadSourceStep, LoadDestStep, ClearDestStep, ExpandLoadDestStep, ExpandLoadSourceStep,
       BanStep, ChooseStep, StoreStep DEF Item
  <1>2. CASE Host
    BY <1>2, MarkedStep, CountConflictsStep, ShrinkWorklistStep, BanColorsStep, ExpandedStep,
       ChooseColorsStep, SetFinalColorsStep DEF Host
  <1>3. CASE UNCHANGED vars
    BY <1>3 DEF vars, IInv, TypeOK, MarkInv, RoundInv, ProperAtEnd, NoClash, DroppedEdgesAreSafe, Barred,
       SameColor, KeptBy, TentativeAllowed, ExpandItems, Remembered, SafeFrom, Quiet
  <1> QED
    BY <1>1, <1>2, <1>3 DEF Next, Terminated

\* The invariant that explains the algorithm: in the conflict kernel a final colour
\* is quiet, between the kernels no two ends clash, and what is dropped is barred.
THEOREM Invariance == Spec => []IInv
  BY InitOK, InductiveStep, PTL DEF Spec

\* The variables keep their types; colours stay within a word until the end.
THEOREM TypeCorrect == Spec => []TypeOK
  <1>1. IInv => TypeOK
    BY DEF IInv
  <1> QED
    BY <1>1, Invariance, PTL

\* An edge that is dropped never needs to be looked at again, in every interleaving
\* of the items and through every move of a vertex to its next word of colours.
THEOREM DroppedEdges == Spec => []DroppedEdgesAreSafe
  <1>1. IInv => DroppedEdgesAreSafe
    <2> SUFFICES ASSUME IInv PROVE DroppedEdgesAreSafe
      OBVIOUS
    <2>1. CASE ph = "mark"
      <3>1. TypeOK /\ MarkInv
        BY <2>1 DEF IInv
      <3> QED
        BY <3>1, SafeMeans DEF DroppedEdgesAreSafe
    <2>2. CASE ph # "mark"
      BY <2>2 DEF IInv, RoundInv, DroppedEdgesAreSafe
    <2> QED
      BY <2>1, <2>2
  <1> QED
    BY <1>1, Invariance, PTL

\* The colouring is proper when the loop ends, for every graph and every width.
THEOREM ProperColoring == Spec => []ProperAtEnd
  <1>1. IInv => ProperAtEnd
    BY DEF IInv
  <1> QED
    BY <1>1, Invariance, PTL
=============================================================================

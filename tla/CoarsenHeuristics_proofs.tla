---------------------- MODULE CoarsenHeuristics_proofs ----------------------
(***************************************************************************)
(* For every graph, order and choice of neighbours, and every interleaving *)
(* of the compare-exchanges: a round of HEC, GOSHv2, Match or MtMetis      *)
(* leaves no vertex claimed that is not mapped, and none mapped that       *)
(* another item could claim; and at the end the aggregates are numbered    *)
(* without gaps, hang together and, in a matching, have at most two        *)
(* vertices.                                                               *)
(***************************************************************************)
EXTENDS CoarsenHeuristics, FiniteSetTheorems, TLAPS, WellFoundedInduction

\* A set of numbers that is not empty has a least, and one up to n a greatest.
LEMMA LeastOf ==
  ASSUME NEW S \in SUBSET Nat, S # {}
  PROVE  \E b \in S : \A c \in S : b <= c
  <1> DEFINE R == OpToRel(<, Nat)
  <1>1. \E b \in S : \A c \in S : ~ (<<c, b>> \in R)
    <2>1. IsWellFoundedOn(R, Nat)
      BY NatLessThanWellFounded
    <2> HIDE DEF R
    <2> QED
      BY <2>1, WFMin
  <1>2. \A b, c \in Nat : <<c, b>> \in R <=> c < b
    BY DEF OpToRel
  <1> HIDE DEF R
  <1>3. PICK b \in S : \A c \in S : ~ (<<c, b>> \in R)
    BY <1>1
  <1>4. \A c \in S : b \in Nat /\ c \in Nat /\ ~ (c < b)
    BY <1>2, <1>3
  <1> QED
    BY <1>4

\* The place of x among the members of a set of numbers.
CountBelow(S, x) == Cardinality({y \in S : y < x})

\* The ranks of the members of a set are the numbers below its size, one each.
LEMMA CountBelowFacts ==
  ASSUME NEW S \in SUBSET Nat, IsFiniteSet(S)
  PROVE  /\ Cardinality(S) \in Nat
         /\ \A u \in S : CountBelow(S, u) \in 0 .. Cardinality(S) - 1
         /\ \A u, v \in S : CountBelow(S, u) = CountBelow(S, v) => u = v
         /\ \A k \in 0 .. Cardinality(S) - 1 : \E u \in S : CountBelow(S, u) = k
  <1> DEFINE Below(u) == {y \in S : y < u}
             m == Cardinality(S)
             f == [u \in S |-> CountBelow(S, u)]
  <1>1. m \in Nat
    BY FS_CardinalityType
  <1>2. \A u \in S : IsFiniteSet(Below(u)) /\ Cardinality(Below(u)) \in Nat /\ CountBelow(S, u) = Cardinality(Below(u))
    <2> SUFFICES ASSUME NEW u \in S
                 PROVE  /\ IsFiniteSet(Below(u)) /\ Cardinality(Below(u)) \in Nat
                        /\ CountBelow(S, u) = Cardinality(Below(u))
      OBVIOUS
    <2>1. Below(u) \in SUBSET S
      OBVIOUS
    <2>2. CountBelow(S, u) = Cardinality(Below(u))
      BY DEF CountBelow
    <2> HIDE DEF Below
    <2> QED
      BY <2>1, <2>2, FS_Subset, FS_CardinalityType
  <1>3. ASSUME NEW u \in S, NEW T \in SUBSET S, Below(u) \subseteq T, u \in T
        PROVE  Cardinality(Below(u)) + 1 <= Cardinality(T)
    <2>1. u \notin Below(u) /\ Below(u) \union {u} \in SUBSET T
      BY <1>3
    <2>2. IsFiniteSet(T)
      BY FS_Subset
    <2> HIDE DEF Below
    <2>3. Cardinality(Below(u) \union {u}) = Cardinality(Below(u)) + 1
      BY <1>2, <2>1, FS_AddElement
    <2>4. Cardinality(Below(u) \union {u}) <= Cardinality(T)
      BY <2>1, <2>2, FS_Subset
    <2> QED
      BY <2>3, <2>4
  <1>4. \A u \in S : CountBelow(S, u) \in 0 .. m - 1
    <2> SUFFICES ASSUME NEW u \in S PROVE CountBelow(S, u) \in 0 .. m - 1
      OBVIOUS
    <2>1. Cardinality(Below(u)) + 1 <= m
      <3>1. Below(u) \subseteq S
        OBVIOUS
      <3> HIDE DEF Below
      <3> QED
        BY <1>3, <3>1
    <2>2. Cardinality(Below(u)) \in Nat /\ CountBelow(S, u) = Cardinality(Below(u))
      BY <1>2
    <2> HIDE DEF Below, m
    <2> QED
      BY <1>1, <2>1, <2>2
  <1>5. ASSUME NEW u \in S, NEW v \in S, u < v PROVE CountBelow(S, u) < CountBelow(S, v)
    <2>1. Below(v) \in SUBSET S /\ Below(u) \subseteq Below(v) /\ u \in Below(v)
      <3>1. \A x \in S : x < u => x < v
        <4>1. S \subseteq Int
          OBVIOUS
        <4> QED
          BY <1>5, <4>1
      <3> QED
        BY <1>5, <3>1
    <2>2. Cardinality(Below(u)) + 1 <= Cardinality(Below(v))
      <3> HIDE DEF Below
      <3> QED
        BY <1>3, <2>1
    <2>3. /\ Cardinality(Below(u)) \in Nat /\ CountBelow(S, u) = Cardinality(Below(u))
          /\ Cardinality(Below(v)) \in Nat /\ CountBelow(S, v) = Cardinality(Below(v))
      BY <1>2
    <2> HIDE DEF Below
    <2> QED
      BY <2>2, <2>3
  <1>6. \A u, v \in S : CountBelow(S, u) = CountBelow(S, v) => u = v
    <2> SUFFICES ASSUME NEW u \in S, NEW v \in S, CountBelow(S, u) = CountBelow(S, v) PROVE u = v
      OBVIOUS
    <2>1. u < v \/ v < u \/ u = v
      OBVIOUS
    <2>2. CountBelow(S, u) \in Int /\ CountBelow(S, v) \in Int
      BY <1>4
    <2> QED
      BY <1>5, <2>1, <2>2
  <1>7. \A k \in 0 .. m - 1 : \E u \in S : CountBelow(S, u) = k
    <2> DEFINE T == 0 .. m - 1
    <2>1. f \in Injection(S, T)
      BY <1>4, <1>6 DEF Injection, IsInjective
    <2>2. IsFiniteSet(T) /\ Cardinality(T) = Cardinality(S)
      <3>1. 0 \in Int /\ m - 1 \in Int
        BY <1>1
      <3>2. Cardinality(T) = IF 0 > m - 1 THEN 0 ELSE m - 1 - 0 + 1
        BY <3>1, FS_Interval
      <3>3. Cardinality(T) = m
        <4> HIDE DEF m
        <4> QED
          BY <1>1, <3>2
      <3> QED
        BY <3>1, <3>3, FS_Interval
    <2>3. f \in Surjection(S, T)
      <3> HIDE DEF f, T
      <3> QED
        BY <2>1, <2>2, FS_Injection
    <2> QED
      BY <2>3 DEF Surjection
  <1> QED
    BY <1>1, <1>4, <1>6, <1>7

\* A function that is injective on a set gives as many values as the set has members.
LEMMA ImageSize ==
  ASSUME NEW S, IsFiniteSet(S), NEW f, \A x, y \in S : f[x] = f[y] => x = y
  PROVE  IsFiniteSet({f[x] : x \in S}) /\ Cardinality({f[x] : x \in S}) = Cardinality(S)
  <1> DEFINE T == {f[x] : x \in S}
             g == [x \in S |-> f[x]]
  <1>1. g \in Surjection(S, T) /\ g \in Injection(S, T)
    BY DEF Surjection, Injection, IsInjective
  <1> HIDE DEF T, g
  <1>2. IsFiniteSet(T) /\ Cardinality(T) = Cardinality(S)
    BY <1>1, FS_Surjection
  <1> QED
    BY <1>2 DEF T

\* A finite set of which any three members are not all different has two at most.
LEMMA AtMostTwo ==
  ASSUME NEW S, \A x, y, z \in S : x = y \/ x = z \/ y = z
  PROVE  IsFiniteSet(S) /\ Cardinality(S) <= 2
  <1>1. CASE S = {}
    BY <1>1, FS_EmptySet
  <1>2. CASE S # {}
    <2>1. PICK a \in S : TRUE
      BY <1>2
    <2>2. CASE S = {a}
      <3>1. IsFiniteSet({a}) /\ Cardinality({a}) = 1
        BY FS_Singleton
      <3> QED
        BY <2>2, <3>1
    <2>3. CASE S # {a}
      <3>1. PICK b \in S : b # a
        BY <2>1, <2>3
      <3>2. S = {a} \union {b}
        BY <2>1, <3>1
      <3>3. IsFiniteSet({a} \union {b}) /\ Cardinality({a} \union {b}) = 2
        <4>1. IsFiniteSet({a}) /\ Cardinality({a}) = 1 /\ b \notin {a}
          BY <3>1, FS_Singleton
        <4>2. /\ IsFiniteSet({a} \union {b})
              /\ Cardinality({a} \union {b}) = Cardinality({a}) + 1
          BY <4>1, FS_AddElement
        <4> QED
          BY <4>1, <4>2
      <3> QED
        BY <3>2, <3>3
    <2> QED
      BY <2>2, <2>3
  <1> QED
    BY <1>1, <1>2

-----------------------------------------------------------------------------

Before == ph \in {"adopt", "adoptMore", "spread"}
Rounds == ph \in {"round", "relatives"}

\* what holds of the arrays in every kernel
Shape ==
  /\ \E m \in Nat : V = 0 .. m - 1
  /\ adj \in [V -> SUBSET V]
  /\ hn \in [V -> V]
  /\ ph = "done" \/ vcmap \in [V -> Nat \union {ORD_MAX}]
  /\ nc \in Nat
  /\ cv \in [V -> Nat]
  /\ match \in [V -> Int] /\ DOMAIN pc = V

\* The item of u has claimed w and has still to map it.
Holds(u, w) ==
  \/ w = u /\ pc[u] \in {"other", "read", "undo", "count", "first"}
  \/ w = hn[u] /\ w # u /\ pc[u] \in {"count", "first", "second"}

\* An item may still claim w.
Wanted(w) == \E u \in V : pc[u] \in {"start", "other"} /\ (w = u \/ w = hn[u])

\* A vertex without an aggregate is claimed when one item holds it, and a vertex
\* of an aggregate that an item may want stays claimed.
Claims ==
  /\ \A w \in V : (ph = "round" \/ Wanted(w)) /\ vcmap[w] # ORD_MAX => match[w] # ORD_MAX
  /\ ph = "round" => \A w \in V : vcmap[w] = ORD_MAX /\ match[w] # ORD_MAX => \E u \in V : Holds(u, w)
  /\ \A u, w \in V : Holds(u, w) => vcmap[w] = ORD_MAX /\ match[w] # ORD_MAX
  /\ \A u, v, w \in V : Holds(u, w) /\ Holds(v, w) => u = v
  /\ \A u \in V : pc[u] = "second" => vcmap[u] = Aggregate(u)

IInv == Shape /\ (Rounds => Claims)

-----------------------------------------------------------------------------
LEMMA VerticesAreFinite ==
  ASSUME Shape
  PROVE  V \subseteq Nat /\ IsFiniteSet(V) /\ n \in Nat
  <1>1. PICK m \in Nat : V = 0 .. m - 1
    BY DEF Shape
  <1>2. 0 \in Int /\ m - 1 \in Int
    OBVIOUS
  <1>3. IsFiniteSet(V)
    BY <1>1, <1>2, FS_Interval
  <1> QED
    BY <1>1, <1>3, FS_CardinalityType DEF n

LEMMA InitOK == Init => IInv
  <1> SUFFICES ASSUME Init PROVE IInv
    OBVIOUS
  <1>1. PICK p \in Problems : heuristic = p.heuristic /\ adj = p.adj /\ ordering = p.ordering
    BY DEF Init
  <1>2. n \in Nat /\ adj \in [0 .. n - 1 -> SUBSET (0 .. n - 1)]
    BY <1>1, ProblemAssumption DEF n, V
  <1>3. V = 0 .. n - 1 /\ adj \in [V -> SUBSET V]
    BY <1>2 DEF V
  <1>4. hn \in [V -> V]
    <2>1. CASE heuristic = "GOSHv2"
      <3>1. \A u \in V : 0 \in V
        BY <1>2, <1>3
      <3> QED
        BY <2>1, <3>1 DEF Init
    <2>2. CASE heuristic # "GOSHv2"
      BY <2>2 DEF Init
    <2> QED
      BY <2>1, <2>2
  <1>5. IsFiniteSet(V)
    <2>1. 0 \in Int /\ n - 1 \in Int
      BY <1>2
    <2> QED
      BY <1>3, <2>1, FS_Interval
  <1> DEFINE heads == {u \in V : heuristic = "GOSHv2" /\ Cardinality(adj[u]) > Threshold}
  <1>6. \A S \in SUBSET V : IsFiniteSet(S) /\ Cardinality(S) \in Nat
    BY <1>5, FS_Subset, FS_CardinalityType
  <1>7. vcmap = [u \in V |-> IF u \in heads THEN RankIn(heads, u) ELSE ORD_MAX] /\ nc = Cardinality(heads)
    BY DEF Init
  <1>8. \A u \in V : RankIn(heads, u) \in Nat
    BY <1>6 DEF RankIn
  <1>9. nc \in Nat
    BY <1>6, <1>7
  <1>10. vcmap \in [V -> Nat \union {ORD_MAX}]
    <2> HIDE DEF heads
    <2> QED
      BY <1>7, <1>8
  <1>11. Shape
    <2>1. /\ match = [u \in V |-> ORD_MAX] /\ ORD_MAX \in Int
          /\ cv \in [V -> Nat] /\ DOMAIN pc = V
      BY DEF Init, ORD_MAX
    <2>2. match \in [V -> Int]
      BY <2>1
    <2> QED
      BY <1>2, <1>3, <1>4, <1>9, <1>10, <2>1, <2>2 DEF Shape
  <1>12. Rounds => Claims
    <2> SUFFICES ASSUME Rounds PROVE Claims
      OBVIOUS
    <2>1. heuristic # "GOSHv2"
      BY DEF Init, Rounds
    <2>2. \A u \in V : vcmap[u] = ORD_MAX /\ match[u] = ORD_MAX /\ pc[u] = "start"
      BY <1>7, <2>1 DEF Init
    <2> QED
      BY <2>2 DEF Claims, Holds
  <1> QED
    BY <1>11, <1>12 DEF IInv

-----------------------------------------------------------------------------
(* The items of a round. *)

\* What an item of a round that has not ended is.
LEMMA ItemIn ==
  ASSUME IInv, Rounds
  PROVE  /\ Shape /\ Claims /\ vcmap \in [V -> Nat \union {ORD_MAX}]
         /\ \A u \in V : hn[u] \in V /\ hn[u] \in Nat /\ u \in Nat
         /\ \A u \in V : hn[u] # ORD_MAX
  <1>1. Shape /\ Claims /\ vcmap \in [V -> Nat \union {ORD_MAX}]
    BY DEF IInv, Rounds, Shape
  <1>2. V \subseteq Nat /\ \A u \in V : hn[u] \in V
    BY <1>1, VerticesAreFinite DEF Shape
  <1>3. \A k \in Nat : k # ORD_MAX
    BY DEF ORD_MAX
  <1> QED
    BY <1>1, <1>2, <1>3

LEMMA ClaimOwnStep ==
  ASSUME IInv, Rounds, NEW u \in V, ClaimOwn(u)
  PROVE  IInv'
  <1>1. /\ pc[u] = "start"
        /\ UNCHANGED <<heuristic, adj, ordering, hn, vcmap, perm, swap, nc, ph, cv>>
    BY DEF ClaimOwn, InKernel, problem
  <1>2. /\ Shape /\ Claims /\ V' = V
        /\ hn[u] \in V /\ hn[u] # ORD_MAX /\ hn[u] \in Int
    BY <1>1, ItemIn DEF V
  <1>3. CASE UNCHANGED match /\ pc' = [pc EXCEPT ![u] = "out"]
    <2>1. \A v, w \in V : Holds(v, w)' <=> Holds(v, w)
      BY <1>1, <1>2, <1>3 DEF Holds, Shape
    <2>2. \A v \in V : pc'[v] = pc[v] \/ pc'[v] = "out"
      BY <1>2, <1>3 DEF Shape
    <2>3. Shape'
      BY <1>1, <1>2, <1>3 DEF Shape
    <2>4. Claims'
      <3>1. \A w \in V : Wanted(w)' => Wanted(w)
        BY <1>1, <1>2, <2>2 DEF Wanted
      <3> QED
        BY <1>1, <1>2, <1>3, <2>1, <2>2, <3>1 DEF Claims, Aggregate
    <2> QED
      BY <2>3, <2>4 DEF IInv
  <1>4. CASE /\ match[u] = ORD_MAX /\ match' = [match EXCEPT ![u] = hn[u]]
             /\ Goto(u, IF hn[u] # u THEN "other" ELSE IF heuristic = "HEC" THEN "first" ELSE "count")
    <2>1. /\ match'[u] # ORD_MAX /\ \A w \in V : w # u => match'[w] = match[w]
          /\ match' \in [V -> Int] /\ DOMAIN pc' = V
          /\ \A v \in V : v # u => pc'[v] = pc[v]
          /\ pc'[u] \in {"other", "count", "first"}
          /\ pc'[u] = "first" => heuristic = "HEC"
          /\ pc'[u] # "other" => hn[u] = u
      BY <1>2, <1>4 DEF Shape, Goto
    <2>2. vcmap[u] = ORD_MAX /\ \A v \in V : ~ Holds(v, u)
      BY <1>1, <1>2, <1>4 DEF Claims, Wanted
    <2>3. \A v, w \in V : Holds(v, w)' <=> Holds(v, w) \/ (v = u /\ w = u)
      BY <1>1, <2>1 DEF Holds
    <2>4. Shape'
      BY <1>1, <1>2, <2>1 DEF Shape
    <2>5. Claims'
      <3>1. \A w \in V : (ph = "round" \/ Wanted(w)') /\ vcmap[w] # ORD_MAX => match'[w] # ORD_MAX
        <4>1. \A w \in V : Wanted(w)' => Wanted(w)
          BY <1>1, <1>2, <2>1 DEF Wanted
        <4> QED
          BY <1>2, <2>1, <4>1 DEF Claims
      <3>2. ph = "round" => \A w \in V : vcmap[w] = ORD_MAX /\ match'[w] # ORD_MAX => \E v \in V : Holds(v, w)'
        BY <1>2, <2>1, <2>3 DEF Claims
      <3>3. \A v, w \in V : Holds(v, w)' => vcmap[w] = ORD_MAX /\ match'[w] # ORD_MAX
        BY <1>2, <2>1, <2>2, <2>3 DEF Claims
      <3>4. \A v, x, w \in V : Holds(v, w)' /\ Holds(x, w)' => v = x
        BY <1>2, <2>2, <2>3 DEF Claims
      <3>5. \A v \in V : pc'[v] = "second" => vcmap[v] = Aggregate(v)
        BY <1>2, <2>1 DEF Claims
      <3> QED
        BY <1>1, <1>2, <3>1, <3>2, <3>3, <3>4, <3>5 DEF Claims, Aggregate
    <2> QED
      BY <2>4, <2>5 DEF IInv
  <1> QED
    BY <1>3, <1>4 DEF ClaimOwn, Goto

LEMMA ClaimOtherStep ==
  ASSUME IInv, Rounds, NEW u \in V, ClaimOther(u)
  PROVE  IInv'
  <1>1. /\ pc[u] = "other"
        /\ UNCHANGED <<heuristic, adj, ordering, hn, vcmap, perm, swap, nc, ph, cv>>
    BY DEF ClaimOther, InKernel, problem
  <1>2. /\ Shape /\ Claims /\ V' = V /\ u \in Int /\ u # ORD_MAX
        /\ hn[u] \in V
    <2>1. u \in Nat /\ \A k \in Nat : k # ORD_MAX
      BY <1>1, ItemIn DEF ORD_MAX
    <2> QED
      BY <1>1, <2>1, ItemIn DEF V
  <1>3. Holds(u, u) /\ \A w \in V : w # u => ~ Holds(u, w)
    BY <1>1 DEF Holds
  <1>4. CASE UNCHANGED match /\ pc' = [pc EXCEPT ![u] = IF Matching THEN "undo" ELSE "read"]
    <2>1. /\ pc'[u] \in {"undo", "read"} /\ DOMAIN pc' = V
          /\ \A v \in V : v # u => pc'[v] = pc[v]
      BY <1>2, <1>4 DEF Shape
    <2>2. \A v, w \in V : Holds(v, w)' <=> Holds(v, w)
      BY <1>1, <1>3, <2>1 DEF Holds
    <2>3. Shape'
      BY <1>1, <1>2, <1>4, <2>1 DEF Shape
    <2>4. Claims'
      <3>1. \A w \in V : Wanted(w)' => Wanted(w)
        BY <1>1, <1>2, <2>1 DEF Wanted
      <3> QED
        BY <1>1, <1>2, <1>4, <2>1, <2>2, <3>1 DEF Claims, Aggregate
    <2> QED
      BY <2>3, <2>4 DEF IInv
  <1>5. CASE /\ match[hn[u]] = ORD_MAX /\ match' = [match EXCEPT ![hn[u]] = u]
             /\ Goto(u, IF heuristic = "HEC" THEN "first" ELSE "count")
    <2>1. PICK h \in V : h = hn[u]
      BY <1>2
    <2>2. /\ match'[h] # ORD_MAX /\ \A w \in V : w # h => match'[w] = match[w]
          /\ match' \in [V -> Int] /\ DOMAIN pc' = V
          /\ \A v \in V : v # u => pc'[v] = pc[v]
          /\ pc'[u] \in {"count", "first"}
          /\ pc'[u] = "first" => heuristic = "HEC"
      BY <1>2, <1>5, <2>1 DEF Shape, Goto
    <2>3. vcmap[h] = ORD_MAX /\ (\A v \in V : ~ Holds(v, h)) /\ h # u
      BY <1>1, <1>2, <1>3, <1>5, <2>1 DEF Claims, Wanted
    <2>4. \A v, w \in V : Holds(v, w)' <=> Holds(v, w) \/ (v = u /\ w = h)
      BY <1>1, <2>1, <2>2, <2>3 DEF Holds
    <2>5. Shape'
      BY <1>1, <1>2, <2>2 DEF Shape
    <2>6. Claims'
      <3>1. \A w \in V : (ph = "round" \/ Wanted(w)') /\ vcmap[w] # ORD_MAX => match'[w] # ORD_MAX
        <4>1. \A w \in V : Wanted(w)' => Wanted(w)
          BY <1>1, <1>2, <2>2 DEF Wanted
        <4> QED
          BY <1>2, <2>2, <4>1 DEF Claims
      <3>2. ph = "round" => \A w \in V : vcmap[w] = ORD_MAX /\ match'[w] # ORD_MAX => \E v \in V : Holds(v, w)'
        BY <1>2, <2>2, <2>4 DEF Claims
      <3>3. \A v, w \in V : Holds(v, w)' => vcmap[w] = ORD_MAX /\ match'[w] # ORD_MAX
        BY <1>2, <2>2, <2>3, <2>4 DEF Claims
      <3>4. \A v, x, w \in V : Holds(v, w)' /\ Holds(x, w)' => v = x
        BY <1>2, <2>3, <2>4 DEF Claims
      <3>5. \A v \in V : pc'[v] = "second" => vcmap[v] = Aggregate(v)
        BY <1>2, <2>2 DEF Claims
      <3> QED
        BY <1>1, <1>2, <3>1, <3>2, <3>3, <3>4, <3>5 DEF Claims, Aggregate
    <2> QED
      BY <2>5, <2>6 DEF IInv
  <1> QED
    BY <1>4, <1>5 DEF ClaimOther, Goto

LEMMA CountCoarseStep ==
  ASSUME IInv, Rounds, NEW u \in V, CountCoarse(u)
  PROVE  IInv'
  <1>1. /\ pc[u] = "count" /\ pc' = [pc EXCEPT ![u] = "first"]
        /\ cv' = [cv EXCEPT ![u] = nc] /\ nc' = nc + 1
        /\ UNCHANGED <<heuristic, adj, ordering, hn, vcmap, match, perm, swap, ph>>
    BY DEF CountCoarse, InKernel, problem, Goto
  <1>2. Shape /\ Claims /\ V' = V
    BY <1>1, ItemIn DEF V
  <1>3. /\ pc'[u] = "first" /\ DOMAIN pc' = V /\ \A v \in V : v # u => pc'[v] = pc[v]
        /\ cv' \in [V -> Nat] /\ \A v \in V : v # u => cv'[v] = cv[v]
        /\ nc' \in Nat
    BY <1>1, <1>2 DEF Shape
  <1>4. \A v, w \in V : Holds(v, w)' <=> Holds(v, w)
    BY <1>1, <1>3 DEF Holds
  <1>5. Shape'
    BY <1>1, <1>2, <1>3 DEF Shape
  <1>6. Claims'
    <2>1. \A w \in V : Wanted(w)' => Wanted(w)
      BY <1>1, <1>2, <1>3 DEF Wanted
    <2>2. \A v \in V : pc'[v] = "second" => v # u /\ pc[v] = "second" /\ cv'[v] = cv[v]
      BY <1>3
    <2>3. \A v \in V : pc'[v] = "second" => vcmap[v] = Aggregate(v)'
      BY <1>1, <1>2, <2>2 DEF Claims, Aggregate
    <2> QED
      BY <1>1, <1>2, <1>3, <1>4, <2>1, <2>3 DEF Claims
  <1> QED
    BY <1>5, <1>6 DEF IInv

\* The name of an aggregate is not taken for none.
LEMMA AggregateIn ==
  ASSUME Shape, NEW u \in V
  PROVE  Aggregate(u) \in Nat
  <1>1. CASE heuristic = "HEC"
    <2>1. PICK h \in Nat, x \in Nat : h = hn[u] /\ x = u
      BY VerticesAreFinite DEF Shape
    <2>2. \E m \in {x, h} : \A y \in {x, h} : m <= y
      BY <2>1
    <2>3. MinOf({x, h}) \in {x, h}
      BY <2>2 DEF MinOf
    <2> QED
      BY <1>1, <2>1, <2>3 DEF Aggregate
  <1>2. CASE heuristic # "HEC"
    BY <1>2 DEF Shape, Aggregate
  <1> QED
    BY <1>1, <1>2

\* An item of a round gives w, which it holds or has mapped before, to an aggregate.
LEMMA MapStep ==
  ASSUME Shape, Claims, vcmap \in [V -> Nat \union {ORD_MAX}],
         NEW u \in V, NEW w \in V, NEW a \in Nat,
         UNCHANGED <<heuristic, adj, hn, match, nc, ph, cv>>,
         vcmap' = [vcmap EXCEPT ![w] = a],
         NEW to \in {"second", "out"}, pc' = [pc EXCEPT ![u] = to],
         Holds(u, w) \/ (w = u /\ vcmap[u] = a),
         to = "second" => w = u /\ pc[u] = "first" /\ a = Aggregate(u),
         \A x \in V : Holds(u, x) /\ x # w => to = "second"
  PROVE  Shape' /\ Claims'
  <1>1. V' = V /\ (\A k \in Nat : k # ORD_MAX) /\ \A v \in V : Aggregate(v)' = Aggregate(v)
    BY DEF V, ORD_MAX, Aggregate
  <1>2. /\ vcmap'[w] = a /\ a # ORD_MAX /\ \A x \in V : x # w => vcmap'[x] = vcmap[x]
        /\ vcmap' \in [V -> Nat \union {ORD_MAX}]
        /\ pc'[u] = to /\ DOMAIN pc' = V /\ \A v \in V : v # u => pc'[v] = pc[v]
    BY <1>1 DEF Shape
  <1>3. Shape'
    BY <1>1, <1>2 DEF Shape
  <1>4. \A v, x \in V : Holds(v, x)' => Holds(v, x) /\ x # w
    <2> SUFFICES ASSUME NEW v \in V, NEW x \in V, Holds(v, x)' PROVE Holds(v, x) /\ x # w
      OBVIOUS
    <2>1. CASE v = u
      <3>1. to = "second" /\ x = hn[u] /\ x # u
        BY <1>2, <2>1 DEF Holds
      <3> QED
        BY <2>1, <3>1 DEF Holds
    <2>2. CASE v # u
      <3>1. Holds(v, x)
        BY <1>2, <2>2 DEF Holds
      <3> QED
        BY <1>1, <2>2, <3>1 DEF Claims
    <2> QED
      BY <2>1, <2>2
  <1>5. \A v, x \in V : Holds(v, x) /\ x # w => Holds(v, x)'
    <2> SUFFICES ASSUME NEW v \in V, NEW x \in V, Holds(v, x), x # w PROVE Holds(v, x)'
      OBVIOUS
    <2>1. CASE v = u
      <3>1. to = "second" /\ w = u /\ pc[u] = "first"
        BY <2>1
      <3>2. x = hn[u] /\ x # u
        BY <2>1, <3>1 DEF Holds
      <3> QED
        BY <1>2, <2>1, <3>1, <3>2 DEF Holds
    <2>2. CASE v # u
      BY <1>2, <2>2 DEF Holds
    <2> QED
      BY <2>1, <2>2
  <1>6. Claims'
    <2>1. \A x \in V : (ph = "round" \/ Wanted(x)') /\ vcmap'[x] # ORD_MAX => match[x] # ORD_MAX
      <3>1. \A x \in V : Wanted(x)' => Wanted(x)
        BY <1>1, <1>2 DEF Wanted
      <3>2. \A x \in V : vcmap'[x] # ORD_MAX => vcmap[x] # ORD_MAX \/ Holds(u, x)
        BY <1>1, <1>2
      <3> QED
        BY <3>1, <3>2 DEF Claims
    <2>2. ph = "round" => \A x \in V : vcmap'[x] = ORD_MAX /\ match[x] # ORD_MAX => \E v \in V : Holds(v, x)'
      BY <1>2, <1>5 DEF Claims
    <2>3. \A v, x \in V : Holds(v, x)' => vcmap'[x] = ORD_MAX /\ match[x] # ORD_MAX
      BY <1>2, <1>4 DEF Claims
    <2>4. \A v, y, x \in V : Holds(v, x)' /\ Holds(y, x)' => v = y
      BY <1>4 DEF Claims
    <2>5. \A v \in V : pc'[v] = "second" => vcmap'[v] = Aggregate(v)
      <3> SUFFICES ASSUME NEW v \in V, pc'[v] = "second" PROVE vcmap'[v] = Aggregate(v)
        OBVIOUS
      <3>1. CASE v = u
        BY <1>2, <3>1
      <3>2. CASE v # u
        <4>1. vcmap[v] = Aggregate(v) /\ Aggregate(v) \in Nat
          BY <1>2, <3>2, AggregateIn DEF Claims
        <4>2. v # w
          BY <1>1, <3>2, <4>1 DEF Claims
        <4> QED
          BY <1>2, <4>1, <4>2
      <3> QED
        BY <3>1, <3>2
    <2> QED
      BY <1>1, <2>1, <2>2, <2>3, <2>4, <2>5 DEF Claims
  <1> QED
    BY <1>3, <1>6

LEMMA MapFirstStep ==
  ASSUME IInv, Rounds, NEW u \in V, MapFirst(u)
  PROVE  IInv'
  <1>1. /\ pc[u] = "first" /\ pc' = [pc EXCEPT ![u] = "second"]
        /\ vcmap' = [vcmap EXCEPT ![u] = Aggregate(u)]
        /\ UNCHANGED <<heuristic, adj, ordering, hn, match, perm, swap, nc, ph, cv>>
    BY DEF MapFirst, InKernel, problem, Goto
  <1>2. /\ Shape /\ Claims /\ vcmap \in [V -> Nat \union {ORD_MAX}]
        /\ Holds(u, u)
    BY <1>1, ItemIn DEF Holds
  <1>3. PICK a \in Nat : a = Aggregate(u)
    BY <1>2, AggregateIn
  <1>4. Shape' /\ Claims'
    BY <1>1, <1>2, <1>3, MapStep
  <1> QED
    BY <1>4 DEF IInv

LEMMA MapSecondStep ==
  ASSUME IInv, Rounds, NEW u \in V, MapSecond(u)
  PROVE  IInv'
  <1>1. /\ pc[u] = "second" /\ pc' = [pc EXCEPT ![u] = "out"]
        /\ vcmap' = [vcmap EXCEPT ![hn[u]] = Aggregate(u)]
        /\ UNCHANGED <<heuristic, adj, ordering, hn, match, perm, swap, nc, ph, cv>>
    BY DEF MapSecond, InKernel, problem, Goto
  <1>2. PICK h \in V : h = hn[u]
    BY ItemIn
  <1>3. /\ Shape /\ Claims /\ vcmap \in [V -> Nat \union {ORD_MAX}]
        /\ Holds(u, h) \/ (h = u /\ vcmap[u] = Aggregate(u))
        /\ \A x \in V : Holds(u, x) => x = h
    BY <1>1, <1>2, ItemIn DEF Holds, Claims
  <1>4. PICK a \in Nat : a = Aggregate(u)
    BY <1>3, AggregateIn
  <1>5. Shape' /\ Claims'
    BY <1>1, <1>2, <1>3, <1>4, MapStep
  <1> QED
    BY <1>5 DEF IInv

LEMMA JoinOtherStep ==
  ASSUME IInv, Rounds, NEW u \in V, JoinOther(u)
  PROVE  IInv'
  <1>1. /\ pc[u] = "read"
        /\ UNCHANGED <<heuristic, adj, ordering, hn, match, perm, swap, nc, ph, cv>>
    BY DEF JoinOther, InKernel, problem
  <1>2. PICK h \in V : h = hn[u]
    BY ItemIn
  <1>3. /\ Shape /\ Claims /\ vcmap \in [V -> Nat \union {ORD_MAX}] /\ V' = V
        /\ Holds(u, u) /\ \A x \in V : Holds(u, x) => x = u
    BY <1>1, ItemIn DEF Holds, V
  <1>4. CASE vcmap[h] # ORD_MAX
    <2>1. PICK a \in Nat : a = vcmap[h]
      BY <1>3, <1>4
    <2>2. vcmap' = [vcmap EXCEPT ![u] = a] /\ pc' = [pc EXCEPT ![u] = "out"]
      BY <1>2, <1>4, <2>1 DEF JoinOther, Goto
    <2>3. Shape' /\ Claims'
      BY <1>1, <1>3, <2>2, MapStep
    <2> QED
      BY <2>3 DEF IInv
  <1>5. CASE vcmap[h] = ORD_MAX
    <2>1. UNCHANGED vcmap /\ pc' = [pc EXCEPT ![u] = "undo"]
      BY <1>2, <1>5 DEF JoinOther, Goto
    <2>2. pc'[u] = "undo" /\ DOMAIN pc' = V /\ \A v \in V : v # u => pc'[v] = pc[v]
      BY <1>3, <2>1 DEF Shape
    <2>3. \A v, w \in V : Holds(v, w)' <=> Holds(v, w)
      BY <1>1, <2>2 DEF Holds
    <2>4. Shape'
      BY <1>1, <1>3, <2>1, <2>2 DEF Shape
    <2>5. Claims'
      <3>1. \A w \in V : Wanted(w)' => Wanted(w)
        BY <1>1, <1>3, <2>2 DEF Wanted
      <3> QED
        BY <1>1, <1>3, <2>1, <2>2, <2>3, <3>1 DEF Claims, Aggregate
    <2> QED
      BY <2>4, <2>5 DEF IInv
  <1> QED
    BY <1>4, <1>5

LEMMA UndoStep ==
  ASSUME IInv, Rounds, NEW u \in V, Undo(u)
  PROVE  IInv'
  <1>1. /\ pc[u] = "undo" /\ pc' = [pc EXCEPT ![u] = "out"]
        /\ match' = [match EXCEPT ![u] = ORD_MAX]
        /\ UNCHANGED <<heuristic, adj, ordering, hn, vcmap, perm, swap, nc, ph, cv>>
    BY DEF Undo, InKernel, problem, Goto
  <1>2. /\ Shape /\ Claims /\ V' = V /\ ORD_MAX \in Int
        /\ Holds(u, u) /\ \A x \in V : Holds(u, x) => x = u
    BY <1>1, ItemIn DEF Holds, V, ORD_MAX
  <1>3. /\ match'[u] = ORD_MAX /\ \A w \in V : w # u => match'[w] = match[w]
        /\ match' \in [V -> Int]
        /\ pc'[u] = "out" /\ DOMAIN pc' = V /\ \A v \in V : v # u => pc'[v] = pc[v]
    BY <1>1, <1>2 DEF Shape
  <1>4. \A v, w \in V : Holds(v, w)' <=> Holds(v, w) /\ v # u
    BY <1>1, <1>3 DEF Holds
  <1>5. \A v, w \in V : Holds(v, w)' => w # u
    BY <1>2, <1>4 DEF Claims
  <1>6. Shape'
    BY <1>1, <1>2, <1>3 DEF Shape
  <1>7. Claims'
    <2>1. vcmap[u] = ORD_MAX
      BY <1>2 DEF Claims
    <2>2. \A w \in V : (ph = "round" \/ Wanted(w)') /\ vcmap[w] # ORD_MAX => match'[w] # ORD_MAX
      <3>1. \A w \in V : Wanted(w)' => Wanted(w)
        BY <1>1, <1>2, <1>3 DEF Wanted
      <3> QED
        BY <1>2, <1>3, <2>1, <3>1 DEF Claims
    <2>3. ph = "round" => \A w \in V : vcmap[w] = ORD_MAX /\ match'[w] # ORD_MAX => \E v \in V : Holds(v, w)'
      BY <1>2, <1>3, <1>4 DEF Claims
    <2>4. \A v, w \in V : Holds(v, w)' => vcmap[w] = ORD_MAX /\ match'[w] # ORD_MAX
      BY <1>2, <1>3, <1>4, <1>5 DEF Claims
    <2>5. \A v, x, w \in V : Holds(v, w)' /\ Holds(x, w)' => v = x
      BY <1>2, <1>4 DEF Claims
    <2>6. \A v \in V : pc'[v] = "second" => vcmap[v] = Aggregate(v)
      BY <1>2, <1>3 DEF Claims
    <2> QED
      BY <1>1, <1>2, <2>2, <2>3, <2>4, <2>5, <2>6 DEF Claims, Aggregate
  <1> QED
    BY <1>6, <1>7 DEF IInv

-----------------------------------------------------------------------------
(* The kernels before the rounds, and the host. *)

\* The least of a set of vertices that is not empty is one of them.
LEMMA MinIn ==
  ASSUME Shape, NEW S \in SUBSET V, S # {}
  PROVE  MinOf(S) \in S /\ \A u \in S : MinOf(S) <= u
  <1>1. \E b \in S : \A c \in S : b <= c
    <2>1. S \in SUBSET Nat
      BY VerticesAreFinite
    <2> QED
      BY <2>1, LeastOf
  <1> QED
    BY <1>1 DEF MinOf

LEMMA EarlyStep ==
  ASSUME IInv, NEW u \in V, AdoptNeighbour(u) \/ LookAlong(u) \/ TakeAlong(u)
  PROVE  IInv'
  <1>1. Before /\ ph' = ph /\ UNCHANGED <<heuristic, adj, ordering, hn, match, nc>>
    BY DEF AdoptNeighbour, LookAlong, TakeAlong, Adopting, Before, problem
  <1>2. /\ Shape /\ V' = V /\ ~ Rounds' /\ vcmap \in [V -> Nat \union {ORD_MAX}]
        /\ ph # "done" /\ V \subseteq Nat
    BY <1>1, VerticesAreFinite DEF IInv, V, Before, Rounds, Shape
  <1>3. DOMAIN pc' = V
    BY <1>2 DEF Shape, AdoptNeighbour, LookAlong, TakeAlong
  <1>4. vcmap' \in [V -> Nat \union {ORD_MAX}]
    <2>1. CASE UNCHANGED vcmap
      BY <1>2, <2>1
    <2>2. CASE \E v \in adj[u] : vcmap' = [vcmap EXCEPT ![u] = vcmap[v]]
      BY <1>2, <2>2 DEF Shape
    <2>3. CASE vcmap' = [vcmap EXCEPT ![cv[u]] = vcmap[u]]
      BY <1>2, <2>3
    <2> QED
      BY <2>1, <2>2, <2>3 DEF AdoptNeighbour, LookAlong, TakeAlong
  <1>5. cv' \in [V -> Nat]
    <2>1. CASE UNCHANGED cv
      BY <1>2, <2>1 DEF Shape
    <2>2. CASE LookAlong(u) /\ ~ UNCHANGED cv
      <3> DEFINE left == {v \in adj[u] : v >= cv[u] /\ vcmap[v] = ORD_MAX}
      <3>1. left # {} /\ cv' = [cv EXCEPT ![u] = MinOf(left)] /\ left \in SUBSET V
        BY <1>2, <2>2 DEF LookAlong, Shape
      <3> HIDE DEF left
      <3>2. MinOf(left) \in V
        BY <1>2, <3>1, MinIn
      <3> QED
        BY <1>2, <3>1, <3>2 DEF Shape
    <2>3. CASE TakeAlong(u)
      BY <1>2, <2>3 DEF TakeAlong, Shape
    <2> QED
      BY <2>1, <2>2, <2>3 DEF AdoptNeighbour
  <1>6. Shape'
    BY <1>1, <1>2, <1>3, <1>4, <1>5 DEF Shape
  <1> QED
    BY <1>2, <1>6 DEF IInv

LEMMA ItemStep ==
  ASSUME IInv, NEW u \in V, Item(u)
  PROVE  IInv'
  <1>1. CASE AdoptNeighbour(u) \/ LookAlong(u) \/ TakeAlong(u)
    BY <1>1, EarlyStep
  <1>2. CASE \/ ClaimOwn(u) \/ ClaimOther(u) \/ CountCoarse(u) \/ MapFirst(u)
             \/ MapSecond(u) \/ JoinOther(u) \/ Undo(u)
    <2>1. Rounds
      BY <1>2 DEF ClaimOwn, ClaimOther, CountCoarse, MapFirst, MapSecond, JoinOther, Undo,
         InKernel, Rounds
    <2> QED
      BY <1>2, <2>1, ClaimOwnStep, ClaimOtherStep, CountCoarseStep, MapFirstStep, MapSecondStep,
         JoinOtherStep, UndoStep
  <1> QED
    BY <1>1, <1>2 DEF Item

\* At the start of a kernel and at its end nobody holds anything.
LEMMA IdleHoldsNothing ==
  ASSUME \A u \in V : pc[u] \in {"start", "out"}
  PROVE  \A u, w \in V : ~ Holds(u, w)
  BY DEF Holds

LEMMA SpreadStep ==
  ASSUME IInv, Spread
  PROVE  IInv'
  <1>1. /\ Shape /\ V' = V /\ UNCHANGED <<heuristic, adj, ordering, vcmap, nc>>
        /\ vcmap \in [V -> Nat \union {ORD_MAX}]
    BY DEF IInv, Spread, problem, V, Shape
  <1>2. /\ \A u \in V : pc'[u] \in {"start", "out"}
        /\ DOMAIN pc' = V /\ cv' \in [V -> Nat]
    BY <1>1 DEF Spread, Launch
  <1>3. n + 1 \in Int /\ n + 1 # ORD_MAX /\ ORD_MAX \in Int
    BY <1>1, VerticesAreFinite DEF ORD_MAX
  <1>4. match' \in [V -> Int] /\ \A u \in V : vcmap[u] = ORD_MAX <=> match'[u] = ORD_MAX
    BY <1>3 DEF Spread
  <1>5. hn' \in [V -> V]
    <2>1. PICK choice \in [Unmapped -> V] :
            hn' = [u \in V |-> IF u \in Unmapped THEN choice[u] ELSE hn[u]]
      BY DEF Spread
    <2> QED
      BY <1>1, <2>1 DEF Shape
  <1>6. Shape'
    BY <1>1, <1>2, <1>4, <1>5 DEF Shape
  <1>7. Claims'
    <2>1. \A u, w \in V : ~ Holds(u, w)'
      BY <1>2 DEF Holds
    <2>2. \A u \in V : pc'[u] # "second"
      BY <1>2
    <2> QED
      BY <1>1, <1>4, <2>1, <2>2 DEF Claims
  <1> QED
    BY <1>6, <1>7 DEF IInv

\* A round ends with every item out, and the next one starts with what it has left.
LEMMA NextRoundStep ==
  ASSUME IInv, EndRound \/ EndMatchRound
  PROVE  IInv'
  <1>1. /\ ph = "round" /\ AllOut
        /\ UNCHANGED <<heuristic, adj, ordering, vcmap, match, nc, cv>>
        /\ ph' # "relatives"
    BY DEF EndRound, EndMatchRound, problem
  <1>2. Shape /\ Claims /\ V' = V /\ vcmap \in [V -> Nat \union {ORD_MAX}]
    BY <1>1 DEF IInv, V, Rounds, Shape
  <1>3. \A u \in V : pc'[u] \in {"start", "out"}
    BY DEF EndRound, EndMatchRound, Launch
  <1>4. DOMAIN pc' = V
    BY DEF EndRound, EndMatchRound, Launch
  <1>5. hn' \in [V -> V]
    <2>1. CASE EndRound
      BY <1>2, <2>1 DEF EndRound, Shape
    <2>2. CASE EndMatchRound
      <3> DEFINE next == {u \in perm \intersect Unmapped : adj[u] \intersect Unmapped # {}}
      <3>1. PICK choice \in [next -> Unmapped] :
              hn' = [u \in V |-> IF u \in next THEN choice[u] ELSE hn[u]]
        BY <2>2 DEF EndMatchRound
      <3> HIDE DEF next
      <3>2. Unmapped \subseteq V
        BY DEF Unmapped
      <3> QED
        BY <1>2, <3>1, <3>2 DEF Shape
    <2> QED
      BY <2>1, <2>2
  <1>6. Shape'
    BY <1>1, <1>2, <1>4, <1>5 DEF Shape
  <1>7. Claims'
    <2>1. \A u, w \in V : ~ Holds(u, w)
      BY <1>1, IdleHoldsNothing DEF AllOut
    <2>2. \A u, w \in V : ~ Holds(u, w)'
      BY <1>3 DEF Holds
    <2>3. \A u \in V : pc'[u] # "second"
      BY <1>3
    <2>4. \A w \in V : vcmap[w] # ORD_MAX <=> match[w] # ORD_MAX
      BY <1>1, <1>2, <2>1 DEF Claims
    <2> QED
      BY <1>1, <1>2, <2>2, <2>3, <2>4 DEF Claims
  <1> QED
    BY <1>6, <1>7 DEF IInv

\* The sets of pairs and the numbers of vertices in order are numbers.
LEMMA CountsAreNumbers ==
  ASSUME Shape
  PROVE  /\ \A S \in SUBSET V : Cardinality(S) \in Nat /\ \A u \in V : RankIn(S, u) \in Nat
         /\ \A T \in SUBSET SUBSET V : IsFiniteSet(T) /\ Cardinality(T) \in Nat
  <1>1. IsFiniteSet(V) /\ IsFiniteSet(SUBSET V)
    BY VerticesAreFinite, FS_SUBSET
  <1>2. ASSUME NEW S \in SUBSET V, NEW u \in V
        PROVE  Cardinality(S) \in Nat /\ RankIn(S, u) \in Nat
    <2>1. {y \in S : y < u} \in SUBSET V
      OBVIOUS
    <2> QED
      BY <1>1, <2>1, FS_Subset, FS_CardinalityType DEF RankIn
  <1>3. ASSUME NEW S \in SUBSET V PROVE Cardinality(S) \in Nat
    BY <1>1, FS_Subset, FS_CardinalityType
  <1>4. ASSUME NEW T \in SUBSET SUBSET V PROVE IsFiniteSet(T) /\ Cardinality(T) \in Nat
    BY <1>1, FS_Subset, FS_CardinalityType
  <1> QED
    BY <1>2, <1>3, <1>4

LEMMA MapPairsShape ==
  ASSUME Shape, ph # "done", NEW pairs \in SUBSET SUBSET V, MapPairs(pairs),
         UNCHANGED <<heuristic, adj, hn, match, pc, cv>>
  PROVE  Shape'
  <1>1. V' = V /\ vcmap \in [V -> Nat \union {ORD_MAX}] /\ nc \in Nat
    BY DEF V, Shape
  <1>2. \A T \in SUBSET pairs : Cardinality(T) \in Nat
    BY CountsAreNumbers
  <1>3. nc' \in Nat
    BY <1>1, <1>2 DEF MapPairs
  <1>4. \A k \in pairs : nc + Cardinality({q \in pairs : MinOf(q) < MinOf(k)}) \in Nat
    <2> SUFFICES ASSUME NEW k \in pairs
                 PROVE  nc + Cardinality({q \in pairs : MinOf(q) < MinOf(k)}) \in Nat
      OBVIOUS
    <2>1. PICK T \in SUBSET pairs : T = {q \in pairs : MinOf(q) < MinOf(k)}
      OBVIOUS
    <2> QED
      BY <1>1, <1>2, <2>1
  <1>5. ASSUME NEW u \in V, \E p \in pairs : u \in p
        PROVE  (CHOOSE p \in pairs : u \in p) \in pairs
    BY <1>5
  <1>6. vcmap' \in [V -> Nat \union {ORD_MAX}]
    <2> DEFINE new(u) == LET p == CHOOSE p \in pairs : u \in p
                         IN  nc + Cardinality({q \in pairs : MinOf(q) < MinOf(p)})
    <2>1. vcmap' = [u \in V |-> IF \E p \in pairs : u \in p THEN new(u) ELSE vcmap[u]]
      BY DEF MapPairs
    <2>2. \A u \in V : (\E p \in pairs : u \in p) => new(u) \in Nat
      BY <1>4, <1>5
    <2> HIDE DEF new
    <2> QED
      BY <1>1, <2>1, <2>2
  <1> QED
    BY <1>1, <1>3, <1>6 DEF Shape

\* The pairs that the two kernels of MtMetis map
LeafPairs ==
  LET leaves(u) == {v \in adj[u] \intersect Unmapped : Cardinality(adj[v]) = 1}
  IN  IF ManyUnmapped THEN UNION {PairUp(leaves(u)) : u \in V \ Unmapped} ELSE {}
TwinPairs(collide) ==
  LET group(u) == {v \in Unmapped : collide \/ adj[v] = adj[u]}
  IN  IF ManyUnmapped THEN UNION {PairUp(group(u)) : u \in Unmapped} ELSE {}

LEMMA PairsAreSets ==
  /\ LeafPairs \in SUBSET SUBSET V
  /\ \A collide \in BOOLEAN : TwinPairs(collide) \in SUBSET SUBSET V
  <1>1. \A S \in SUBSET V : PairUp(S) \subseteq SUBSET V
    BY DEF PairUp, kSubset
  <1>2. Unmapped \subseteq V
    BY DEF Unmapped
  <1>3. LeafPairs \in SUBSET SUBSET V
    <2> DEFINE leaves(u) == {v \in adj[u] \intersect Unmapped : Cardinality(adj[v]) = 1}
    <2>1. \A u : PairUp(leaves(u)) \subseteq SUBSET V
      BY <1>1, <1>2
    <2>2. LeafPairs = IF ManyUnmapped THEN UNION {PairUp(leaves(u)) : u \in V \ Unmapped} ELSE {}
      BY DEF LeafPairs
    <2> HIDE DEF leaves
    <2> QED
      BY <2>1, <2>2
  <1>4. ASSUME NEW collide \in BOOLEAN PROVE TwinPairs(collide) \in SUBSET SUBSET V
    <2> DEFINE group(u) == {v \in Unmapped : collide \/ adj[v] = adj[u]}
    <2>1. \A u : PairUp(group(u)) \subseteq SUBSET V
      BY <1>1, <1>2
    <2>2. TwinPairs(collide) = IF ManyUnmapped THEN UNION {PairUp(group(u)) : u \in Unmapped} ELSE {}
      BY DEF TwinPairs
    <2> HIDE DEF group
    <2> QED
      BY <2>1, <2>2
  <1> QED
    BY <1>3, <1>4

LEMMA PairStep ==
  ASSUME Shape, MatchLeaves \/ MatchTwins
  PROVE  /\ UNCHANGED <<heuristic, adj, hn, match, perm, swap, pc, cv>> /\ Shape'
         /\ \/ MatchLeaves /\ MapPairs(LeafPairs)
            \/ MatchTwins /\ \E collide \in BOOLEAN : MapPairs(TwinPairs(collide))
  <1>1. /\ UNCHANGED <<heuristic, adj, hn, match, perm, swap, pc, cv>> /\ ph # "done"
        /\ \/ MatchLeaves /\ MapPairs(LeafPairs)
           \/ MatchTwins /\ \E collide \in BOOLEAN : MapPairs(TwinPairs(collide))
    BY DEF MatchLeaves, MatchTwins, LeafPairs, TwinPairs, problem
  <1>2. \E pairs \in SUBSET SUBSET V : MapPairs(pairs)
    BY <1>1, PairsAreSets
  <1> QED
    BY <1>1, <1>2, MapPairsShape

\* A vertex that may be wanted in this kernel has no aggregate yet.
LEMMA ChooseRelativesStep ==
  ASSUME IInv, ChooseRelatives
  PROVE  IInv'
  <1>1. /\ ph = "chooseRelatives" /\ ph' \in {"singletons", "relatives"}
        /\ UNCHANGED <<heuristic, adj, ordering, vcmap, match, swap, nc, cv>>
    BY DEF ChooseRelatives, problem
  <1>2. Shape /\ V' = V
    BY <1>1 DEF IInv, V
  <1>3. CASE UNCHANGED <<hn, perm, pc>> /\ ph' = "singletons"
    BY <1>1, <1>2, <1>3 DEF IInv, Shape, Rounds
  <1> DEFINE all == {u \in Unmapped : Relatives(u) # {}}
             next == {u \in (IF perm = {} THEN Unmapped ELSE perm) : u \in Unmapped /\ Relatives(u) # {}}
  <1>4. CASE /\ \E choice \in [all -> V] :
                  /\ \A u \in all : choice[u] \in Relatives(u)
                  /\ hn' = [u \in V |-> IF u \in all THEN choice[u] ELSE hn[u]]
             /\ Launch(next)
             /\ ph' = IF next = {} THEN "singletons" ELSE "relatives"
    <2>1. \A u \in all : Relatives(u) \subseteq Unmapped
      BY DEF Relatives, PairUp, kSubset
    <2>2. next \subseteq all /\ all \subseteq V
      BY DEF Unmapped
    <2> HIDE DEF all, next
    <2>3. PICK choice \in [all -> V] :
            /\ \A u \in all : choice[u] \in Relatives(u)
            /\ hn' = [u \in V |-> IF u \in all THEN choice[u] ELSE hn[u]]
      BY <1>4
    <2>4. hn' \in [V -> V] /\ \A u \in next : hn'[u] \in Unmapped
      BY <1>2, <2>1, <2>2, <2>3 DEF Shape
    <2>5. /\ \A u \in V : pc'[u] \in {"start", "out"} /\ (pc'[u] = "start" => u \in next)
          /\ DOMAIN pc' = V
      BY <1>4 DEF Launch
    <2>6. Shape'
      BY <1>1, <1>2, <2>4, <2>5 DEF Shape
    <2>7. Claims'
      <3>1. \A u, w \in V : ~ Holds(u, w)'
        BY <2>5 DEF Holds
      <3>2. \A w \in V : Wanted(w)' => vcmap[w] = ORD_MAX
        BY <1>2, <2>2, <2>4, <2>5 DEF Wanted, Unmapped, all
      <3>3. \A u \in V : pc'[u] # "second"
        BY <2>5
      <3> QED
        BY <1>1, <1>2, <3>1, <3>2, <3>3 DEF Claims
    <2> QED
      BY <2>6, <2>7 DEF IInv
  <1> QED
    BY <1>3, <1>4 DEF ChooseRelatives

LEMMA HostStep ==
  ASSUME IInv, Host
  PROVE  IInv'
  <1>1. CASE Adopted
    <2>1. /\ ph' \in {"adoptMore", "spread"} /\ ph # "done"
          /\ UNCHANGED <<heuristic, adj, ordering, hn, vcmap, match, nc, cv>>
      BY <1>1 DEF Adopted, Adopting, problem
    <2>2. Shape /\ V' = V /\ DOMAIN pc' = V /\ vcmap \in [V -> Nat \union {ORD_MAX}]
      BY <1>1, <2>1 DEF IInv, V, Adopted, Launch, Shape
    <2>3. Shape'
      BY <2>1, <2>2 DEF Shape
    <2> QED
      BY <2>1, <2>3 DEF IInv, Rounds
  <1>2. CASE Spread
    BY <1>2, SpreadStep
  <1>3. CASE EndRound \/ EndMatchRound
    BY <1>3, NextRoundStep
  <1>4. CASE AssignAggregates
    <2>1. /\ ph = "assign" /\ ph' = "propagate"
          /\ UNCHANGED <<heuristic, adj, ordering, hn, match, perm, swap, pc, cv>>
      BY <1>4 DEF AssignAggregates, problem
    <2>2. Shape /\ V' = V /\ vcmap \in [V -> Nat \union {ORD_MAX}]
      BY <2>1 DEF IInv, V, Shape
    <2> DEFINE roots == {u \in V : vcmap[u] = u}
    <2>3. /\ nc' = Cardinality(roots)
          /\ vcmap' = [u \in V |-> IF u \in roots THEN RankIn(roots, u) ELSE vcmap[u] + n]
      BY <1>4 DEF AssignAggregates
    <2>4. roots \in SUBSET V
      OBVIOUS
    <2> HIDE DEF roots
    <2>5. Cardinality(roots) \in Nat /\ \A u \in V : RankIn(roots, u) \in Nat
      BY <2>2, <2>4, CountsAreNumbers
    <2>6. \A u \in V : vcmap[u] + n \in Nat
      <3>1. n \in Nat /\ IsFiniteSet(V)
        BY <2>2, VerticesAreFinite
      <3>2. V # {} => n # 0
        BY <3>1, FS_EmptySet DEF n
      <3> QED
        BY <2>2, <3>1, <3>2 DEF ORD_MAX
    <2>7. vcmap' \in [V -> Nat \union {ORD_MAX}]
      BY <2>3, <2>5, <2>6
    <2>8. Shape'
      BY <2>1, <2>2, <2>3, <2>5, <2>7 DEF Shape
    <2> QED
      BY <2>1, <2>8 DEF IInv, Rounds
  <1>5. CASE PropagateAggregates
    <2>1. /\ ph' = "done"
          /\ UNCHANGED <<heuristic, adj, ordering, hn, match, perm, swap, nc, pc, cv>>
      BY <1>5 DEF PropagateAggregates, problem
    <2> QED
      BY <2>1 DEF IInv, Rounds, Shape, V
  <1>6. CASE MatchLeaves \/ MatchTwins
    <2>1. Shape'
      BY <1>6, PairStep DEF IInv
    <2>2. ~ Rounds'
      BY <1>6 DEF MatchLeaves, MatchTwins, Rounds
    <2> QED
      BY <2>1, <2>2 DEF IInv
  <1>7. CASE ChooseRelatives
    BY <1>7, ChooseRelativesStep
  <1>8. CASE EndRelatives
    <2>1. /\ ph = "relatives" /\ ph' = "chooseRelatives"
          /\ UNCHANGED <<heuristic, adj, ordering, hn, vcmap, match, perm, nc, pc, cv>>
      BY <1>8 DEF EndRelatives, problem
    <2> QED
      BY <2>1 DEF IInv, Rounds, Shape, V
  <1>9. CASE Singletons
    <2>1. /\ ph' = "done" /\ nc' = nc + Cardinality(Unmapped)
          /\ UNCHANGED <<heuristic, adj, ordering, hn, match, perm, swap, pc, cv>>
      BY <1>9 DEF Singletons, problem
    <2>2. Cardinality(Unmapped) \in Nat
      <3>1. Unmapped \in SUBSET V
        BY DEF Unmapped
      <3> QED
        BY <3>1, CountsAreNumbers DEF IInv
    <2> QED
      BY <2>1, <2>2 DEF IInv, Rounds, Shape, V
  <1> QED
    BY <1>1, <1>2, <1>3, <1>4, <1>5, <1>6, <1>7, <1>8, <1>9 DEF Host

-----------------------------------------------------------------------------
\* The claims are consistent in every state of a round: whoever an item has won by
\* a compare-exchange on match is without an aggregate until the item gives it one
\* or takes the claim back (lines 144-158, 205-222, 855-864).
THEOREM ClaimsAreConsistent == Spec => []IInv
  <1>1. Init => IInv
    BY InitOK
  <1>2. IInv /\ [Next]_vars => IInv'
    <2> SUFFICES ASSUME IInv, [Next]_vars PROVE IInv'
      OBVIOUS
    <2>1. CASE UNCHANGED vars
      <3>1. V' = V /\ (ph' = ph)
        BY <2>1 DEF vars, V
      <3>2. Shape => Shape'
        BY <2>1, <3>1 DEF vars, Shape
      <3>3. Claims => Claims'
        BY <2>1, <3>1 DEF vars, Claims, Holds, Wanted, Aggregate
      <3> QED
        BY <3>1, <3>2, <3>3 DEF IInv, Rounds
    <2>2. CASE \E u \in V : Item(u)
      BY <2>2, ItemStep
    <2>3. CASE Host
      BY <2>3, HostStep
    <2> QED
      BY <2>1, <2>2, <2>3 DEF Next, Terminated
  <1> QED
    BY <1>1, <1>2, PTL DEF Spec

\* Whatever the graph, the order and the choices of neighbours are: no round
\* leaves half a match behind.
THEOREM NobodyIsHalfMatched == Spec => []NoHalfMatch
  <1>1. IInv => NoHalfMatch
    <2> SUFFICES ASSUME IInv, AllOut, ph = "round"
                 PROVE  \A u \in V : match[u] = ORD_MAX <=> vcmap[u] = ORD_MAX
      BY DEF NoHalfMatch
    <2>1. \A u, w \in V : ~ Holds(u, w)
      BY IdleHoldsNothing DEF AllOut
    <2> QED
      BY <2>1 DEF IInv, Claims, Rounds
  <1> QED
    BY <1>1, ClaimsAreConsistent, PTL

-----------------------------------------------------------------------------
(***************************************************************************)
(* The aggregates.  Between the kernels every coarse vertex has somebody   *)
(* in it and hangs together; in a round some are still in the hands of an  *)
(* item.                                                                   *)
(***************************************************************************)
InAggregate(c) == {u \in V : vcmap[u] = c}
Joined(u, v) == v \in adj[u] \/ (adj[u] = {} /\ v = hn[u])
HangsTogether(M) ==
  \A S \in (SUBSET M) \ {{}, M} : \E u \in S, v \in M \ S : Joined(u, v) \/ Joined(v, u)
ByEdges == heuristic \in {"HEC", "Match"}
Late == {"leaves", "twins", "chooseRelatives", "singletons"}

\* the kernel belongs to the heuristic, and no item is left of the one before
InOrder ==
  /\ heuristic = "MtMetis" => \A u, v \in V : v \in adj[u] => u \in adj[v]
  /\ Before => heuristic = "GOSHv2"
  /\ ph \in {"assign", "propagate"} => heuristic = "HEC"
  /\ ph \in Late \union {"relatives"} => Matching
  /\ ph = "singletons" \/ heuristic = "MtMetis" \/ ph \notin Late \union {"relatives"}
  /\ ph \in Late \union {"assign"} => AllOut
  /\ Before \/ Rounds \/ ph \in Late \union {"assign", "propagate", "done"}

\* GOSHv2: every aggregate keeps the vertex that it was started for.
Heads == {u \in V : Cardinality(adj[u]) > Threshold}

Seeded ==
  /\ \A u \in V : vcmap[u] \in 0 .. nc - 1 \union {ORD_MAX}
  /\ \A u \in Heads : vcmap[u] # ORD_MAX
  /\ \A c \in 0 .. nc - 1 : \E u \in Heads : vcmap[u] = c
  /\ \A u \in V : pc[u] = "take" => cv[u] \in V \ Heads /\ vcmap[u] # ORD_MAX

\* Every number below nc is that of an aggregate, or of an item that has drawn it
\* and is about to map its vertex.
Numbered ==
  /\ \A u \in V : vcmap[u] \in 0 .. nc - 1 \union {ORD_MAX}
  /\ \A u \in V : pc[u] = "first" => cv[u] \in 0 .. nc - 1 /\ InAggregate(cv[u]) = {}
  /\ \A u, v \in V : pc[u] = "first" /\ pc[v] = "first" /\ cv[u] = cv[v] => u = v
  /\ \A c \in 0 .. nc - 1 : InAggregate(c) # {} \/ \E u \in V : pc[u] = "first" /\ cv[u] = c

Paired ==
  /\ \A u \in V : pc[u] # "read"
  /\ \A u \in V : pc[u] = "second" => InAggregate(cv[u]) = {u}
  /\ \A c \in Nat : \A u, v, w \in InAggregate(c) : u = v \/ u = w \/ v = w

\* HEC: the root of an aggregate is in it, or an item is about to put it there.
Rooted ==
  /\ \A u \in V : vcmap[u] \in V \union {ORD_MAX}
  /\ \A c \in V, u \in V : vcmap[u] = c =>
       vcmap[c] = c \/ \E v \in V : Holds(v, c) /\ pc[v] = "second" /\ vcmap[v] = c

\* HEC between its two last kernels: R is the set of roots and f[u] the root of u
Renaming ==
  \E R \in SUBSET V : \E f \in [V -> R] :
    /\ \A r \in R : f[r] = r /\ HangsTogether({u \in V : f[u] = r})
    /\ vcmap = [u \in V |-> IF u \in R THEN RankIn(R, u) ELSE f[u] + n]
    /\ nc = Cardinality(R)

AInv ==
  /\ InOrder
  /\ Before => Seeded
  /\ (Rounds \/ ph \in Late) /\ heuristic # "HEC" => Numbered
  /\ (Rounds \/ ph \in Late) /\ Matching => Paired
  /\ ph \in {"round", "assign"} /\ heuristic = "HEC" => Rooted
  /\ ph = "round" /\ ~ Matching => Unmapped \subseteq perm
  /\ ph = "assign" => Unmapped = {}
  /\ ByEdges => \A u \in V : hn[u] \in HeavyNeighbours(u)
  /\ ByEdges /\ ph \in {"round", "assign", "singletons"} => \A c \in Nat : HangsTogether(InAggregate(c))
  /\ ph = "propagate" => Renaming
  /\ Aggregates

-----------------------------------------------------------------------------
(* An item gives a vertex to an aggregate. *)

LEMMA GrowsTogether ==
  ASSUME NEW M, NEW w, HangsTogether(M),
         M = {} \/ \E m \in M : Joined(m, w) \/ Joined(w, m)
  PROVE  HangsTogether(M \union {w})
  <1> SUFFICES ASSUME NEW S \in SUBSET (M \union {w}), S # {}, S # M \union {w}
               PROVE  \E u \in S, v \in (M \union {w}) \ S : Joined(u, v) \/ Joined(v, u)
    BY DEF HangsTogether
  <1>1. CASE w \in M
    <2>1. S \in (SUBSET M) \ {{}, M}
      BY <1>1
    <2> QED
      BY <2>1 DEF HangsTogether
  <1>2. CASE w \notin M /\ S \intersect M \in {{}, M}
    <2>1. S = {w} \/ S = M
      BY <1>2
    <2>2. PICK m \in M : Joined(m, w) \/ Joined(w, m)
      BY <1>2, <2>1
    <2> QED
      BY <1>2, <2>1, <2>2
  <1>3. CASE S \intersect M \notin {{}, M}
    <2>1. PICK u \in S \intersect M, v \in M \ (S \intersect M) : Joined(u, v) \/ Joined(v, u)
      BY <1>3 DEF HangsTogether
    <2> QED
      BY <2>1
  <1> QED
    BY <1>1, <1>2, <1>3

\* The choice of a vertex without neighbours stays, and so does what hangs together.
LEMMA StaysTogether ==
  ASSUME UNCHANGED adj, \A u \in V : adj[u] = {} => hn'[u] = hn[u],
         NEW M \in SUBSET V, HangsTogether(M)
  PROVE  HangsTogether(M)'
  <1>1. \A u, v \in V : Joined(u, v)' <=> Joined(u, v)
    BY DEF Joined
  <1>2. \A S \in (SUBSET M) \ {{}, M} : \E u \in S, v \in M \ S : Joined(u, v) \/ Joined(v, u)
    BY DEF HangsTogether
  <1>3. \A S \in (SUBSET M) \ {{}, M} : \E u \in S, v \in M \ S : Joined(u, v)' \/ Joined(v, u)'
    <2> SUFFICES ASSUME NEW S \in (SUBSET M) \ {{}, M}
                 PROVE  \E u \in S, v \in M \ S : Joined(u, v)' \/ Joined(v, u)'
      OBVIOUS
    <2>1. PICK u \in S, v \in M \ S : Joined(u, v) \/ Joined(v, u)
      BY <1>2
    <2>2. u \in V /\ v \in V
      OBVIOUS
    <2> QED
      BY <1>1, <2>1, <2>2
  <1> QED
    BY <1>3 DEF HangsTogether

LEMMA SameTogether ==
  ASSUME UNCHANGED <<adj, vcmap>>, \A u \in V : adj[u] = {} => hn'[u] = hn[u],
         \A c \in Nat : HangsTogether(InAggregate(c))
  PROVE  \A c \in Nat : HangsTogether(InAggregate(c))'
  <1> SUFFICES ASSUME NEW c \in Nat PROVE HangsTogether(InAggregate(c))'
    OBVIOUS
  <1>1. PICK M \in SUBSET V : M = InAggregate(c)
    BY DEF InAggregate
  <1>2. HangsTogether(M)'
    BY <1>1, StaysTogether
  <1>3. M = InAggregate(c)'
    BY <1>1 DEF InAggregate, V
  <1> QED
    BY <1>2, <1>3

\* w, which has no aggregate, is mapped to a.
GivesTo(w, a) == vcmap[w] = ORD_MAX /\ vcmap' = [vcmap EXCEPT ![w] = a]

LEMMA MembersAfter ==
  ASSUME V' = V, vcmap \in [V -> Nat \union {ORD_MAX}], NEW w \in V, NEW a \in Nat, GivesTo(w, a)
  PROVE  /\ \A x \in V : vcmap'[x] = IF x = w THEN a ELSE vcmap[x]
         /\ \A c \in Nat : InAggregate(c)' = IF c = a THEN InAggregate(c) \union {w} ELSE InAggregate(c)
  BY DEF GivesTo, InAggregate, ORD_MAX

LEMMA GiveTogether ==
  ASSUME UNCHANGED <<adj, hn>>, vcmap \in [V -> Nat \union {ORD_MAX}],
         NEW w \in V, NEW a \in Nat, GivesTo(w, a),
         \A c \in Nat : HangsTogether(InAggregate(c)),
         InAggregate(a) = {} \/ \E m \in InAggregate(a) : Joined(m, w) \/ Joined(w, m)
  PROVE  \A c \in Nat : HangsTogether(InAggregate(c))'
  <1> SUFFICES ASSUME NEW c \in Nat PROVE HangsTogether(InAggregate(c))'
    OBVIOUS
  <1>1. V' = V
    BY DEF V
  <1>2. PICK M \in SUBSET V : M = IF c = a THEN InAggregate(c) \union {w} ELSE InAggregate(c)
    BY DEF InAggregate
  <1>3. HangsTogether(M)
    <2>1. CASE c = a
      BY <1>2, <2>1, GrowsTogether
    <2>2. CASE c # a
      BY <1>2, <2>2
    <2> QED
      BY <2>1, <2>2
  <1>4. HangsTogether(M)'
    BY <1>3, StaysTogether
  <1>5. InAggregate(c)' = M
    BY <1>1, <1>2, MembersAfter
  <1> QED
    BY <1>4, <1>5

\* The item of u takes a number it has drawn, or one that is in use.
LEMMA GiveNumbered ==
  ASSUME Shape, Numbered, vcmap \in [V -> Nat \union {ORD_MAX}], UNCHANGED <<adj, nc, cv>>,
         NEW u \in V, NEW w \in V, NEW a \in 0 .. nc - 1, GivesTo(w, a),
         NEW to \in {"second", "out"}, pc' = [pc EXCEPT ![u] = to],
         \/ pc[u] = "first" /\ a = cv[u]
         \/ pc[u] # "first" /\ InAggregate(a) # {}
  PROVE  Numbered'
  <1>1. V' = V /\ nc \in Nat /\ cv \in [V -> Nat]
    BY DEF V, Shape
  <1>2. /\ pc'[u] = to /\ to # "first" /\ \A v \in V : v # u => pc'[v] = pc[v]
        /\ a \in Nat
    BY <1>1 DEF Shape
  <1>3. /\ \A x \in V : vcmap'[x] = IF x = w THEN a ELSE vcmap[x]
        /\ \A c \in Nat : InAggregate(c)' = IF c = a THEN InAggregate(c) \union {w} ELSE InAggregate(c)
    BY <1>1, <1>2, MembersAfter
  <1>4. \A v \in V : vcmap'[v] \in 0 .. nc - 1 \union {ORD_MAX}
    BY <1>3 DEF Numbered
  <1>5. \A v \in V : pc'[v] = "first" => v # u /\ pc[v] = "first" /\ cv[v] # a
    <2> SUFFICES ASSUME NEW v \in V, pc'[v] = "first" PROVE v # u /\ pc[v] = "first" /\ cv[v] # a
      OBVIOUS
    <2>1. v # u /\ pc[v] = "first"
      BY <1>2
    <2>2. CASE pc[u] = "first" /\ a = cv[u]
      BY <2>1, <2>2 DEF Numbered
    <2>3. CASE InAggregate(a) # {}
      <3>1. InAggregate(cv[v]) = {}
        BY <2>1 DEF Numbered
      <3> QED
        BY <2>1, <2>3, <3>1
    <2> QED
      BY <2>2, <2>3
  <1>6. \A v \in V : pc'[v] = "first" => cv[v] \in 0 .. nc - 1 /\ InAggregate(cv[v])' = {}
    BY <1>1, <1>3, <1>5 DEF Numbered
  <1>7. \A c \in 0 .. nc - 1 : InAggregate(c)' # {} \/ \E v \in V : pc'[v] = "first" /\ cv[v] = c
    <2> SUFFICES ASSUME NEW c \in 0 .. nc - 1, InAggregate(c)' = {}
                 PROVE  \E v \in V : pc'[v] = "first" /\ cv[v] = c
      OBVIOUS
    <2>1. c \in Nat /\ c # a /\ InAggregate(c) = {}
      BY <1>1, <1>3
    <2>2. PICK v \in V : pc[v] = "first" /\ cv[v] = c
      BY <2>1 DEF Numbered
    <2>3. v # u
      BY <2>1, <2>2
    <2> QED
      BY <1>2, <2>2, <2>3
  <1>8. \A v, x \in V : pc'[v] = "first" /\ pc'[x] = "first" /\ cv[v] = cv[x] => v = x
    BY <1>5 DEF Numbered
  <1>9. \A v \in V : (InAggregate(cv[v]) = {})' <=> InAggregate(cv[v])' = {}
    BY DEF InAggregate
  <1> QED
    BY <1>1, <1>4, <1>6, <1>7, <1>8, <1>9 DEF Numbered, InAggregate

\* What an item of a round has to show.
LEMMA RoundsAfter ==
  ASSUME AInv, Rounds, UNCHANGED <<heuristic, adj, hn, perm, ph>>,
         heuristic # "HEC" => Numbered',
         Matching => Paired',
         ph = "round" /\ heuristic = "HEC" => Rooted',
         Unmapped' \subseteq Unmapped,
         ph = "round" /\ ByEdges => \A c \in Nat : HangsTogether(InAggregate(c))'
  PROVE  AInv'
  <1>1. /\ V' = V /\ Rounds' /\ ph \in {"round", "relatives"}
        /\ Matching' <=> Matching
        /\ ByEdges' <=> ByEdges
    BY DEF V, Rounds, Matching, ByEdges
  <1>2. ~ Before' /\ ph' \notin Late \union {"assign", "propagate", "done"}
    BY <1>1 DEF Before, Late, Rounds
  <1>3. InOrder'
    <2>1. InOrder
      BY DEF AInv
    <2> QED
      BY <1>1, <1>2, <2>1 DEF InOrder, Rounds
  <1>4. ph = "round" /\ ~ Matching => Unmapped' \subseteq perm
    BY DEF AInv
  <1>5. ByEdges => \A u \in V : (hn[u] \in HeavyNeighbours(u))'
    <2>1. \A u : HeavyNeighbours(u)' = HeavyNeighbours(u)
      BY <1>1 DEF HeavyNeighbours
    <2> QED
      BY <2>1 DEF AInv
  <1>6. Aggregates'
    BY <1>2 DEF Aggregates
  <1>7. /\ ph' \in {"round", "assign"} /\ heuristic' = "HEC" => Rooted'
        /\ ph' = "round" /\ ~ Matching' => Unmapped' \subseteq perm'
        /\ ByEdges' /\ ph' \in {"round", "assign", "singletons"} => \A c \in Nat : HangsTogether(InAggregate(c))'
        /\ ByEdges' => \A u \in V' : (hn[u] \in HeavyNeighbours(u))'
        /\ (Rounds' \/ ph' \in Late) /\ heuristic' # "HEC" => Numbered'
        /\ (Rounds' \/ ph' \in Late) /\ Matching' => Paired'
    BY <1>1, <1>4, <1>5
  <1>8. /\ Before' => Seeded'
        /\ ph' = "assign" => Unmapped' = {}
        /\ ph' = "propagate" => Renaming'
    BY <1>1, <1>2
  <1> QED
    BY <1>3, <1>6, <1>7, <1>8 DEF AInv

\* A step that maps nobody and draws no number.
LEMMA QuietStep ==
  ASSUME IInv, AInv, Rounds, NEW u \in V,
         UNCHANGED <<heuristic, adj, hn, vcmap, perm, nc, ph, cv>>,
         NEW to, pc' = [pc EXCEPT ![u] = to], pc[u] \notin {"first", "second"}, to # "second",
         to = "first" => heuristic = "HEC", to = "read" => ~ Matching
  PROVE  AInv'
  <1>1. /\ V' = V /\ DOMAIN pc = V
        /\ \A c : InAggregate(c)' = InAggregate(c)
        /\ Unmapped' = Unmapped
    BY ItemIn DEF V, Shape, InAggregate, Unmapped
  <1>2. pc'[u] = to /\ \A v \in V : v # u => pc'[v] = pc[v]
    BY <1>1
  <1>3. ASSUME heuristic # "HEC" PROVE Numbered'
    <2>1. Numbered
      BY <1>3 DEF AInv
    <2>2. \A v \in V : pc'[v] = "first" <=> pc[v] = "first"
      BY <1>2, <1>3
    <2>3. \A v \in V : InAggregate(cv[v])' = InAggregate(cv[v])
      BY <1>1 DEF InAggregate
    <2> QED
      BY <1>1, <2>1, <2>2, <2>3 DEF Numbered
  <1>4. ASSUME Matching PROVE Paired'
    <2>1. Paired
      BY <1>4 DEF AInv
    <2>2. \A v \in V : (pc'[v] = "second" <=> pc[v] = "second") /\ pc'[v] # "read"
      BY <1>2, <1>4, <2>1 DEF Paired
    <2>3. \A v \in V : InAggregate(cv[v])' = InAggregate(cv[v])
      BY <1>1 DEF InAggregate
    <2> QED
      BY <1>1, <2>1, <2>2, <2>3 DEF Paired
  <1>5. ASSUME ph = "round", heuristic = "HEC" PROVE Rooted'
    <2>1. Rooted
      BY <1>5 DEF AInv
    <2>2. \A v, x \in V : pc[v] = "second" /\ Holds(v, x) => pc'[v] = "second" /\ Holds(v, x)'
      BY <1>2 DEF Holds
    <2> QED
      BY <1>1, <2>1, <2>2 DEF Rooted
  <1>6. ph = "round" /\ ByEdges => \A c \in Nat : HangsTogether(InAggregate(c))'
    <2> SUFFICES ASSUME ph = "round" /\ ByEdges PROVE \A c \in Nat : HangsTogether(InAggregate(c))'
      OBVIOUS
    <2>1. \A c \in Nat : HangsTogether(InAggregate(c))
      BY DEF AInv
    <2> QED
      BY <2>1, SameTogether
  <1> QED
    BY <1>1, <1>3, <1>4, <1>5, <1>6, RoundsAfter

LEMMA CountCoarseAggregates ==
  ASSUME IInv, AInv, Rounds, NEW u \in V, CountCoarse(u)
  PROVE  AInv'
  <1>1. /\ pc[u] = "count" /\ pc' = [pc EXCEPT ![u] = "first"]
        /\ cv' = [cv EXCEPT ![u] = nc] /\ nc' = nc + 1
        /\ UNCHANGED <<heuristic, adj, ordering, hn, vcmap, match, perm, swap, ph>>
    BY DEF CountCoarse, InKernel, problem, Goto
  <1>2. /\ V' = V /\ Unmapped' = Unmapped /\ \A c : InAggregate(c)' = InAggregate(c)
        /\ Shape /\ vcmap \in [V -> Nat \union {ORD_MAX}]
    BY <1>1, ItemIn DEF V, InAggregate, Unmapped
  <1>3. /\ pc'[u] = "first" /\ \A v \in V : v # u => pc'[v] = pc[v]
        /\ cv'[u] = nc /\ \A v \in V : v # u => cv'[v] = cv[v]
        /\ nc \in Nat /\ nc' = nc + 1
    BY <1>1, <1>2 DEF Shape
  <1>4. ASSUME heuristic # "HEC" PROVE Numbered'
    <2>1. Numbered
      BY <1>4 DEF AInv
    <2>2. \A k \in 0 .. nc - 1 : k \in 0 .. nc' - 1 /\ k # nc
      BY <1>3
    <2>3. \A v \in V : vcmap[v] \in 0 .. nc' - 1 \union {ORD_MAX} /\ vcmap[v] # nc
      BY <1>3, <2>1, <2>2 DEF Numbered, ORD_MAX
    <2>4. InAggregate(nc) = {} /\ nc \in 0 .. nc' - 1
      BY <1>3, <2>3 DEF InAggregate
    <2>5. \A v \in V : pc'[v] = "first" => cv'[v] \in 0 .. nc' - 1 /\ InAggregate(cv'[v]) = {}
      BY <1>3, <2>1, <2>2, <2>4 DEF Numbered
    <2>6. \A v, w \in V : pc'[v] = "first" /\ pc'[w] = "first" /\ cv'[v] = cv'[w] => v = w
      BY <1>3, <2>1, <2>2 DEF Numbered
    <2>7. \A c \in 0 .. nc' - 1 : InAggregate(c) # {} \/ \E v \in V : pc'[v] = "first" /\ cv'[v] = c
      <3> SUFFICES ASSUME NEW c \in 0 .. nc' - 1, InAggregate(c) = {}
                   PROVE  \E v \in V : pc'[v] = "first" /\ cv'[v] = c
        OBVIOUS
      <3>1. CASE c = nc
        BY <1>3, <3>1
      <3>2. CASE c # nc
        <4>1. c \in 0 .. nc - 1
          BY <1>3, <3>2
        <4>2. PICK v \in V : pc[v] = "first" /\ cv[v] = c
          BY <2>1, <4>1 DEF Numbered
        <4>3. v # u
          BY <1>1, <4>2
        <4> QED
          BY <1>3, <4>2, <4>3
      <3> QED
        BY <3>1, <3>2
    <2>8. \A v \in V : InAggregate(cv[v])' = InAggregate(cv'[v])
      BY <1>1, <1>2 DEF InAggregate
    <2> QED
      BY <1>1, <1>2, <2>3, <2>5, <2>6, <2>7, <2>8 DEF Numbered
  <1>5. ASSUME Matching PROVE Paired'
    <2>1. Paired
      BY <1>5 DEF AInv
    <2>2. \A v \in V : pc'[v] # "read" /\ (pc'[v] = "second" => v # u /\ pc[v] = "second")
      BY <1>3, <2>1 DEF Paired
    <2>3. \A v \in V : v # u => InAggregate(cv[v])' = InAggregate(cv[v])
      BY <1>2, <1>3 DEF InAggregate
    <2> QED
      BY <1>1, <1>2, <2>1, <2>2, <2>3 DEF Paired
  <1>6. ASSUME ph = "round", heuristic = "HEC" PROVE Rooted'
    <2>1. Rooted
      BY <1>6 DEF AInv
    <2>2. \A v, x \in V : pc[v] = "second" /\ Holds(v, x) => pc'[v] = "second" /\ Holds(v, x)'
      BY <1>1, <1>3 DEF Holds
    <2> QED
      BY <1>1, <1>2, <2>1, <2>2 DEF Rooted
  <1>7. ph = "round" /\ ByEdges => \A c \in Nat : HangsTogether(InAggregate(c))'
    <2> SUFFICES ASSUME ph = "round" /\ ByEdges PROVE \A c \in Nat : HangsTogether(InAggregate(c))'
      OBVIOUS
    <2>1. \A c \in Nat : HangsTogether(InAggregate(c))
      BY DEF AInv
    <2> QED
      BY <1>1, <2>1, SameTogether
  <1> QED
    BY <1>1, <1>2, <1>4, <1>5, <1>6, <1>7, RoundsAfter

\* HEC: a vertex that an item holds alone is the root of nobody.
LEMMA HeldIsNoRoot ==
  ASSUME Shape, Rooted, Claims, vcmap \in [V -> Nat \union {ORD_MAX}],
         NEW u \in V, pc[u] # "second", NEW w \in V, Holds(u, w)
  PROVE  InAggregate(w) = {}
  <1> SUFFICES ASSUME NEW x \in V, vcmap[x] = w PROVE FALSE
    BY DEF InAggregate
  <1>1. vcmap[w] = ORD_MAX /\ w # ORD_MAX
    BY VerticesAreFinite DEF Claims, ORD_MAX
  <1>2. PICK v \in V : Holds(v, w) /\ pc[v] = "second"
    BY <1>1 DEF Rooted
  <1> QED
    BY <1>2 DEF Claims

\* HEC: a vertex joins an aggregate whose root is known, or is the root.
LEMMA GiveRooted ==
  ASSUME Shape, Claims, Rooted, vcmap \in [V -> Nat \union {ORD_MAX}], UNCHANGED <<adj, hn>>,
         NEW u \in V, NEW w \in V, NEW a \in V, GivesTo(w, a), Holds(u, w),
         NEW to \in {"second", "out"}, pc' = [pc EXCEPT ![u] = to],
         pc[u] = "second" /\ InAggregate(w) # {} => a = w,
         \/ a = w
         \/ vcmap[a] = a
         \/ to = "second" /\ a = hn[u] /\ a # u /\ w = u
         \/ \E v \in V : v # u /\ Holds(v, a) /\ pc[v] = "second" /\ vcmap[v] = a
  PROVE  Rooted'
  <1>1. V' = V /\ V \subseteq Nat /\ ORD_MAX \notin V /\ a \in Nat
    BY VerticesAreFinite DEF V, ORD_MAX
  <1>2. /\ \A x \in V : vcmap'[x] = IF x = w THEN a ELSE vcmap[x]
        /\ \A x \in V : Holds(u, x) => vcmap[x] = ORD_MAX
    BY <1>1, MembersAfter DEF Claims
  <1>3. pc'[u] = to /\ \A v \in V : v # u => pc'[v] = pc[v]
    BY DEF Shape
  <1>4. \A v, x \in V : v # u /\ Holds(v, x) => Holds(v, x)'
    BY <1>3 DEF Holds
  <1>5. ASSUME NEW v \in V, v # u, NEW c \in V, Holds(v, c), pc[v] = "second", vcmap[v] = c
        PROVE  \E x \in V : Holds(x, c)' /\ pc'[x] = "second" /\ vcmap'[x] = c
    <2>1. Holds(v, c)' /\ pc'[v] = "second"
      BY <1>3, <1>4, <1>5
    <2>2. vcmap'[v] = c
      <3>1. v # w
        BY <1>1, <1>5 DEF GivesTo
      <3> QED
        BY <1>2, <1>5, <3>1
    <2> QED
      BY <2>1, <2>2
  <1>6. \A x \in V : vcmap'[x] \in V \union {ORD_MAX}
    BY <1>2 DEF Rooted
  <1>7. ASSUME NEW c \in V, NEW x \in V, vcmap'[x] = c
        PROVE  vcmap'[c] = c \/ \E v \in V : Holds(v, c)' /\ pc'[v] = "second" /\ vcmap'[v] = c
    <2>1. CASE x = w
      <3>1. c = a
        BY <1>2, <1>7, <2>1
      <3>2. CASE a = w
        BY <1>2, <3>1, <3>2
      <3>3. CASE vcmap[a] = a
        BY <1>2, <3>1, <3>3
      <3>4. CASE to = "second" /\ a = hn[u] /\ a # u /\ w = u
        <4>1. Holds(u, a)' /\ pc'[u] = "second" /\ vcmap'[u] = a
          BY <1>2, <1>3, <3>4 DEF Holds
        <4> QED
          BY <3>1, <4>1
      <3>5. CASE \E v \in V : v # u /\ Holds(v, a) /\ pc[v] = "second" /\ vcmap[v] = a
        BY <1>5, <3>1, <3>5
      <3> QED
        BY <3>2, <3>3, <3>4, <3>5
    <2>2. CASE x # w
      <3>1. c = vcmap[x]
        BY <1>2, <1>7, <2>2
      <3>2. CASE vcmap[c] = c
        <4>1. c # w
          BY <1>1, <3>2 DEF GivesTo
        <4> QED
          BY <1>2, <3>2, <4>1
      <3>3. CASE \E v \in V : Holds(v, c) /\ pc[v] = "second" /\ vcmap[v] = c
        <4>1. PICK v \in V : Holds(v, c) /\ pc[v] = "second" /\ vcmap[v] = c
          BY <3>3
        <4>2. CASE v # u
          BY <1>5, <4>1, <4>2
        <4>3. CASE v = u
          <5>1. c = w
            BY <4>1, <4>3 DEF Holds
          <5>2. a = w
            BY <3>1, <4>1, <4>3, <5>1 DEF InAggregate
          <5> QED
            BY <1>2, <5>1, <5>2
        <4> QED
          BY <4>2, <4>3
      <3> QED
        BY <3>1, <3>2, <3>3 DEF Rooted
    <2> QED
      BY <2>1, <2>2
  <1> QED
    BY <1>1, <1>6, <1>7 DEF Rooted

LEMMA UnmappedShrinks ==
  ASSUME UNCHANGED adj, vcmap \in [V -> Nat \union {ORD_MAX}],
         NEW w \in V, NEW a \in Nat, GivesTo(w, a)
  PROVE  Unmapped' \subseteq Unmapped
  <1>1. V' = V
    BY DEF V
  <1>2. \A x \in V : vcmap'[x] = IF x = w THEN a ELSE vcmap[x]
    BY <1>1, MembersAfter
  <1> QED
    BY <1>1, <1>2 DEF Unmapped, GivesTo

\* HEC names an aggregate by u or by hn[u].
LEMMA RootOfTwo ==
  ASSUME Shape, heuristic = "HEC", NEW u \in V
  PROVE  Aggregate(u) \in {u, hn[u]}
  <1>1. PICK h \in V : h = hn[u]
    BY DEF Shape
  <1>2. MinOf({u, h}) \in {u, h}
    BY MinIn
  <1> QED
    BY <1>1, <1>2 DEF Aggregate

LEMMA MapFirstAggregates ==
  ASSUME IInv, AInv, Rounds, NEW u \in V, MapFirst(u)
  PROVE  AInv'
  <1>1. /\ pc[u] = "first" /\ pc' = [pc EXCEPT ![u] = "second"]
        /\ vcmap' = [vcmap EXCEPT ![u] = Aggregate(u)]
        /\ UNCHANGED <<heuristic, adj, ordering, hn, match, perm, swap, nc, ph, cv>>
    BY DEF MapFirst, InKernel, problem, Goto
  <1>2. /\ Shape /\ Claims /\ vcmap \in [V -> Nat \union {ORD_MAX}] /\ V' = V
        /\ Holds(u, u) /\ vcmap[u] = ORD_MAX
    BY <1>1, ItemIn DEF Holds, V, Claims
  <1>3. PICK a \in Nat : a = Aggregate(u)
    BY <1>2, AggregateIn
  <1>4. GivesTo(u, a)
    BY <1>1, <1>2, <1>3 DEF GivesTo
  <1>5. heuristic # "HEC" => Numbered /\ a = cv[u] /\ a \in 0 .. nc - 1 /\ InAggregate(a) = {}
    BY <1>1, <1>3 DEF AInv, Numbered, Aggregate
  <1>6. /\ \A x \in V : vcmap'[x] = IF x = u THEN a ELSE vcmap[x]
        /\ \A c \in Nat : InAggregate(c)' = IF c = a THEN InAggregate(c) \union {u} ELSE InAggregate(c)
    BY <1>2, <1>4, MembersAfter
  <1>7. pc'[u] = "second" /\ \A v \in V : v # u => pc'[v] = pc[v]
    BY <1>1, <1>2 DEF Shape
  <1>8. ASSUME heuristic # "HEC" PROVE Numbered'
    BY <1>1, <1>2, <1>4, <1>5, <1>8, GiveNumbered
  <1>9. ASSUME Matching PROVE Paired'
    <2>1. heuristic # "HEC" /\ Paired /\ cv \in [V -> Nat]
      BY <1>2, <1>9 DEF AInv, Matching, Shape
    <2>2. InAggregate(a)' = {u}
      BY <1>5, <1>6, <2>1
    <2>3. \A v \in V : pc'[v] = "second" /\ v # u => InAggregate(cv[v])' = {v}
      <3> SUFFICES ASSUME NEW v \in V, pc'[v] = "second", v # u PROVE InAggregate(cv[v])' = {v}
        OBVIOUS
      <3>1. PICK c \in Nat : c = cv[v]
        BY <2>1
      <3>2. InAggregate(c) = {v}
        BY <1>7, <2>1, <3>1 DEF Paired
      <3>3. c # a
        BY <1>5, <2>1, <3>2
      <3>4. InAggregate(c)' = {v}
        BY <1>6, <3>2, <3>3
      <3> QED
        BY <1>1, <3>1, <3>4 DEF InAggregate
    <2>4. InAggregate(cv[u])' = {u}
      BY <1>1, <1>5, <2>1, <2>2 DEF InAggregate
    <2>5. \A c \in Nat : \A x, y, z \in InAggregate(c)' : x = y \/ x = z \/ y = z
      BY <1>6, <2>1, <2>2 DEF Paired
    <2>6. \A v \in V : pc'[v] # "read"
      BY <1>7, <2>1 DEF Paired
    <2> QED
      BY <1>2, <2>3, <2>4, <2>5, <2>6 DEF Paired
  <1>10. ASSUME heuristic = "HEC", ph = "round" PROVE Rooted'
    <2>1. Rooted /\ a \in {u, hn[u]} /\ a \in V
      BY <1>2, <1>3, <1>10, RootOfTwo DEF AInv, Shape
    <2> QED
      BY <1>1, <1>2, <1>4, <2>1, GiveRooted
  <1>11. ASSUME ph = "round", ByEdges PROVE \A c \in Nat : HangsTogether(InAggregate(c))'
    <2>1. InAggregate(a) = {}
      <3>1. CASE heuristic = "HEC"
        <4>1. PICK w \in V : w = a /\ Holds(u, w)
          BY <1>1, <1>2, <1>3, <3>1, RootOfTwo DEF Holds, Shape
        <4>2. Rooted
          BY <1>11, <3>1 DEF AInv
        <4> QED
          BY <1>1, <1>2, <4>1, <4>2, HeldIsNoRoot
      <3> QED
        BY <1>5, <3>1
    <2>2. \A c \in Nat : HangsTogether(InAggregate(c))
      BY <1>11 DEF AInv
    <2> QED
      BY <1>1, <1>2, <1>4, <2>1, <2>2, GiveTogether
  <1>12. Unmapped' \subseteq Unmapped
    BY <1>1, <1>2, <1>4, UnmappedShrinks
  <1> QED
    BY <1>1, <1>8, <1>9, <1>10, <1>11, <1>12, RoundsAfter

LEMMA MapSecondAggregates ==
  ASSUME IInv, AInv, Rounds, NEW u \in V, MapSecond(u)
  PROVE  AInv'
  <1>1. /\ pc[u] = "second" /\ pc' = [pc EXCEPT ![u] = "out"]
        /\ vcmap' = [vcmap EXCEPT ![hn[u]] = Aggregate(u)]
        /\ UNCHANGED <<heuristic, adj, ordering, hn, match, perm, swap, nc, ph, cv>>
    BY DEF MapSecond, InKernel, problem, Goto
  <1>2. /\ Shape /\ Claims /\ vcmap \in [V -> Nat \union {ORD_MAX}] /\ V' = V
        /\ vcmap[u] = Aggregate(u)
    BY <1>1, ItemIn DEF V, Claims
  <1>3. PICK a \in Nat, h \in V : a = Aggregate(u) /\ h = hn[u]
    BY <1>2, AggregateIn DEF Shape
  <1>4. /\ u \in InAggregate(a)
        /\ heuristic # "HEC" => Numbered /\ a = cv[u] /\ a \in 0 .. nc - 1
    <2>1. vcmap[u] \in 0 .. nc - 1 \union {ORD_MAX} /\ vcmap[u] # ORD_MAX => vcmap[u] \in 0 .. nc - 1
      OBVIOUS
    <2>2. vcmap[u] = a /\ a # ORD_MAX
      BY <1>2, <1>3 DEF ORD_MAX
    <2> QED
      BY <1>3, <2>1, <2>2 DEF AInv, Numbered, Aggregate, InAggregate
  <1>5. pc'[u] = "out" /\ \A v \in V : v # u => pc'[v] = pc[v]
    BY <1>1, <1>2 DEF Shape
  <1>6. /\ \A v \in V : pc'[v] = "first" <=> pc[v] = "first"
        /\ \A v \in V : pc'[v] = "second" => v # u /\ pc[v] = "second"
    BY <1>1, <1>5
  <1>7. CASE h = u
    <2>1. vcmap' = vcmap /\ Unmapped' = Unmapped /\ \A c : InAggregate(c)' = InAggregate(c)
      BY <1>1, <1>2, <1>3, <1>7 DEF Unmapped, InAggregate
    <2>2. \A v \in V : InAggregate(cv[v])' = InAggregate(cv[v])
      BY <1>1, <1>2, <2>1 DEF InAggregate
    <2>3. ASSUME heuristic # "HEC" PROVE Numbered'
      BY <1>1, <1>2, <1>4, <1>6, <2>1, <2>2, <2>3 DEF Numbered
    <2>4. ASSUME Matching PROVE Paired'
      <3>1. Paired
        BY <2>4 DEF AInv
      <3>2. \A v \in V : pc'[v] # "read"
        BY <1>5, <3>1 DEF Paired
      <3> QED
        BY <1>2, <1>6, <2>1, <2>2, <3>1, <3>2 DEF Paired
    <2>5. ASSUME heuristic = "HEC", ph = "round" PROVE Rooted'
      <3>1. Rooted
        BY <2>5 DEF AInv
      <3>2. \A v, x \in V : pc[v] = "second" /\ Holds(v, x) => pc'[v] = "second" /\ Holds(v, x)'
        BY <1>1, <1>3, <1>5, <1>7 DEF Holds
      <3> QED
        BY <1>2, <2>1, <3>1, <3>2 DEF Rooted
    <2>6. ASSUME ph = "round", ByEdges PROVE \A c \in Nat : HangsTogether(InAggregate(c))'
      <3>1. \A c \in Nat : HangsTogether(InAggregate(c))
        BY <2>6 DEF AInv
      <3> QED
        BY <1>1, <2>1, <3>1, SameTogether
    <2> QED
      BY <1>1, <2>1, <2>3, <2>4, <2>5, <2>6, RoundsAfter
  <1>8. CASE h # u
    <2>1. Holds(u, h) /\ vcmap[h] = ORD_MAX
      BY <1>1, <1>2, <1>3, <1>8 DEF Holds, Claims
    <2>2. GivesTo(h, a)
      BY <1>1, <1>3, <2>1 DEF GivesTo
    <2>3. \A c \in Nat : InAggregate(c)' = IF c = a THEN InAggregate(c) \union {h} ELSE InAggregate(c)
      BY <1>2, <2>2, MembersAfter
    <2>4. ASSUME heuristic # "HEC" PROVE Numbered'
      BY <1>1, <1>2, <1>4, <2>2, <2>4, GiveNumbered
    <2>5. ASSUME Matching PROVE Paired'
      <3>1. heuristic # "HEC" /\ Paired /\ cv \in [V -> Nat]
        BY <1>2, <2>5 DEF AInv, Matching, Shape
      <3>2. InAggregate(a) = {u}
        BY <1>1, <1>4, <3>1 DEF Paired
      <3>3. \A v \in V : pc'[v] = "second" => InAggregate(cv[v])' = {v}
        <4> SUFFICES ASSUME NEW v \in V, pc'[v] = "second" PROVE InAggregate(cv[v])' = {v}
          OBVIOUS
        <4>1. PICK c \in Nat : c = cv[v]
          BY <3>1
        <4>2. InAggregate(c) = {v} /\ v # u
          BY <1>6, <3>1, <4>1 DEF Paired
        <4>3. InAggregate(c)' = {v}
          BY <2>3, <3>2, <4>2
        <4> QED
          BY <1>1, <4>1, <4>3 DEF InAggregate
      <3>4. \A c \in Nat : \A x, y, z \in InAggregate(c)' : x = y \/ x = z \/ y = z
        BY <2>3, <3>1, <3>2 DEF Paired
      <3>5. \A v \in V : pc'[v] # "read"
        BY <1>5, <3>1 DEF Paired
      <3> QED
        BY <1>2, <3>3, <3>4, <3>5 DEF Paired
    <2>6. ASSUME heuristic = "HEC", ph = "round" PROVE Rooted'
      <3>1. Rooted /\ a \in {u, h} /\ a \in V
        BY <1>2, <1>3, <2>6, RootOfTwo DEF AInv
      <3>2. a = h \/ vcmap[a] = a
        BY <1>2, <1>3, <3>1
      <3>3. InAggregate(h) # {} => a = h
        <4> SUFFICES ASSUME NEW x \in V, vcmap[x] = h PROVE a = h
          BY DEF InAggregate
        <4>1. vcmap[h] # h
          BY <1>2, <2>1, VerticesAreFinite DEF ORD_MAX
        <4>2. h # ORD_MAX
          BY <1>2, VerticesAreFinite DEF ORD_MAX
        <4>3. PICK v \in V : Holds(v, h) /\ vcmap[v] = h
          BY <3>1, <4>1, <4>2 DEF Rooted
        <4>4. v = u
          BY <1>2, <2>1, <4>3 DEF Claims
        <4> QED
          BY <1>2, <1>3, <4>3, <4>4
      <3> QED
        BY <1>1, <1>2, <2>1, <2>2, <3>1, <3>2, <3>3, GiveRooted
    <2>7. ASSUME ph = "round", ByEdges PROVE \A c \in Nat : HangsTogether(InAggregate(c))'
      <3>1. \A c \in Nat : HangsTogether(InAggregate(c))
        BY <2>7 DEF AInv
      <3>2. Joined(u, h)
        BY <1>3, <2>7 DEF AInv, HeavyNeighbours, Joined
      <3> QED
        BY <1>1, <1>2, <1>4, <2>2, <3>1, <3>2, GiveTogether
    <2>8. Unmapped' \subseteq Unmapped
      BY <1>1, <1>2, <2>2, UnmappedShrinks
    <2> QED
      BY <1>1, <2>4, <2>5, <2>6, <2>7, <2>8, RoundsAfter
  <1> QED
    BY <1>7, <1>8

LEMMA JoinOtherAggregates ==
  ASSUME IInv, AInv, Rounds, NEW u \in V, JoinOther(u)
  PROVE  AInv'
  <1>1. /\ pc[u] = "read"
        /\ UNCHANGED <<heuristic, adj, ordering, hn, match, perm, swap, nc, ph, cv>>
    BY DEF JoinOther, InKernel, problem
  <1>2. /\ Shape /\ Claims /\ vcmap \in [V -> Nat \union {ORD_MAX}] /\ V' = V
        /\ Holds(u, u) /\ vcmap[u] = ORD_MAX
    BY <1>1, ItemIn DEF Holds, V, Claims
  <1>3. PICK h \in V : h = hn[u]
    BY <1>2 DEF Shape
  <1>4. ~ Matching
    BY <1>1 DEF AInv, Paired
  <1>5. CASE vcmap[h] = ORD_MAX
    <2>1. UNCHANGED vcmap /\ pc' = [pc EXCEPT ![u] = "undo"]
      BY <1>3, <1>5 DEF JoinOther, Goto
    <2> QED
      BY <1>1, <2>1, QuietStep
  <1>6. CASE vcmap[h] # ORD_MAX
    <2>1. PICK a \in Nat : a = vcmap[h]
      BY <1>2, <1>6
    <2>2. GivesTo(u, a) /\ pc' = [pc EXCEPT ![u] = "out"] /\ h \in InAggregate(a)
      BY <1>2, <1>3, <1>6, <2>1 DEF JoinOther, Goto, GivesTo, InAggregate
    <2>3. ASSUME heuristic # "HEC" PROVE Numbered'
      <3>1. Numbered
        BY <2>3 DEF AInv
      <3>2. a \in 0 .. nc - 1
        <4>1. vcmap[h] \in 0 .. nc - 1 \union {ORD_MAX}
          BY <3>1 DEF Numbered
        <4> QED
          BY <1>6, <2>1, <4>1
      <3> QED
        BY <1>1, <1>2, <2>2, <3>1, <3>2, GiveNumbered
    <2>4. ASSUME heuristic = "HEC", ph = "round" PROVE Rooted'
      <3>1. Rooted
        BY <2>4 DEF AInv
      <3>2. a \in V
        BY <1>6, <2>1, <3>1 DEF Rooted
      <3>3. \/ vcmap[a] = a
            \/ \E v \in V : v # u /\ Holds(v, a) /\ pc[v] = "second" /\ vcmap[v] = a
        BY <1>1, <2>1, <3>1, <3>2 DEF Rooted
      <3> QED
        BY <1>1, <1>2, <2>2, <3>1, <3>2, <3>3, GiveRooted
    <2>5. ASSUME ph = "round", ByEdges PROVE \A c \in Nat : HangsTogether(InAggregate(c))'
      <3>1. \A c \in Nat : HangsTogether(InAggregate(c))
        BY <2>5 DEF AInv
      <3>2. Joined(u, h)
        BY <1>3, <2>5 DEF AInv, HeavyNeighbours, Joined
      <3> QED
        BY <1>1, <1>2, <2>2, <3>1, <3>2, GiveTogether
    <2>6. Unmapped' \subseteq Unmapped
      BY <1>1, <1>2, <2>2, UnmappedShrinks
    <2> QED
      BY <1>1, <1>4, <2>3, <2>4, <2>5, <2>6, RoundsAfter
  <1> QED
    BY <1>5, <1>6

\* The claims map nobody.
LEMMA ClaimAggregates ==
  ASSUME IInv, AInv, Rounds, NEW u \in V, ClaimOwn(u) \/ ClaimOther(u) \/ Undo(u)
  PROVE  AInv'
  <1>1. /\ pc[u] \in {"start", "other", "undo"}
        /\ UNCHANGED <<heuristic, adj, ordering, hn, vcmap, perm, swap, nc, ph, cv>>
    BY DEF ClaimOwn, ClaimOther, Undo, InKernel, problem
  <1>2. \E to \in {"other", "first", "count", "out", "undo", "read"} :
          /\ pc' = [pc EXCEPT ![u] = to]
          /\ to = "first" => heuristic = "HEC"
          /\ to = "read" => ~ Matching
    <2>1. CASE ClaimOwn(u)
      BY <2>1 DEF ClaimOwn, Goto
    <2>2. CASE ClaimOther(u)
      BY <2>2 DEF ClaimOther, Goto
    <2>3. CASE Undo(u)
      BY <2>3 DEF Undo, Goto
    <2> QED
      BY <2>1, <2>2, <2>3
  <1> QED
    BY <1>1, <1>2, QuietStep

-----------------------------------------------------------------------------
(* GOSHv2 before its rounds *)

LEMMA BeforeAfter ==
  ASSUME AInv, Before, Before', UNCHANGED <<heuristic, adj>>, Seeded'
  PROVE  AInv'
  <1>1. /\ V' = V /\ heuristic = "GOSHv2" /\ ~ ByEdges' /\ ~ Matching'
        /\ ~ Rounds' /\ ph' \notin Late \union {"round", "relatives", "assign", "propagate", "done"}
    BY DEF AInv, InOrder, Before, ByEdges, Matching, Rounds, Late, V
  <1>2. InOrder'
    BY <1>1 DEF InOrder
  <1>3. Aggregates'
    BY <1>1 DEF Aggregates
  <1> QED
    BY <1>1, <1>2, <1>3 DEF AInv

LEMMA EarlyAggregates ==
  ASSUME IInv, AInv, NEW u \in V, AdoptNeighbour(u) \/ LookAlong(u) \/ TakeAlong(u)
  PROVE  AInv'
  <1>1. Before /\ UNCHANGED <<heuristic, adj, nc, ph>>
    BY DEF AdoptNeighbour, LookAlong, TakeAlong, Adopting, Before, problem
  <1>2. /\ Shape /\ Seeded /\ V' = V /\ Heads' = Heads /\ Heads \subseteq V
        /\ vcmap \in [V -> Nat \union {ORD_MAX}]
    BY <1>1 DEF IInv, AInv, V, Heads, Shape, Before
  <1> DEFINE Named == 0 .. nc - 1 \union {ORD_MAX}
  <1>3. /\ \A v \in V : vcmap[v] \in Named
        /\ \A v \in Heads : vcmap[v] # ORD_MAX
        /\ \A c \in 0 .. nc - 1 : \E v \in Heads : vcmap[v] = c
        /\ \A v \in V : pc[v] = "take" => cv[v] \in V \ Heads /\ vcmap[v] # ORD_MAX
    BY <1>2 DEF Seeded
  <1> HIDE DEF Named
  <1>4. CASE AdoptNeighbour(u)
    <2>1. pc' = [pc EXCEPT ![u] = "out"] /\ UNCHANGED cv
      BY <1>4 DEF AdoptNeighbour
    <2>2. \/ UNCHANGED vcmap
          \/ vcmap[u] = ORD_MAX /\ \E v \in V : vcmap[v] # ORD_MAX /\ vcmap' = [vcmap EXCEPT ![u] = vcmap[v]]
      BY <1>2, <1>4 DEF AdoptNeighbour, Shape
    <2>3. /\ \A v \in V : vcmap'[v] \in Named /\ (vcmap[v] # ORD_MAX => vcmap'[v] = vcmap[v])
      BY <1>2, <1>3, <2>2
    <2>4. \A v \in V : pc'[v] = "take" => pc[v] = "take"
      BY <1>2, <2>1 DEF Shape
    <2>5. Seeded'
      BY <1>1, <1>2, <1>3, <2>1, <2>3, <2>4 DEF Seeded, Named
    <2> QED
      BY <1>1, <2>5, BeforeAfter DEF Before
  <1>5. CASE LookAlong(u)
    <2>1. UNCHANGED vcmap /\ DOMAIN pc = V /\ DOMAIN cv = V
      BY <1>2, <1>5 DEF LookAlong, Shape
    <2>2. CASE pc' = [pc EXCEPT ![u] = "out"] /\ UNCHANGED cv
      <3>1. \A v \in V : pc'[v] = "take" => pc[v] = "take"
        BY <2>1, <2>2
      <3>2. Seeded'
        BY <1>1, <1>2, <1>3, <2>1, <2>2, <3>1 DEF Seeded, Named
      <3> QED
        BY <1>1, <3>2, BeforeAfter DEF Before
    <2>3. CASE ~ (pc' = [pc EXCEPT ![u] = "out"] /\ UNCHANGED cv)
      <3> DEFINE left == {v \in adj[u] : v >= cv[u] /\ vcmap[v] = ORD_MAX}
      <3>1. /\ vcmap[u] # ORD_MAX /\ left # {} /\ left \in SUBSET V
            /\ pc' = [pc EXCEPT ![u] = "take"] /\ cv' = [cv EXCEPT ![u] = MinOf(left)]
        BY <1>2, <1>5, <2>3 DEF LookAlong, Shape
      <3>2. \A v \in left : vcmap[v] = ORD_MAX
        OBVIOUS
      <3> HIDE DEF left
      <3>3. MinOf(left) \in V \ Heads
        BY <1>2, <1>3, <3>1, <3>2, MinIn
      <3>4. \A v \in V : v # u => pc'[v] = pc[v] /\ cv'[v] = cv[v]
        BY <2>1, <3>1
      <3>5. cv'[u] = MinOf(left)
        BY <2>1, <3>1
      <3>6. \A v \in V : pc'[v] = "take" => cv'[v] \in V \ Heads /\ vcmap[v] # ORD_MAX
        BY <1>3, <3>1, <3>3, <3>4, <3>5
      <3>7. Seeded'
        BY <1>1, <1>2, <1>3, <2>1, <3>6 DEF Seeded, Named
      <3> QED
        BY <1>1, <3>7, BeforeAfter DEF Before
    <2> QED
      BY <2>2, <2>3
  <1>6. CASE TakeAlong(u)
    <2>1. /\ pc[u] = "take" /\ pc' = [pc EXCEPT ![u] = "start"]
          /\ vcmap' = [vcmap EXCEPT ![cv[u]] = vcmap[u]] /\ cv' = [cv EXCEPT ![u] = @ + 1]
      BY <1>6 DEF TakeAlong
    <2>2. PICK w \in V \ Heads : w = cv[u]
      BY <1>3, <2>1
    <2>3. \A v \in V : vcmap'[v] = IF v = w THEN vcmap[u] ELSE vcmap[v]
      BY <1>2, <2>1, <2>2
    <2>4. vcmap[u] # ORD_MAX /\ vcmap[u] \in Named
      BY <1>3, <2>1
    <2>5. \A v \in V : pc'[v] = "take" => v # u /\ pc[v] = "take" /\ cv'[v] = cv[v]
      BY <1>2, <2>1 DEF Shape
    <2>6. /\ \A v \in V : vcmap'[v] \in Named
          /\ \A v \in Heads : vcmap'[v] = vcmap[v]
          /\ \A v \in V : vcmap[v] # ORD_MAX => vcmap'[v] # ORD_MAX
      BY <1>2, <1>3, <2>2, <2>3, <2>4
    <2>7. Seeded'
      BY <1>1, <1>2, <1>3, <2>5, <2>6 DEF Seeded, Named
    <2> QED
      BY <1>1, <2>7, BeforeAfter DEF Before
  <1> QED
    BY <1>4, <1>5, <1>6

LEMMA ItemAggregates ==
  ASSUME IInv, AInv, NEW u \in V, Item(u)
  PROVE  AInv'
  <1>1. CASE AdoptNeighbour(u) \/ LookAlong(u) \/ TakeAlong(u)
    BY <1>1, EarlyAggregates
  <1>2. CASE \/ ClaimOwn(u) \/ ClaimOther(u) \/ CountCoarse(u) \/ MapFirst(u)
             \/ MapSecond(u) \/ JoinOther(u) \/ Undo(u)
    <2>1. Rounds
      BY <1>2 DEF ClaimOwn, ClaimOther, CountCoarse, MapFirst, MapSecond, JoinOther, Undo,
         InKernel, Rounds
    <2> QED
      BY <1>2, <2>1, ClaimAggregates, CountCoarseAggregates, MapFirstAggregates,
         MapSecondAggregates, JoinOtherAggregates
  <1> QED
    BY <1>1, <1>2 DEF Item

-----------------------------------------------------------------------------
(* The host numbers the aggregates. *)

\* The numbers of the members of a set of vertices in order
LEMMA RankFacts ==
  ASSUME Shape, NEW S \in SUBSET V
  PROVE  /\ IsFiniteSet(S) /\ Cardinality(S) \in Nat
         /\ \A u \in S : RankIn(S, u) \in 0 .. Cardinality(S) - 1
         /\ \A u, v \in S : RankIn(S, u) = RankIn(S, v) => u = v
         /\ \A k \in 0 .. Cardinality(S) - 1 : \E u \in S : RankIn(S, u) = k
  <1>1. S \in SUBSET Nat /\ IsFiniteSet(S)
    BY VerticesAreFinite, FS_Subset
  <1>2. \A u : RankIn(S, u) = CountBelow(S, u)
    BY DEF RankIn, CountBelow
  <1> QED
    BY <1>1, <1>2, CountBelowFacts

LEMMA InitAggregates == Init => AInv
  <1> SUFFICES ASSUME Init PROVE AInv
    OBVIOUS
  <1>1. Shape
    BY InitOK DEF IInv
  <1> DEFINE heads == {u \in V : heuristic = "GOSHv2" /\ Cardinality(adj[u]) > Threshold}
  <1>2. /\ vcmap = [u \in V |-> IF u \in heads THEN RankIn(heads, u) ELSE ORD_MAX]
        /\ nc = Cardinality(heads) /\ heads \in SUBSET V
        /\ perm = V /\ ph = IF heuristic = "GOSHv2" THEN "adopt" ELSE "round"
        /\ \A u \in V : pc[u] = "start"
    BY DEF Init
  <1>3. /\ nc \in Nat
        /\ \A u \in heads : vcmap[u] \in 0 .. nc - 1
        /\ \A c \in 0 .. nc - 1 : \E u \in heads : vcmap[u] = c
        /\ \A u \in V \ heads : vcmap[u] = ORD_MAX
    <2> HIDE DEF heads
    <2> QED
      BY <1>1, <1>2, RankFacts
  <1>4. heuristic = "MtMetis" => \A u, v \in V : v \in adj[u] => u \in adj[v]
    <2>1. PICK p \in Problems : heuristic = p.heuristic /\ adj = p.adj /\ ordering = p.ordering
      BY DEF Init
    <2> QED
      BY <2>1, SymmetryAssumption DEF V
  <1>5. InOrder
    BY <1>2, <1>4 DEF InOrder, Before, Rounds, Late
  <1>6. Aggregates
    BY <1>2 DEF Aggregates
  <1>7. CASE heuristic = "GOSHv2"
    <2>1. heads = Heads
      BY <1>7 DEF Heads
    <2>2. \A k \in 0 .. nc - 1 : k # ORD_MAX
      BY <1>3 DEF ORD_MAX
    <2>3. Seeded
      <3> HIDE DEF heads
      <3> QED
        BY <1>2, <1>3, <2>1, <2>2 DEF Seeded
    <2> QED
      BY <1>2, <1>5, <1>6, <1>7, <2>3 DEF AInv, Rounds, Late, ByEdges, Matching
  <1>8. CASE heuristic # "GOSHv2"
    <2>1. heads = {} /\ ph = "round"
      BY <1>2, <1>8
    <2>2. nc = 0 /\ \A u \in V : vcmap[u] = ORD_MAX
      BY <1>2, <1>3, <2>1, FS_EmptySet
    <2>3. \A c \in Nat : InAggregate(c) = {}
      BY <2>2 DEF InAggregate, ORD_MAX
    <2>4. Numbered
      <3>1. 0 .. nc - 1 = {}
        BY <2>2
      <3>2. \A u \in V : vcmap[u] \in 0 .. nc - 1 \union {ORD_MAX} /\ pc[u] # "first"
        BY <1>2, <2>2
      <3> QED
        BY <3>1, <3>2 DEF Numbered
    <2>5. Paired
      BY <1>2, <2>3 DEF Paired
    <2>6. Rooted
      <3>1. ORD_MAX \notin V
        BY <1>1, VerticesAreFinite DEF ORD_MAX
      <3> QED
        BY <2>2, <3>1 DEF Rooted
    <2>7. \A u \in V : hn[u] \in HeavyNeighbours(u)
      BY <1>8 DEF Init
    <2>8. \A c \in Nat : HangsTogether(InAggregate(c))
      BY <2>3 DEF HangsTogether
    <2>9. Unmapped \subseteq perm
      BY <1>2 DEF Unmapped
    <2> QED
      BY <1>5, <1>6, <2>1, <2>4, <2>5, <2>6, <2>7, <2>8, <2>9 DEF AInv, Before
  <1> QED
    BY <1>7, <1>8

\* Every vertex has a number below nc, and every number is given.
LEMMA NumberedIsOnto ==
  ASSUME Numbered, AllOut, Unmapped = {}
  PROVE  {vcmap[u] : u \in V} = 0 .. nc - 1
  <1>1. \A u \in V : vcmap[u] \in 0 .. nc - 1
    BY DEF Numbered, Unmapped
  <1>2. \A c \in 0 .. nc - 1 : \E u \in V : vcmap[u] = c
    BY DEF Numbered, AllOut, InAggregate
  <1> QED
    BY <1>1, <1>2

\* Between rounds
LEMMA IdleNumbered ==
  ASSUME Numbered, AllOut, UNCHANGED <<adj, vcmap, nc>>, \A u \in V : pc'[u] \in {"start", "out"}
  PROVE  Numbered'
  <1>1. V' = V /\ \A c : InAggregate(c)' = InAggregate(c)
    BY DEF V, InAggregate
  <1> QED
    BY <1>1 DEF Numbered, AllOut

LEMMA IdlePaired ==
  ASSUME Paired, UNCHANGED <<adj, vcmap>>, \A u \in V : pc'[u] \in {"start", "out"}
  PROVE  Paired'
  <1>1. V' = V /\ \A c : InAggregate(c)' = InAggregate(c)
    BY DEF V, InAggregate
  <1>2. \A u \in V : pc'[u] \notin {"read", "second"}
    OBVIOUS
  <1> QED
    BY <1>1, <1>2 DEF Paired

LEMMA SpreadAggregates ==
  ASSUME IInv, AInv, Spread
  PROVE  AInv'
  <1>1. /\ ph = "spread" /\ UNCHANGED <<heuristic, adj, vcmap, nc>> /\ V' = V
        /\ \A u \in V : pc'[u] \in {"start", "out"}
        /\ perm' = Unmapped /\ Unmapped' = Unmapped
        /\ ph' = IF Unmapped = {} THEN "done" ELSE "round"
    BY DEF Spread, problem, Launch, V, Unmapped
  <1>2. heuristic = "GOSHv2" /\ Seeded /\ nc \in Nat
    BY <1>1 DEF AInv, InOrder, Before, IInv, Shape
  <1>3. InOrder'
    BY <1>1, <1>2 DEF InOrder, Before, Rounds, Late
  <1>4. Numbered'
    <2>1. \A c \in 0 .. nc - 1 : InAggregate(c)' # {}
      BY <1>1, <1>2 DEF Seeded, Heads, InAggregate
    <2> QED
      BY <1>1, <1>2, <2>1 DEF Numbered, Seeded
  <1>5. Aggregates'
    <2>1. CASE ph' = "done"
      <3>1. Unmapped = {}
        BY <1>1, <2>1
      <3>2. {vcmap[u] : u \in V} = 0 .. nc - 1
        <4>1. \A u \in V : vcmap[u] \in 0 .. nc - 1
          BY <1>2, <3>1 DEF Seeded, Unmapped
        <4>2. \A c \in 0 .. nc - 1 : \E u \in V : vcmap[u] = c
          BY <1>2 DEF Seeded, Heads
        <4> QED
          BY <4>1, <4>2
      <3> QED
        BY <1>1, <1>2, <3>2 DEF Aggregates, Matching
    <2>2. CASE ph' # "done"
      BY <2>2 DEF Aggregates
    <2> QED
      BY <2>1, <2>2
  <1> QED
    BY <1>1, <1>2, <1>3, <1>4, <1>5 DEF AInv, Before, ByEdges, Matching, Rounds, Late

\* HEC: after its last round everybody is in an aggregate that has its root.
LEMMA EndRoundAggregates ==
  ASSUME IInv, AInv, EndRound
  PROVE  AInv'
  <1>1. /\ ph = "round" /\ AllOut /\ ~ Matching
        /\ UNCHANGED <<heuristic, adj, hn, vcmap, nc, cv>> /\ V' = V
        /\ perm' = perm \intersect Unmapped
        /\ ph' = IF perm' # {} THEN "round" ELSE IF heuristic = "HEC" THEN "assign" ELSE "done"
        /\ \A u \in V : pc'[u] = IF u \in perm' THEN "start" ELSE "out"
    BY DEF EndRound, problem, Launch, V
  <1>2. /\ Matching' <=> Matching
        /\ ByEdges' <=> ByEdges
        /\ Unmapped' = Unmapped /\ Unmapped = perm'
    BY <1>1 DEF AInv, Matching, ByEdges, Unmapped
  <1>3. InOrder'
    <2>1. InOrder
      BY DEF AInv
    <2>2. ph' = "assign" => AllOut' /\ heuristic = "HEC"
      BY <1>1 DEF AllOut
    <2> QED
      BY <1>1, <2>1, <2>2 DEF InOrder, Before, Rounds, Late
  <1>4. ASSUME heuristic # "HEC" PROVE Numbered /\ Numbered'
    <2>1. Numbered
      BY <1>1, <1>4 DEF AInv, Rounds
    <2> QED
      BY <1>1, <2>1, IdleNumbered
  <1>5. ASSUME heuristic = "HEC" PROVE Rooted'
    <2>1. Rooted
      BY <1>1, <1>5 DEF AInv
    <2> QED
      BY <1>1, <2>1 DEF Rooted, AllOut
  <1>6. ByEdges => \A c \in Nat : HangsTogether(InAggregate(c))'
    <2>1. ByEdges => \A c \in Nat : HangsTogether(InAggregate(c))
      BY <1>1 DEF AInv
    <2> QED
      BY <1>1, <2>1, SameTogether
  <1>7. ByEdges => \A u \in V : (hn[u] \in HeavyNeighbours(u))'
    <2>1. \A u : HeavyNeighbours(u)' = HeavyNeighbours(u)
      BY <1>1 DEF HeavyNeighbours
    <2> QED
      BY <1>1, <2>1 DEF AInv
  <1>8. Aggregates'
    <2>1. CASE ph' = "done"
      <3>1. Unmapped = {} /\ heuristic # "HEC"
        BY <1>1, <1>2, <2>1
      <3>2. {vcmap[u] : u \in V} = 0 .. nc - 1
        BY <1>1, <1>4, <3>1, NumberedIsOnto
      <3> QED
        BY <1>1, <3>1, <3>2 DEF Aggregates, Matching
    <2>2. CASE ph' # "done"
      BY <2>2 DEF Aggregates
    <2> QED
      BY <2>1, <2>2
  <1>9. ph' \in {"round", "assign", "done"} /\ (ph' = "assign" => Unmapped' = {})
    BY <1>1, <1>2
  <1> QED
    BY <1>1, <1>2, <1>3, <1>4, <1>5, <1>6, <1>7, <1>8, <1>9 DEF AInv, Before, Late, Rounds

LEMMA EndMatchRoundAggregates ==
  ASSUME IInv, AInv, EndMatchRound
  PROVE  AInv'
  <1> DEFINE next == {u \in perm \intersect Unmapped : adj[u] \intersect Unmapped # {}}
  <1>1. /\ ph = "round" /\ AllOut /\ Matching
        /\ UNCHANGED <<heuristic, adj, vcmap, nc, cv>> /\ V' = V
        /\ ph' = IF next # {} THEN "round" ELSE IF heuristic = "MtMetis" THEN "leaves" ELSE "singletons"
        /\ \A u \in V : pc'[u] = IF u \in next THEN "start" ELSE "out"
    BY DEF EndMatchRound, problem, Launch, V
  <1>2. PICK choice \in [next -> Unmapped] :
          /\ \A u \in next : choice[u] \in adj[u] \intersect Unmapped
          /\ hn' = [u \in V |-> IF u \in next THEN choice[u] ELSE hn[u]]
    BY DEF EndMatchRound
  <1> HIDE DEF next
  <1>3. /\ \A u \in V : hn'[u] \in adj[u] \/ hn'[u] = hn[u]
        /\ \A u \in V : adj[u] = {} => hn'[u] = hn[u]
    BY <1>2
  <1>4. /\ Matching' <=> Matching
        /\ ByEdges' <=> ByEdges
        /\ heuristic \in {"Match", "MtMetis"}
    BY <1>1 DEF Matching, ByEdges
  <1>5. InOrder'
    <2>1. InOrder
      BY DEF AInv
    <2>2. ph' # "round" => AllOut'
      BY <1>1 DEF AllOut
    <2> QED
      BY <1>1, <1>4, <2>1, <2>2 DEF InOrder, Before, Rounds, Late
  <1>6. Numbered' /\ Paired'
    <2>1. Numbered /\ Paired
      BY <1>1, <1>4 DEF AInv, Rounds
    <2> QED
      BY <1>1, <2>1, IdleNumbered, IdlePaired
  <1>7. ByEdges => \A c \in Nat : HangsTogether(InAggregate(c))'
    <2>1. ByEdges => \A c \in Nat : HangsTogether(InAggregate(c))
      BY <1>1 DEF AInv
    <2> QED
      BY <1>1, <1>3, <2>1, SameTogether
  <1>8. ByEdges => \A u \in V : (hn[u] \in HeavyNeighbours(u))'
    <2>1. \A u : HeavyNeighbours(u)' = HeavyNeighbours(u)
      BY <1>1 DEF HeavyNeighbours
    <2>2. \A u \in V : ByEdges /\ hn'[u] = hn[u] => hn'[u] \in HeavyNeighbours(u)
      BY DEF AInv
    <2>3. \A u \in V : hn'[u] \in adj[u] => hn'[u] \in HeavyNeighbours(u)
      BY DEF HeavyNeighbours
    <2> QED
      BY <1>3, <2>1, <2>2, <2>3
  <1>9. ph' \in {"round", "leaves", "singletons"}
    BY <1>1
  <1>10. Aggregates'
    BY <1>9 DEF Aggregates
  <1> QED
    BY <1>1, <1>4, <1>5, <1>6, <1>7, <1>8, <1>9, <1>10 DEF AInv, Before, Late, Rounds

LEMMA AssignStep ==
  ASSUME IInv, AInv, AssignAggregates
  PROVE  AInv'
  <1>1. /\ ph = "assign" /\ ph' = "propagate"
        /\ UNCHANGED <<heuristic, adj, hn, pc, cv>> /\ V' = V
    BY DEF AssignAggregates, problem, V
  <1>2. /\ Shape /\ vcmap \in [V -> Nat \union {ORD_MAX}]
        /\ heuristic = "HEC" /\ Rooted /\ Unmapped = {} /\ AllOut
        /\ \A c \in Nat : HangsTogether(InAggregate(c))
        /\ \A u \in V : hn[u] \in HeavyNeighbours(u)
    BY <1>1 DEF IInv, Shape, AInv, InOrder, Late, ByEdges
  <1>4. PICK R \in SUBSET V : R = {u \in V : vcmap[u] = u}
    OBVIOUS
  <1>3. /\ vcmap' = [u \in V |-> IF u \in R THEN RankIn(R, u) ELSE vcmap[u] + n]
        /\ nc' = Cardinality(R)
    BY <1>4 DEF AssignAggregates
  <1>5. \A u \in V : vcmap[u] \in R
    <2>1. \A u \in V : vcmap[u] \in V
      BY <1>2 DEF Rooted, Unmapped
    <2> QED
      BY <1>2, <1>4, <2>1 DEF Rooted, AllOut
  <1>6. PICK f \in [V -> R] : f = vcmap
    BY <1>2, <1>5
  <1>7. \A r \in R : f[r] = r /\ HangsTogether({u \in V : f[u] = r})'
    <2> SUFFICES ASSUME NEW r \in R PROVE f[r] = r /\ HangsTogether({u \in V : f[u] = r})'
      OBVIOUS
    <2>1. PICK M \in SUBSET V : M = InAggregate(r)
      BY DEF InAggregate
    <2>2. r \in Nat
      BY <1>2, <1>4, VerticesAreFinite
    <2>3. HangsTogether(M)'
      BY <1>1, <1>2, <2>1, <2>2, StaysTogether
    <2>4. M = {u \in V' : f[u] = r}
      BY <1>1, <1>6, <2>1 DEF InAggregate
    <2> QED
      BY <1>4, <1>6, <2>3, <2>4
  <1>8. n' = n /\ \A u : RankIn(R, u)' = RankIn(R, u)
    BY <1>1 DEF n, RankIn
  <1>9. Renaming'
    <2>1. vcmap' = [u \in V' |-> IF u \in R THEN RankIn(R, u) ELSE f[u] + n']
      BY <1>1, <1>3, <1>6, <1>8
    <2>2. R \in SUBSET V' /\ f \in [V' -> R] /\ nc' = Cardinality(R)
      BY <1>1, <1>3
    <2>3. \E g \in [V' -> R] :
            /\ \A r \in R : g[r] = r /\ HangsTogether({u \in V : g[u] = r})'
            /\ vcmap' = [u \in V' |-> IF u \in R THEN RankIn(R, u) ELSE g[u] + n']
            /\ nc' = Cardinality(R)
      BY <1>7, <2>1, <2>2
    <2> QED
      BY <2>2, <2>3 DEF Renaming, RankIn
  <1>10. InOrder'
    <2>1. InOrder
      BY DEF AInv
    <2> QED
      BY <1>1, <1>2, <2>1 DEF InOrder, Before, Rounds, Late
  <1>11. Aggregates'
    BY <1>1 DEF Aggregates
  <1>12. ByEdges' => \A u \in V' : (hn[u] \in HeavyNeighbours(u))'
    <2>1. \A u : HeavyNeighbours(u)' = HeavyNeighbours(u)
      BY <1>1 DEF HeavyNeighbours
    <2> QED
      BY <1>1, <1>2, <2>1
  <1> QED
    BY <1>1, <1>9, <1>10, <1>11, <1>12 DEF AInv, Before, Late, Rounds

\* The numbers that the others take from their roots
LEMMA PropagateStep ==
  ASSUME IInv, AInv, PropagateAggregates
  PROVE  AInv'
  <1>1. /\ ph = "propagate" /\ ph' = "done"
        /\ vcmap' = [u \in V |-> IF vcmap[u] >= n THEN vcmap[vcmap[u] - n] ELSE vcmap[u]]
        /\ UNCHANGED <<heuristic, adj, hn, nc, pc, cv>> /\ V' = V
    BY DEF PropagateAggregates, problem, V
  <1>2. Shape /\ heuristic = "HEC" /\ Renaming /\ \A u \in V : hn[u] \in HeavyNeighbours(u)
    BY <1>1 DEF IInv, AInv, InOrder, ByEdges
  <1>12. PICK R \in SUBSET V : \E f \in [V -> R] :
          /\ \A r \in R : f[r] = r /\ HangsTogether({u \in V : f[u] = r})
          /\ vcmap = [u \in V |-> IF u \in R THEN RankIn(R, u) ELSE f[u] + n]
          /\ nc = Cardinality(R)
    BY <1>2 DEF Renaming
  <1>3. PICK f \in [V -> R] :
          /\ \A r \in R : f[r] = r /\ HangsTogether({u \in V : f[u] = r})
          /\ vcmap = [u \in V |-> IF u \in R THEN RankIn(R, u) ELSE f[u] + n]
          /\ nc = Cardinality(R)
    BY <1>12
  <1>4. /\ nc \in Nat
        /\ \A u \in R : RankIn(R, u) \in 0 .. nc - 1
        /\ \A u, v \in R : RankIn(R, u) = RankIn(R, v) => u = v
        /\ \A k \in 0 .. nc - 1 : \E u \in R : RankIn(R, u) = k
    BY <1>2, <1>3, RankFacts
  <1>5. V \subseteq Nat /\ n \in Nat /\ nc <= n
    <2>1. IsFiniteSet(V)
      BY <1>2, VerticesAreFinite
    <2>2. Cardinality(R) <= Cardinality(V)
      BY <2>1, FS_Subset
    <2> QED
      BY <1>2, <1>3, <2>2, VerticesAreFinite DEF n
  <1>6. \A u \in V : vcmap'[u] = RankIn(R, f[u])
    <2> SUFFICES ASSUME NEW u \in V PROVE vcmap'[u] = RankIn(R, f[u])
      OBVIOUS
    <2>1. PICK r \in R : r = f[u]
      OBVIOUS
    <2>2. PICK k \in 0 .. nc - 1 : k = RankIn(R, r)
      BY <1>4
    <2>3. vcmap[r] = k
      BY <1>3, <2>2
    <2>4. CASE u \in R
      <3>1. vcmap[u] = k
        BY <1>3, <2>1, <2>3, <2>4
      <3>2. ~ (k >= n)
        BY <1>4, <1>5
      <3> QED
        BY <1>1, <2>1, <2>2, <3>1, <3>2
    <2>5. CASE u \notin R
      <3>1. vcmap[u] = r + n
        BY <1>3, <2>1, <2>5
      <3>2. r + n >= n /\ (r + n) - n = r
        BY <1>5
      <3>3. vcmap'[u] = vcmap[r]
        BY <1>1, <3>1, <3>2
      <3> QED
        BY <2>1, <2>2, <2>3, <3>3
    <2> QED
      BY <2>4, <2>5
  <1>7. {vcmap'[u] : u \in V} = 0 .. nc - 1
    <2>1. \A u \in V : vcmap'[u] \in 0 .. nc - 1
      BY <1>4, <1>6
    <2>2. \A c \in 0 .. nc - 1 : \E u \in V : vcmap'[u] = c
      <3> SUFFICES ASSUME NEW c \in 0 .. nc - 1 PROVE \E u \in V : vcmap'[u] = c
        OBVIOUS
      <3>1. PICK r \in R : RankIn(R, r) = c
        BY <1>4
      <3>2. r \in V /\ f[r] = r
        BY <1>3
      <3> QED
        BY <1>6, <3>1, <3>2
    <2> QED
      BY <2>1, <2>2
  <1>8. ASSUME NEW c \in 0 .. nc - 1 PROVE HangsTogether(InAggregate(c))'
    <2>1. PICK r \in R : RankIn(R, r) = c
      BY <1>4
    <2>2. PICK M \in SUBSET V : M = {u \in V : f[u] = r}
      OBVIOUS
    <2>3. HangsTogether(M)'
      <3>1. HangsTogether(M)
        BY <1>3, <2>2
      <3> QED
        BY <1>1, <3>1, StaysTogether
    <2>4. \A u \in V : vcmap'[u] = c <=> f[u] = r
      BY <1>4, <1>6, <2>1
    <2>5. M = InAggregate(c)'
      BY <1>1, <2>2, <2>4 DEF InAggregate
    <2> QED
      BY <2>3, <2>5
  <1>9. Aggregates'
    <2>1. ~ Matching'
      BY <1>1, <1>2 DEF Matching
    <2>2. \A c \in 0 .. nc' - 1 : HangsTogether(InAggregate(c))'
      BY <1>1, <1>8
    <2> QED
      BY <1>1, <1>7, <2>1, <2>2 DEF Aggregates, HangsTogether, InAggregate, Joined
  <1>10. InOrder'
    <2>1. InOrder
      BY DEF AInv
    <2> QED
      BY <1>1, <1>2, <2>1 DEF InOrder, Before, Rounds, Late
  <1>11. ByEdges' => \A u \in V' : (hn[u] \in HeavyNeighbours(u))'
    <2>1. \A u : HeavyNeighbours(u)' = HeavyNeighbours(u)
      BY <1>1 DEF HeavyNeighbours
    <2> QED
      BY <1>1, <1>2, <2>1
  <1> QED
    BY <1>1, <1>9, <1>10, <1>11 DEF AInv, Before, Late, Rounds

\* The pairs of PairUp have no vertex in common, and two in each.
LEMMA PairUpFacts ==
  ASSUME Shape, NEW S \in SUBSET V
  PROVE  /\ \A p \in PairUp(S) : p \in SUBSET S /\ p # {} /\ \A x, y, z \in p : x = y \/ x = z \/ y = z
         /\ \A p, q \in PairUp(S) : p \intersect q # {} => p = q
  <1>1. \A u, v \in S : RankIn(S, u) = RankIn(S, v) => u = v
    BY RankFacts
  <1> DEFINE Ranks(p) == {RankIn(S, u) : u \in p}
  <1>2. \A p \in PairUp(S) : p \in SUBSET S /\ \E i \in Nat : Ranks(p) = {2 * i, 2 * i + 1}
    <2>1. Cardinality(S) \in Nat
      BY RankFacts
    <2>2. \A k \in 0 .. Cardinality(S) : k \in Nat
      BY <2>1
    <2>3. ASSUME NEW p \in PairUp(S)
          PROVE  p \in SUBSET S /\ \E i \in 0 .. Cardinality(S) : Ranks(p) = {2 * i, 2 * i + 1}
      BY DEF PairUp, kSubset
    <2> HIDE DEF Ranks
    <2> QED
      BY <2>2, <2>3
  <1>3. ASSUME NEW p \in PairUp(S)
        PROVE  p \in SUBSET S /\ p # {} /\ \A x, y, z \in p : x = y \/ x = z \/ y = z
    <2>1. PICK i \in Nat : p \in SUBSET S /\ Ranks(p) = {2 * i, 2 * i + 1}
      BY <1>2
    <2>2. p # {}
      BY <2>1
    <2>3. \A x \in p : x \in S /\ RankIn(S, x) \in {2 * i, 2 * i + 1}
      BY <2>1
    <2>4. \A x, y \in p : RankIn(S, x) = RankIn(S, y) => x = y
      BY <1>1, <2>3
    <2> QED
      BY <2>1, <2>2, <2>3, <2>4
  <1>4. ASSUME NEW p \in PairUp(S), NEW q \in PairUp(S), p \intersect q # {}
        PROVE  p = q
    <2>1. PICK i \in Nat : p \in SUBSET S /\ Ranks(p) = {2 * i, 2 * i + 1}
      BY <1>2
    <2>2. PICK j \in Nat : q \in SUBSET S /\ Ranks(q) = {2 * j, 2 * j + 1}
      BY <1>2
    <2>3. PICK u \in p \intersect q : TRUE
      BY <1>4
    <2>4. RankIn(S, u) \in {2 * i, 2 * i + 1} /\ RankIn(S, u) \in {2 * j, 2 * j + 1}
      <3>1. RankIn(S, u) \in Ranks(p) /\ RankIn(S, u) \in Ranks(q)
        BY <2>3
      <3> HIDE DEF Ranks
      <3> QED
        BY <2>1, <2>2, <3>1
    <2>5. i = j
      BY <2>4
    <2>6. Ranks(p) = Ranks(q)
      BY <2>1, <2>2, <2>5
    <2>7. \A x \in p : \E y \in q : RankIn(S, x) = RankIn(S, y)
      BY <2>6
    <2>8. \A y \in q : \E x \in p : RankIn(S, x) = RankIn(S, y)
      BY <2>6
    <2>9. \A x \in p : x \in q
      BY <1>1, <2>1, <2>2, <2>7
    <2>10. \A y \in q : y \in p
      BY <1>1, <2>1, <2>2, <2>8
    <2> QED
      BY <2>9, <2>10
  <1> QED
    BY <1>3, <1>4

\* what MapPairs needs to know of its pairs
Apart(pairs) ==
  /\ \A p \in pairs : p \in SUBSET Unmapped /\ p # {} /\ \A x, y, z \in p : x = y \/ x = z \/ y = z
  /\ \A p, q \in pairs : p \intersect q # {} => p = q

\* A leaf has one neighbour, and so it is next to one mapped vertex.
LEMMA LeavesApart ==
  ASSUME Shape, \A u, v \in V : v \in adj[u] => u \in adj[v]
  PROVE  Apart(LeafPairs)
  <1> DEFINE leaves(u) == {v \in adj[u] \intersect Unmapped : Cardinality(adj[v]) = 1}
  <1>1. Unmapped \subseteq V
    BY DEF Unmapped
  <1>2. \A u : leaves(u) \in SUBSET Unmapped /\ leaves(u) \in SUBSET V
    BY <1>1
  <1>3. \A p \in LeafPairs : \E u \in V : p \in PairUp(leaves(u))
    <2> HIDE DEF leaves
    <2>1. LeafPairs = IF ManyUnmapped THEN UNION {PairUp(leaves(u)) : u \in V \ Unmapped} ELSE {}
      BY DEF LeafPairs, leaves
    <2> QED
      BY <2>1
  <1>4. ASSUME NEW u \in V, NEW v \in V, NEW x, x \in leaves(u), x \in leaves(v)
        PROVE  u = v
    <2>1. x \in V /\ u \in adj[x] /\ v \in adj[x] /\ Cardinality(adj[x]) = 1
      BY <1>1, <1>4
    <2>2. IsFiniteSet(adj[x])
      BY <2>1, VerticesAreFinite, FS_Subset DEF Shape
    <2>3. PICK y : adj[x] = {y}
      BY <2>1, <2>2, FS_Singleton
    <2> QED
      BY <2>1, <2>3
  <1>5. ASSUME NEW p \in LeafPairs
        PROVE  p \in SUBSET Unmapped /\ p # {} /\ \A x, y, z \in p : x = y \/ x = z \/ y = z
    <2>1. PICK u \in V : p \in PairUp(leaves(u))
      BY <1>3
    <2> HIDE DEF leaves
    <2>2. PICK S \in SUBSET V : S = leaves(u)
      BY <1>2
    <2> QED
      BY <1>2, <2>1, <2>2, PairUpFacts
  <1>6. ASSUME NEW p \in LeafPairs, NEW q \in LeafPairs, p \intersect q # {}
        PROVE  p = q
    <2>1. PICK u \in V, v \in V : p \in PairUp(leaves(u)) /\ q \in PairUp(leaves(v))
      BY <1>3
    <2>2. PICK S \in SUBSET V, T \in SUBSET V : S = leaves(u) /\ T = leaves(v)
      BY <1>2
    <2>3. p \in SUBSET S /\ q \in SUBSET T
      <3> HIDE DEF leaves
      <3> QED
        BY <2>1, <2>2, PairUpFacts
    <2>4. S = T
      <3>1. PICK x : x \in S /\ x \in T
        BY <1>6, <2>3
      <3>2. u = v
        BY <1>4, <2>2, <3>1
      <3> QED
        BY <2>2, <3>2
    <2> HIDE DEF leaves
    <2> QED
      BY <1>6, <2>1, <2>2, <2>4, PairUpFacts
  <1> QED
    BY <1>5, <1>6 DEF Apart

\* Vertices with the same digest are of one group.
LEMMA TwinsApart ==
  ASSUME Shape, NEW collide \in BOOLEAN
  PROVE  Apart(TwinPairs(collide))
  <1> DEFINE group(u) == {v \in Unmapped : collide \/ adj[v] = adj[u]}
  <1>1. Unmapped \subseteq V
    BY DEF Unmapped
  <1>2. \A u : group(u) \in SUBSET Unmapped /\ group(u) \in SUBSET V
    BY <1>1
  <1>3. \A p \in TwinPairs(collide) : \E u \in Unmapped : p \in PairUp(group(u))
    <2> HIDE DEF group
    <2>1. TwinPairs(collide) = IF ManyUnmapped THEN UNION {PairUp(group(u)) : u \in Unmapped} ELSE {}
      BY DEF TwinPairs, group
    <2> QED
      BY <2>1
  <1>4. ASSUME NEW u \in Unmapped, NEW v \in Unmapped, NEW x, x \in group(u), x \in group(v)
        PROVE  group(u) = group(v)
    BY <1>4
  <1> HIDE DEF group
  <1>5. ASSUME NEW p \in TwinPairs(collide)
        PROVE  p \in SUBSET Unmapped /\ p # {} /\ \A x, y, z \in p : x = y \/ x = z \/ y = z
    <2>1. PICK u \in Unmapped : p \in PairUp(group(u))
      BY <1>3
    <2>2. PICK S \in SUBSET V : S = group(u)
      BY <1>2
    <2> QED
      BY <1>2, <2>1, <2>2, PairUpFacts
  <1>6. ASSUME NEW p \in TwinPairs(collide), NEW q \in TwinPairs(collide), p \intersect q # {}
        PROVE  p = q
    <2>1. PICK u \in Unmapped, v \in Unmapped : p \in PairUp(group(u)) /\ q \in PairUp(group(v))
      BY <1>3
    <2>2. PICK S \in SUBSET V, T \in SUBSET V : S = group(u) /\ T = group(v)
      BY <1>2
    <2>3. p \in SUBSET S /\ q \in SUBSET T
      BY <2>1, <2>2, PairUpFacts
    <2>4. S = T
      <3>1. PICK x : x \in S /\ x \in T
        BY <1>6, <2>3
      <3> QED
        BY <1>4, <2>2, <3>1
    <2> QED
      BY <1>6, <2>1, <2>2, <2>4, PairUpFacts
  <1> QED
    BY <1>5, <1>6 DEF Apart

\* the place of a pair
PlaceOf(pairs, p) == Cardinality({q \in pairs : MinOf(q) < MinOf(p)})

LEMMA PlaceFacts ==
  ASSUME Shape, NEW pairs \in SUBSET SUBSET V, Apart(pairs)
  PROVE  /\ Cardinality(pairs) \in Nat
         /\ \A p \in pairs : PlaceOf(pairs, p) \in 0 .. Cardinality(pairs) - 1
         /\ \A p, q \in pairs : PlaceOf(pairs, p) = PlaceOf(pairs, q) => p = q
         /\ \A k \in 0 .. Cardinality(pairs) - 1 : \E p \in pairs : PlaceOf(pairs, p) = k
  <1>1. IsFiniteSet(pairs) /\ Cardinality(pairs) \in Nat
    BY CountsAreNumbers
  <1>2. \A p \in pairs : MinOf(p) \in p /\ MinOf(p) \in Nat
    <2> SUFFICES ASSUME NEW p \in pairs PROVE MinOf(p) \in p /\ MinOf(p) \in Nat
      OBVIOUS
    <2>1. p \in SUBSET V /\ p # {}
      BY DEF Apart
    <2> QED
      BY <2>1, MinIn, VerticesAreFinite
  <1>3. PICK f : f = [p \in pairs |-> MinOf(p)]
    OBVIOUS
  <1>4. /\ \A p \in pairs : f[p] = MinOf(p) /\ f[p] \in Nat
        /\ \A p, q \in pairs : f[p] = f[q] => p = q
    BY <1>2, <1>3 DEF Apart
  <1>5. PICK mins \in SUBSET Nat : mins = {f[p] : p \in pairs}
    BY <1>4
  <1>6. IsFiniteSet(mins) /\ Cardinality(mins) = Cardinality(pairs)
    BY <1>1, <1>4, <1>5, ImageSize
  <1>7. ASSUME NEW p \in pairs PROVE PlaceOf(pairs, p) = CountBelow(mins, f[p])
    <2>1. PICK T : T = {q \in pairs : f[q] < f[p]}
      OBVIOUS
    <2>2. IsFiniteSet(T) /\ \A q, r \in T : f[q] = f[r] => q = r
      <3>1. T \in SUBSET pairs
        BY <2>1
      <3> QED
        BY <1>1, <1>4, <3>1, FS_Subset
    <2>3. Cardinality({f[q] : q \in T}) = Cardinality(T)
      BY <2>2, ImageSize
    <2>4. {f[q] : q \in T} = {y \in mins : y < f[p]}
      BY <1>5, <2>1
    <2>5. T = {q \in pairs : MinOf(q) < MinOf(p)}
      BY <1>4, <2>1
    <2> QED
      BY <2>3, <2>4, <2>5 DEF PlaceOf, CountBelow
  <1>8. /\ \A m \in mins : CountBelow(mins, m) \in 0 .. Cardinality(pairs) - 1
        /\ \A l, m \in mins : CountBelow(mins, l) = CountBelow(mins, m) => l = m
        /\ \A k \in 0 .. Cardinality(pairs) - 1 : \E m \in mins : CountBelow(mins, m) = k
    BY <1>6, CountBelowFacts
  <1>9. \A p \in pairs : PlaceOf(pairs, p) \in 0 .. Cardinality(pairs) - 1
    BY <1>5, <1>7, <1>8
  <1>10. \A p, q \in pairs : PlaceOf(pairs, p) = PlaceOf(pairs, q) => p = q
    <2> SUFFICES ASSUME NEW p \in pairs, NEW q \in pairs, PlaceOf(pairs, p) = PlaceOf(pairs, q)
                 PROVE  p = q
      OBVIOUS
    <2>1. PICK l \in mins, m \in mins : l = f[p] /\ m = f[q]
      BY <1>5
    <2>2. CountBelow(mins, l) = CountBelow(mins, m)
      BY <1>7, <2>1
    <2>3. l = m
      BY <1>8, <2>2
    <2> QED
      BY <1>4, <2>1, <2>3
  <1>11. \A k \in 0 .. Cardinality(pairs) - 1 : \E p \in pairs : PlaceOf(pairs, p) = k
    <2> SUFFICES ASSUME NEW k \in 0 .. Cardinality(pairs) - 1 PROVE \E p \in pairs : PlaceOf(pairs, p) = k
      OBVIOUS
    <2>1. PICK m \in mins : CountBelow(mins, m) = k
      BY <1>8
    <2>2. PICK p \in pairs : f[p] = m
      BY <1>5
    <2> QED
      BY <1>7, <2>1, <2>2
  <1> QED
    BY <1>1, <1>9, <1>10, <1>11

\* Vertices without an aggregate get numbers from nc on: every number up to the
\* new nc, and no more than two vertices the same one.
LEMMA AppendNumbers ==
  ASSUME Shape, ph # "done", Numbered, Paired, AllOut, UNCHANGED <<adj, pc, cv>>,
         NEW X \in SUBSET Unmapped, NEW g, NEW k \in Nat,
         vcmap' = [u \in V |-> IF u \in X THEN nc + g[u] ELSE vcmap[u]], nc' = nc + k,
         \A u \in X : g[u] \in 0 .. k - 1,
         \A i \in 0 .. k - 1 : \E u \in X : g[u] = i,
         \A u, v, w \in X : g[u] = g[v] /\ g[u] = g[w] => u = v \/ u = w \/ v = w
  PROVE  Numbered' /\ Paired'
  <1>1. V' = V /\ X \subseteq V /\ nc \in Nat /\ vcmap \in [V -> Nat \union {ORD_MAX}]
    BY DEF V, Unmapped, Shape
  <1>2. \A u \in V : pc'[u] = "out"
    BY DEF AllOut
  <1>3. /\ \A u \in X : vcmap[u] = ORD_MAX /\ vcmap'[u] = nc + g[u] /\ g[u] \in Nat
        /\ \A u \in V \ X : vcmap'[u] = vcmap[u] /\ vcmap[u] \in 0 .. nc - 1 \union {ORD_MAX}
    BY <1>1 DEF Numbered, Unmapped
  <1>4. \A c \in 0 .. nc - 1 : \E u \in V \ X : vcmap[u] = c
    <2> SUFFICES ASSUME NEW c \in 0 .. nc - 1 PROVE \E u \in V \ X : vcmap[u] = c
      OBVIOUS
    <2>1. PICK u \in V : vcmap[u] = c
      BY DEF Numbered, AllOut, InAggregate
    <2>2. c # ORD_MAX
      BY <1>1 DEF ORD_MAX
    <2> QED
      BY <1>3, <2>1, <2>2
  <1>5. \A u \in V : vcmap'[u] \in 0 .. nc' - 1 \union {ORD_MAX}
    BY <1>1, <1>3
  <1>6. \A c \in 0 .. nc' - 1 : \E u \in V : vcmap'[u] = c
    <2> SUFFICES ASSUME NEW c \in 0 .. nc' - 1 PROVE \E u \in V : vcmap'[u] = c
      OBVIOUS
    <2>1. CASE c \in 0 .. nc - 1
      BY <1>3, <1>4, <2>1
    <2>2. CASE c \notin 0 .. nc - 1
      <3>1. c - nc \in 0 .. k - 1 /\ nc + (c - nc) = c
        BY <1>1, <2>2
      <3>2. PICK u \in X : g[u] = c - nc
        BY <3>1
      <3> QED
        BY <1>1, <1>3, <3>1, <3>2
    <2> QED
      BY <2>1, <2>2
  <1>7. Numbered'
    <2>1. \A c \in 0 .. nc' - 1 : InAggregate(c)' # {}
      BY <1>1, <1>6 DEF InAggregate
    <2> QED
      BY <1>1, <1>2, <1>5, <2>1 DEF Numbered
  <1>8. \A u, v, w \in V : vcmap'[u] \in Nat /\ vcmap'[u] = vcmap'[v] /\ vcmap'[u] = vcmap'[w]
                           => u = v \/ u = w \/ v = w
    <2> SUFFICES ASSUME NEW c \in Nat, NEW u \in V, NEW v \in V, NEW w \in V,
                        vcmap'[u] = c, vcmap'[v] = c, vcmap'[w] = c
                 PROVE  u = v \/ u = w \/ v = w
      OBVIOUS
    <2>1. \A x \in X : nc + g[x] \notin 0 .. nc - 1 \union {ORD_MAX}
      BY <1>1, <1>3 DEF ORD_MAX
    <2>2. CASE u \in X /\ v \in X /\ w \in X
      <3>1. nc + g[u] = c /\ nc + g[v] = c /\ nc + g[w] = c
        BY <1>3, <2>2
      <3>2. g[u] = g[v] /\ g[u] = g[w]
        BY <1>1, <1>3, <2>2, <3>1
      <3> QED
        BY <2>2, <3>2
    <2>3. CASE u \notin X /\ v \notin X /\ w \notin X
      <3>1. u \in InAggregate(c) /\ v \in InAggregate(c) /\ w \in InAggregate(c)
        BY <1>3, <2>3 DEF InAggregate
      <3> QED
        BY <3>1 DEF Paired
    <2> QED
      BY <1>3, <2>1, <2>2, <2>3
  <1>9. \A c \in Nat : \A u, v, w \in InAggregate(c)' : u = v \/ u = w \/ v = w
    BY <1>1, <1>8 DEF InAggregate
  <1>10. Paired'
    BY <1>1, <1>2, <1>9 DEF Paired
  <1> QED
    BY <1>7, <1>10

LEMMA MapPairsNumbers ==
  ASSUME Shape, ph # "done", Numbered, Paired, AllOut, UNCHANGED <<adj, pc, cv>>,
         NEW pairs \in SUBSET SUBSET V, Apart(pairs), MapPairs(pairs)
  PROVE  Numbered' /\ Paired'
  <1>1. PICK X \in SUBSET Unmapped : X = {u \in V : \E p \in pairs : u \in p}
    BY DEF Apart
  <1>2. PICK g : g = [u \in X |-> PlaceOf(pairs, CHOOSE p \in pairs : u \in p)]
    OBVIOUS
  <1>3. ASSUME NEW p \in pairs, NEW u \in p
        PROVE  u \in X /\ g[u] = PlaceOf(pairs, p)
    <2>1. u \in X
      BY <1>1
    <2>2. (CHOOSE q \in pairs : u \in q) = p
      BY <1>3 DEF Apart
    <2> QED
      BY <1>2, <2>1, <2>2
  <1>4. \A u \in X : \E p \in pairs : u \in p /\ g[u] = PlaceOf(pairs, p)
    BY <1>1, <1>3
  <1>5. PICK k \in Nat : k = Cardinality(pairs)
    BY PlaceFacts
  <1>6. /\ \A p \in pairs : PlaceOf(pairs, p) \in 0 .. k - 1
        /\ \A p, q \in pairs : PlaceOf(pairs, p) = PlaceOf(pairs, q) => p = q
        /\ \A i \in 0 .. k - 1 : \E p \in pairs : PlaceOf(pairs, p) = i
    BY <1>5, PlaceFacts
  <1>7. \A u \in X : g[u] \in 0 .. k - 1
    BY <1>4, <1>6
  <1>8. \A i \in 0 .. k - 1 : \E u \in X : g[u] = i
    <2> SUFFICES ASSUME NEW i \in 0 .. k - 1 PROVE \E u \in X : g[u] = i
      OBVIOUS
    <2>1. PICK p \in pairs : PlaceOf(pairs, p) = i
      BY <1>6
    <2>2. PICK u \in p : TRUE
      BY DEF Apart
    <2> QED
      BY <1>3, <2>1, <2>2
  <1>9. \A u, v, w \in X : g[u] = g[v] /\ g[u] = g[w] => u = v \/ u = w \/ v = w
    <2> SUFFICES ASSUME NEW u \in X, NEW v \in X, NEW w \in X, g[u] = g[v], g[u] = g[w]
                 PROVE  u = v \/ u = w \/ v = w
      OBVIOUS
    <2>1. PICK p \in pairs : u \in p /\ g[u] = PlaceOf(pairs, p)
      BY <1>4
    <2>2. PICK q \in pairs, r \in pairs :
            v \in q /\ g[v] = PlaceOf(pairs, q) /\ w \in r /\ g[w] = PlaceOf(pairs, r)
      BY <1>4
    <2>3. q = p /\ r = p
      BY <1>6, <2>1, <2>2
    <2> QED
      BY <2>1, <2>2, <2>3 DEF Apart
  <1>10. vcmap' = [u \in V |-> IF u \in X THEN nc + g[u] ELSE vcmap[u]] /\ nc' = nc + k
    <2>1. \A u \in X : g[u] = Cardinality({q \in pairs : MinOf(q) < MinOf(CHOOSE p \in pairs : u \in p)})
      BY <1>2 DEF PlaceOf
    <2>2. \A u \in V : u \in X <=> \E p \in pairs : u \in p
      BY <1>1
    <2> QED
      BY <1>5, <2>1, <2>2 DEF MapPairs
  <1> QED
    BY <1>7, <1>8, <1>9, <1>10, AppendNumbers

LEMMA LateAfter ==
  ASSUME AInv, heuristic = "MtMetis", ph' \in Late \union {"relatives"}, UNCHANGED <<heuristic, adj>>,
         ph' \in Late => AllOut', Numbered', Paired'
  PROVE  AInv'
  <1>1. /\ ~ Before' /\ ph' \notin {"round", "assign", "propagate", "done"} /\ ~ ByEdges'
        /\ V' = V /\ Matching'
    BY DEF Before, Late, ByEdges, V, Matching
  <1>2. InOrder'
    BY <1>1 DEF AInv, InOrder, Late, Rounds
  <1>3. Aggregates'
    BY <1>1 DEF Aggregates
  <1> QED
    BY <1>1, <1>2, <1>3 DEF AInv

LEMMA PairAggregates ==
  ASSUME IInv, AInv, MatchLeaves \/ MatchTwins
  PROVE  AInv'
  <1>1. /\ ph \in {"leaves", "twins"} /\ ph' \in {"twins", "chooseRelatives"}
        /\ UNCHANGED <<heuristic, adj, hn, match, perm, swap, pc, cv>>
        /\ \/ MapPairs(LeafPairs)
           \/ \E collide \in BOOLEAN : MapPairs(TwinPairs(collide))
    BY PairStep DEF MatchLeaves, MatchTwins, IInv
  <1>2. /\ Shape /\ ph # "done" /\ heuristic = "MtMetis" /\ AllOut /\ Numbered /\ Paired
        /\ \A u, v \in V : v \in adj[u] => u \in adj[v]
    BY <1>1 DEF IInv, AInv, InOrder, Late, Matching
  <1>3. \E pairs \in SUBSET SUBSET V : Apart(pairs) /\ MapPairs(pairs)
    BY <1>1, <1>2, PairsAreSets, LeavesApart, TwinsApart
  <1>4. Numbered' /\ Paired'
    BY <1>1, <1>2, <1>3, MapPairsNumbers
  <1>5. AllOut'
    BY <1>1, <1>2 DEF AllOut, V
  <1> QED
    BY <1>1, <1>2, <1>4, <1>5, LateAfter DEF Late

LEMMA RelativesAggregates ==
  ASSUME IInv, AInv, ChooseRelatives \/ EndRelatives
  PROVE  AInv'
  <1>1. /\ ph \in {"chooseRelatives", "relatives"} /\ ph' \in {"chooseRelatives", "singletons", "relatives"}
        /\ UNCHANGED <<heuristic, adj, vcmap, nc, cv>> /\ V' = V
    BY DEF ChooseRelatives, EndRelatives, problem, V
  <1>2. heuristic = "MtMetis" /\ Numbered /\ Paired /\ AllOut
    BY <1>1 DEF AInv, InOrder, Late, Matching, Rounds, ChooseRelatives, EndRelatives
  <1>3. /\ \A u \in V : pc'[u] \in {"start", "out"}
        /\ ph' # "relatives" => AllOut'
    <2>1. CASE UNCHANGED pc
      BY <1>1, <1>2, <2>1 DEF AllOut
    <2>2. CASE ChooseRelatives /\ ~ UNCHANGED pc
      <3> DEFINE next == {u \in (IF perm = {} THEN Unmapped ELSE perm) : u \in Unmapped /\ Relatives(u) # {}}
      <3>1. Launch(next) /\ ph' = IF next = {} THEN "singletons" ELSE "relatives"
        BY <2>2 DEF ChooseRelatives
      <3> HIDE DEF next
      <3> QED
        BY <1>1, <3>1 DEF Launch, AllOut
    <2> QED
      BY <2>1, <2>2 DEF EndRelatives
  <1>4. Numbered' /\ Paired'
    BY <1>1, <1>2, <1>3, IdleNumbered, IdlePaired
  <1> QED
    BY <1>1, <1>2, <1>3, <1>4, LateAfter DEF Late

LEMMA SingletonsAggregates ==
  ASSUME IInv, AInv, Singletons
  PROVE  AInv'
  <1>1. /\ ph = "singletons" /\ ph' = "done" /\ V' = V
        /\ UNCHANGED <<heuristic, adj, hn, pc, cv>>
    BY DEF Singletons, problem, V
  <1>2. /\ Shape /\ Matching /\ AllOut /\ Numbered /\ Paired
        /\ vcmap \in [V -> Nat \union {ORD_MAX}] /\ nc \in Nat
        /\ ByEdges => \A c \in Nat : HangsTogether(InAggregate(c))
    BY <1>1 DEF IInv, AInv, InOrder, Late, Matching, Shape
  <1>3. PICK X \in SUBSET Unmapped : X = Unmapped
    OBVIOUS
  <1>4. X \in SUBSET V
    BY DEF Unmapped
  <1>4a. PICK k \in Nat : k = Cardinality(X)
    BY <1>2, <1>4, RankFacts
  <1>4b. PICK g : g = [u \in X |-> RankIn(X, u)]
    OBVIOUS
  <1>5. k = Cardinality(X) /\ g = [u \in X |-> RankIn(X, u)]
    BY <1>4a, <1>4b
  <1>6. /\ \A u \in X : g[u] \in 0 .. k - 1
        /\ \A u, v \in X : g[u] = g[v] => u = v
        /\ \A i \in 0 .. k - 1 : \E u \in X : g[u] = i
    BY <1>2, <1>4, <1>5, RankFacts
  <1>7. vcmap' = [u \in V |-> IF u \in X THEN nc + g[u] ELSE vcmap[u]] /\ nc' = nc + k
    BY <1>3, <1>5 DEF Singletons
  <1>8. Numbered' /\ Paired'
    <2>1. \A u, v, w \in X : g[u] = g[v] /\ g[u] = g[w] => u = v \/ u = w \/ v = w
      BY <1>6
    <2>2. ph # "done" /\ UNCHANGED <<adj, pc, cv>>
      BY <1>1
    <2> QED
      BY <1>2, <1>6, <1>7, <2>1, <2>2, AppendNumbers, SMTT(60)
  <1>9. AllOut' /\ Unmapped' = {}
    <2>1. \A u \in V : vcmap'[u] # ORD_MAX
      <3>1. \A u \in X : nc + g[u] # ORD_MAX
        BY <1>2, <1>6 DEF ORD_MAX
      <3> QED
        BY <1>3, <1>7, <3>1 DEF Unmapped
    <2> QED
      BY <1>1, <1>2, <2>1 DEF AllOut, Unmapped
  <1>10. {vcmap'[u] : u \in V} = 0 .. nc' - 1
    <2>1. \A u \in V : vcmap'[u] \in 0 .. nc' - 1
      BY <1>1, <1>8, <1>9 DEF Numbered, Unmapped
    <2>2. \A c \in 0 .. nc' - 1 : \E u \in V : vcmap'[u] = c
      BY <1>1, <1>8, <1>9 DEF Numbered, AllOut, InAggregate
    <2> QED
      BY <2>1, <2>2
  <1>11. ASSUME NEW c \in Nat, ByEdges PROVE HangsTogether(InAggregate(c))'
    <2>1. PICK M \in SUBSET V : M = {u \in V : vcmap'[u] = c}
      OBVIOUS
    <2>2. HangsTogether(M)
      <3>1. \A u \in V \ X : vcmap'[u] = vcmap[u] /\ vcmap[u] \in 0 .. nc - 1
        BY <1>2, <1>3, <1>7 DEF Numbered, Unmapped
      <3>2. \A u \in X : vcmap'[u] = nc + g[u] /\ g[u] \in Nat
        BY <1>4, <1>6, <1>7
      <3>3. CASE c \in 0 .. nc - 1
        <4>1. \A u \in X : vcmap'[u] # c
          BY <1>2, <3>2, <3>3
        <4>2. M = InAggregate(c)
          <5>1. \A u \in X : vcmap[u] = ORD_MAX /\ c # ORD_MAX
            BY <1>3 DEF Unmapped, ORD_MAX
          <5> QED
            BY <2>1, <3>1, <4>1, <5>1 DEF InAggregate
        <4> QED
          BY <1>2, <1>11, <4>2
      <3>4. CASE c \notin 0 .. nc - 1
        <4>1. \A u \in M : u \in X /\ nc + g[u] = c
          BY <2>1, <3>1, <3>2, <3>4
        <4>2. \A u, v \in M : u = v
          BY <1>2, <1>6, <3>2, <4>1
        <4> QED
          BY <4>2 DEF HangsTogether
      <3> QED
        BY <3>3, <3>4
    <2>3. HangsTogether(M)'
      BY <1>1, <2>2, StaysTogether
    <2>4. M = InAggregate(c)'
      BY <1>1, <2>1 DEF InAggregate
    <2> QED
      BY <2>3, <2>4
  <1>12. ASSUME NEW c \in Nat PROVE Cardinality(InAggregate(c)') <= 2
    <2>1. PICK M \in SUBSET V : M = InAggregate(c)'
      BY <1>1 DEF InAggregate
    <2>2. \A x, y, z \in M : x = y \/ x = z \/ y = z
      BY <1>8, <2>1 DEF Paired
    <2> QED
      BY <2>1, <2>2, AtMostTwo
  <1>13. Aggregates'
    <2>1. \A c \in 0 .. nc' - 1 : c \in Nat
      BY <1>2, <1>5, <1>7
    <2>2. \A c \in 0 .. nc' - 1 : Cardinality({u \in V : vcmap'[u] = c}) <= 2
      BY <1>1, <1>12, <2>1 DEF InAggregate
    <2>3. heuristic \in {"HEC", "Match"} => \A c \in 0 .. nc' - 1 : HangsTogether(InAggregate(c))'
      BY <1>11, <2>1 DEF ByEdges
    <2>4. heuristic' \in {"HEC", "Match"} =>
            \A c \in 0 .. nc' - 1 :
              \A S \in (SUBSET {u \in V' : vcmap'[u] = c}) \ {{}, {u \in V' : vcmap'[u] = c}} :
                \E u \in S, v \in {w \in V' : vcmap'[w] = c} \ S : Joined(u, v)' \/ Joined(v, u)'
      BY <1>1, <2>3 DEF HangsTogether, InAggregate
    <2>5. {vcmap'[u] : u \in V'} = 0 .. nc' - 1
      BY <1>1, <1>10
    <2>6. \A c \in 0 .. nc' - 1 : Cardinality({u \in V' : vcmap'[u] = c}) <= 2
      BY <1>1, <2>2
    <2> QED
      BY <2>4, <2>5, <2>6 DEF Aggregates, Joined
  <1>14. InOrder'
    BY <1>1, <1>2 DEF AInv, InOrder, Before, Rounds, Late, Matching
  <1>15. ByEdges' => \A u \in V' : (hn[u] \in HeavyNeighbours(u))'
    <2>1. \A u : HeavyNeighbours(u)' = HeavyNeighbours(u)
      BY <1>1 DEF HeavyNeighbours
    <2> QED
      BY <1>1, <2>1 DEF AInv, ByEdges
  <1> QED
    BY <1>1, <1>13, <1>14, <1>15 DEF AInv, Before, Late, Rounds

LEMMA StutterAggregates ==
  ASSUME AInv, UNCHANGED vars
  PROVE  AInv'
  <1>1. /\ UNCHANGED <<heuristic, adj, ordering, hn, vcmap, match, perm, swap, nc, ph, pc, cv>>
        /\ V' = V
    BY DEF vars, V
  <1>2. /\ Before' <=> Before
        /\ Rounds' <=> Rounds
        /\ Matching' <=> Matching
        /\ ByEdges' <=> ByEdges
        /\ Unmapped' = Unmapped
        /\ AllOut' <=> AllOut
        /\ \A c : InAggregate(c)' = InAggregate(c)
    BY <1>1 DEF Before, Rounds, Matching, ByEdges, Unmapped, AllOut, InAggregate
  <1>3. InOrder'
    BY <1>1, <1>2 DEF AInv, InOrder
  <1>4. Seeded => Seeded'
    BY <1>1 DEF Seeded, Heads
  <1>5. Numbered => Numbered'
    BY <1>1 DEF Numbered, InAggregate
  <1>6. Paired => Paired'
    BY <1>1 DEF Paired, InAggregate
  <1>7. Rooted => Rooted'
    BY <1>1 DEF Rooted, Holds
  <1>8. \A u : HeavyNeighbours(u)' = HeavyNeighbours(u)
    BY <1>1 DEF HeavyNeighbours
  <1>9. (\A c \in Nat : HangsTogether(InAggregate(c))) => \A c \in Nat : HangsTogether(InAggregate(c))'
    BY <1>1, SameTogether
  <1>10. ASSUME Renaming PROVE Renaming'
    <2>1. PICK R \in SUBSET V : \E f \in [V -> R] :
            /\ \A r \in R : f[r] = r /\ HangsTogether({u \in V : f[u] = r})
            /\ vcmap = [u \in V |-> IF u \in R THEN RankIn(R, u) ELSE f[u] + n]
            /\ nc = Cardinality(R)
      BY <1>10 DEF Renaming
    <2>2. PICK f \in [V -> R] :
            /\ \A r \in R : f[r] = r /\ HangsTogether({u \in V : f[u] = r})
            /\ vcmap = [u \in V |-> IF u \in R THEN RankIn(R, u) ELSE f[u] + n]
            /\ nc = Cardinality(R)
      BY <2>1
    <2>3. \A r \in R : f[r] = r /\ HangsTogether({u \in V : f[u] = r})'
      <3> SUFFICES ASSUME NEW r \in R PROVE f[r] = r /\ HangsTogether({u \in V : f[u] = r})'
        OBVIOUS
      <3>1. PICK M \in SUBSET V : M = {u \in V : f[u] = r}
        OBVIOUS
      <3>2. HangsTogether(M)'
        <4>1. HangsTogether(M)
          BY <2>2, <3>1
        <4> QED
          BY <1>1, <4>1, StaysTogether
      <3>3. M = {u \in V' : f[u] = r}
        BY <1>1, <3>1
      <3> QED
        BY <2>2, <3>2, <3>3
    <2>4. n' = n
      BY <1>1 DEF n
    <2>5. vcmap' = [u \in V' |-> IF u \in R THEN RankIn(R, u) ELSE f[u] + n']
      BY <1>1, <2>2, <2>4
    <2>6. R \in SUBSET V' /\ f \in [V' -> R] /\ nc' = Cardinality(R)
      BY <1>1, <2>2
    <2>7. \E g \in [V' -> R] :
            /\ \A r \in R : g[r] = r /\ HangsTogether({u \in V : g[u] = r})'
            /\ vcmap' = [u \in V' |-> IF u \in R THEN RankIn(R, u) ELSE g[u] + n']
            /\ nc' = Cardinality(R)
      BY <2>3, <2>5, <2>6
    <2> QED
      BY <2>6, <2>7 DEF Renaming, RankIn
  <1>11. ASSUME Aggregates, ph = "done" PROVE Aggregates'
    <2>1. {vcmap[u] : u \in V} = 0 .. nc - 1
      BY <1>11 DEF Aggregates
    <2>2. {vcmap'[u] : u \in V'} = 0 .. nc' - 1
      BY <1>1, <2>1
    <2>3. ASSUME NEW c \in 0 .. nc - 1
          PROVE  /\ Matching' => Cardinality({u \in V' : vcmap'[u] = c}) <= 2
                 /\ ByEdges => HangsTogether(InAggregate(c))'
      <3>1. PICK M \in SUBSET V : M = {u \in V : vcmap[u] = c}
        OBVIOUS
      <3>2. /\ Matching => Cardinality(M) <= 2
            /\ ByEdges => HangsTogether(M)
        <4>1. Matching => Cardinality({u \in V : vcmap[u] = c}) <= 2
          BY <1>11 DEF Aggregates
        <4>2. ByEdges => \A S \in (SUBSET {u \in V : vcmap[u] = c}) \ {{}, {u \in V : vcmap[u] = c}} :
                           \E u \in S, v \in {w \in V : vcmap[w] = c} \ S : Joined(u, v) \/ Joined(v, u)
          BY <1>11 DEF Aggregates, ByEdges, Joined
        <4> QED
          BY <3>1, <4>1, <4>2 DEF HangsTogether
      <3>3. M = {u \in V' : vcmap'[u] = c}
        BY <1>1, <3>1
      <3>4. ByEdges => HangsTogether(M)'
        BY <1>1, <3>2, StaysTogether
      <3> QED
        BY <1>2, <3>2, <3>3, <3>4 DEF InAggregate
    <2>4. heuristic' \in {"HEC", "Match"} =>
            \A c \in 0 .. nc' - 1 :
              \A S \in (SUBSET {u \in V' : vcmap'[u] = c}) \ {{}, {u \in V' : vcmap'[u] = c}} :
                \E u \in S, v \in {w \in V' : vcmap'[w] = c} \ S : Joined(u, v)' \/ Joined(v, u)'
      BY <1>1, <2>3 DEF HangsTogether, InAggregate, ByEdges
    <2>5. \A c \in 0 .. nc' - 1 : Matching' => Cardinality({u \in V' : vcmap'[u] = c}) <= 2
      BY <1>1, <2>3
    <2> QED
      BY <2>2, <2>4, <2>5 DEF Aggregates, Joined
  <1>12. Aggregates => Aggregates'
    BY <1>1, <1>11 DEF Aggregates
  <1> QED
    BY <1>1, <1>2, <1>3, <1>4, <1>5, <1>6, <1>7, <1>8, <1>9, <1>10, <1>12 DEF AInv

LEMMA HostAggregates ==
  ASSUME IInv, AInv, Host
  PROVE  AInv'
  <1>1. CASE Adopted
    <2>1. /\ Before /\ Before' /\ UNCHANGED <<heuristic, adj, vcmap, nc, cv>> /\ V' = V
          /\ \A u \in V : pc'[u] = "start"
      BY <1>1 DEF Adopted, Adopting, Before, problem, V, Launch
    <2>2. Seeded'
      BY <2>1 DEF AInv, Seeded, Heads
    <2> QED
      BY <2>1, <2>2, BeforeAfter
  <1>2. CASE Spread
    BY <1>2, SpreadAggregates
  <1>3. CASE EndRound
    BY <1>3, EndRoundAggregates
  <1>4. CASE EndMatchRound
    BY <1>4, EndMatchRoundAggregates
  <1>5. CASE AssignAggregates
    BY <1>5, AssignStep
  <1>6. CASE PropagateAggregates
    BY <1>6, PropagateStep
  <1>7. CASE MatchLeaves \/ MatchTwins
    BY <1>7, PairAggregates
  <1>8. CASE ChooseRelatives \/ EndRelatives
    BY <1>8, RelativesAggregates
  <1>9. CASE Singletons
    BY <1>9, SingletonsAggregates
  <1> QED
    BY <1>1, <1>2, <1>3, <1>4, <1>5, <1>6, <1>7, <1>8, <1>9 DEF Host

\* In every state of every heuristic the numbers that are given are those below nc,
\* no pair has a third, and what is mapped by edges hangs together (lines 135-260,
\* 420-560, 840-1110).
THEOREM AggregatesInTheMaking == Spec => []AInv
  <1>1. Init => AInv
    BY InitAggregates
  <1>2. IInv /\ AInv /\ [Next]_vars => AInv'
    <2> SUFFICES ASSUME IInv, AInv, [Next]_vars PROVE AInv'
      OBVIOUS
    <2>1. CASE UNCHANGED vars
      BY <2>1, StutterAggregates
    <2>2. CASE \E u \in V : Item(u)
      BY <2>2, ItemAggregates
    <2>3. CASE Host
      BY <2>3, HostAggregates
    <2> QED
      BY <2>1, <2>2, <2>3 DEF Next, Terminated
  <1> QED
    BY <1>1, <1>2, ClaimsAreConsistent, PTL DEF Spec

\* Whatever the graph is: the coarse vertices are 0 .. nc - 1 and none is empty; those
\* of HEC and Match hang together by edges; a matching has two vertices in each at most.
THEOREM CoarseVerticesAreSound == Spec => []Aggregates
  <1>1. AInv => Aggregates
    BY DEF AInv
  <1> QED
    BY <1>1, AggregatesInTheMaking, PTL

=============================================================================

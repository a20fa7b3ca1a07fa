------------------------- MODULE Distance2MIS_proofs -------------------------
(***************************************************************************)
(* For every graph and every hash: no two vertices of the list are within  *)
(* two hops, each of the others is within two hops of one, every round     *)
(* decides a vertex, and the aggregates cover the graph around their       *)
(* roots.                                                                  *)
(***************************************************************************)
EXTENDS Distance2MIS, FiniteSetTheorems, TLAPS, WellFoundedInduction

\* A set of numbers that is not empty has a least, and one up to n a greatest.
LEMMA LeastOf ==
  ASSUME NEW S \in SUBSET Nat, S # {}
  PROVE  \E b \in S : \A c \in S : b <= c
  <1> DEFINE R == OpToRel(<, Nat)
  <1>1. \E b \in S : \A c \in S : ~ (<<c, b>> \in R)
    <2>1. IsWellFoundedOn(R, Nat)
      BY NatLessThanWellFounded
    <2> HIDE DEF R
    <2> QED
      BY <2>1, WFMin
  <1>2. \A b, c \in Nat : <<c, b>> \in R <=> c < b
    BY DEF OpToRel
  <1> HIDE DEF R
  <1>3. PICK b \in S : \A c \in S : ~ (<<c, b>> \in R)
    BY <1>1
  <1>4. \A c \in S : b \in Nat /\ c \in Nat /\ ~ (c < b)
    BY <1>2, <1>3
  <1> QED
    BY <1>4

LEMMA GreatestOf ==
  ASSUME NEW top \in Nat, NEW S \in SUBSET (0 .. top), S # {}
  PROVE  \E b \in S : \A c \in S : c <= b
  <1> DEFINE Bounds == {m \in Nat : \A c \in S : c <= m}
  <1>1. Bounds \in SUBSET Nat /\ top \in Bounds
    OBVIOUS
  <1>2. \E b \in Bounds : \A c \in Bounds : b <= c
    <2> HIDE DEF Bounds
    <2> QED
      BY <1>1, LeastOf
  <1>3. PICK b \in Bounds : \A c \in Bounds : b <= c
    BY <1>2
  <1>4. b \in Nat /\ \A c \in S : c \in Nat /\ c <= b
    BY <1>3
  <1>5. b \in S
    <2>1. SUFFICES ASSUME b \notin S PROVE FALSE
      OBVIOUS
    <2>2. \A c \in S : c \in Nat /\ c < b
      BY <1>4, <2>1
    <2>3. b - 1 \in Bounds
      <3>1. PICK c \in S : TRUE
        OBVIOUS
      <3>2. b - 1 \in Nat
        BY <1>4, <2>2, <3>1
      <3> QED
        BY <1>4, <2>2, <3>2
    <2>4. b <= b - 1
      BY <1>3, <2>3
    <2> QED
      BY <1>4, <2>4
  <1> QED
    BY <1>4, <1>5

\* The place of x among the members of a set of numbers.
CountBelow(S, x) == Cardinality({y \in S : y < x})

\* The ranks of the members of a set are the numbers below its size, one each.
LEMMA CountBelowFacts ==
  ASSUME NEW S \in SUBSET Nat, IsFiniteSet(S)
  PROVE  /\ Cardinality(S) \in Nat
         /\ \A u \in S : CountBelow(S, u) \in 0 .. Cardinality(S) - 1
         /\ \A u, v \in S : CountBelow(S, u) = CountBelow(S, v) => u = v
         /\ \A k \in 0 .. Cardinality(S) - 1 : \E u \in S : CountBelow(S, u) = k
  <1> DEFINE Below(u) == {y \in S : y < u}
             m == Cardinality(S)
             f == [u \in S |-> CountBelow(S, u)]
  <1>1. m \in Nat
    BY FS_CardinalityType
  <1>2. \A u \in S : IsFiniteSet(Below(u)) /\ Cardinality(Below(u)) \in Nat /\ CountBelow(S, u) = Cardinality(Below(u))
    <2> SUFFICES ASSUME NEW u \in S
                 PROVE  /\ IsFiniteSet(Below(u)) /\ Cardinality(Below(u)) \in Nat
                        /\ CountBelow(S, u) = Cardinality(Below(u))
      OBVIOUS
    <2>1. Below(u) \in SUBSET S
      OBVIOUS
    <2>2. CountBelow(S, u) = Cardinality(Below(u))
      BY DEF CountBelow
    <2> HIDE DEF Below
    <2> QED
      BY <2>1, <2>2, FS_Subset, FS_CardinalityType
  <1>3. ASSUME NEW u \in S, NEW T \in SUBSET S, Below(u) \subseteq T, u \in T
        PROVE  Cardinality(Below(u)) + 1 <= Cardinality(T)
    <2>1. u \notin Below(u) /\ Below(u) \union {u} \in SUBSET T
      BY <1>3
    <2>2. IsFiniteSet(T)
      BY FS_Subset
    <2> HIDE DEF Below
    <2>3. Cardinality(Below(u) \union {u}) = Cardinality(Below(u)) + 1
      BY <1>2, <2>1, FS_AddElement
    <2>4. Cardinality(Below(u) \union {u}) <= Cardinality(T)
      BY <2>1, <2>2, FS_Subset
    <2> QED
      BY <2>3, <2>4
  <1>4. \A u \in S : CountBelow(S, u) \in 0 .. m - 1
    <2> SUFFICES ASSUME NEW u \in S PROVE CountBelow(S, u) \in 0 .. m - 1
      OBVIOUS
    <2>1. Cardinality(Below(u)) + 1 <= m
      <3>1. Below(u) \subseteq S
        OBVIOUS
      <3> HIDE DEF Below
      <3> QED
        BY <1>3, <3>1
    <2>2. Cardinality(Below(u)) \in Nat /\ CountBelow(S, u) = Cardinality(Below(u))
      BY <1>2
    <2> HIDE DEF Below, m
    <2> QED
      BY <1>1, <2>1, <2>2
  <1>5. ASSUME NEW u \in S, NEW v \in S, u < v PROVE CountBelow(S, u) < CountBelow(S, v)
    <2>1. Below(v) \in SUBSET S /\ Below(u) \subseteq Below(v) /\ u \in Below(v)
      <3>1. \A x \in S : x < u => x < v
        <4>1. S \subseteq Int
          OBVIOUS
        <4> QED
          BY <1>5, <4>1
      <3> QED
        BY <1>5, <3>1
    <2>2. Cardinality(Below(u)) + 1 <= Cardinality(Below(v))
      <3> HIDE DEF Below
      <3> QED
        BY <1>3, <2>1
    <2>3. /\ Cardinality(Below(u)) \in Nat /\ CountBelow(S, u) = Cardinality(Below(u))
          /\ Cardinality(Below(v)) \in Nat /\ CountBelow(S, v) = Cardinality(Below(v))
      BY <1>2
    <2> HIDE DEF Below
    <2> QED
      BY <2>2, <2>3
  <1>6. \A u, v \in S : CountBelow(S, u) = CountBelow(S, v) => u = v
    <2> SUFFICES ASSUME NEW u \in S, NEW v \in S, CountBelow(S, u) = CountBelow(S, v) PROVE u = v
      OBVIOUS
    <2>1. u < v \/ v < u \/ u = v
      OBVIOUS
    <2>2. CountBelow(S, u) \in Int /\ CountBelow(S, v) \in Int
      BY <1>4
    <2> QED
      BY <1>5, <2>1, <2>2
  <1>7. \A k \in 0 .. m - 1 : \E u \in S : CountBelow(S, u) = k
    <2> DEFINE T == 0 .. m - 1
    <2>1. f \in Injection(S, T)
      BY <1>4, <1>6 DEF Injection, IsInjective
    <2>2. IsFiniteSet(T) /\ Cardinality(T) = Cardinality(S)
      <3>1. 0 \in Int /\ m - 1 \in Int
        BY <1>1
      <3>2. Cardinality(T) = IF 0 > m - 1 THEN 0 ELSE m - 1 - 0 + 1
        BY <3>1, FS_Interval
      <3>3. Cardinality(T) = m
        <4> HIDE DEF m
        <4> QED
          BY <1>1, <3>2
      <3> QED
        BY <3>1, <3>3, FS_Interval
    <2>3. f \in Surjection(S, T)
      <3> HIDE DEF f, T
      <3> QED
        BY <2>1, <2>2, FS_Injection
    <2> QED
      BY <2>3 DEF Surjection
  <1> QED
    BY <1>1, <1>4, <1>6, <1>7

-----------------------------------------------------------------------------

\* the vertices that the list is for, and a member of it within two hops
Asked == {u \in V : labels[u] = -1}
Dominated(u) == \E v \in InSet : WithinTwo(u, v)

FastPhases == {"refreshRow", "refreshCol", "decide", "compactRow", "compactCol"}
QualityPhases == {"construct", "initCol", "iterate", "refreshMarked", "updateWork"}
Listed == {"list", "phase1", "phase2"}

\* which phases a call goes through, and what it has to show for it
PhaseInv ==
  /\ ph \in QualityPhases => api = "QUALITY"
  /\ ph \in FastPhases => api # "QUALITY"
  /\ ph \in {"phase1", "phase2", "phase3"} => api \in {"COARSEN", "AGGREGATE"}
  /\ ph = "phase1" => numAggs = 0
  /\ ph \in {"phase2", "phase3"} => numAggs > 0
  /\ api \in {"FAST", "QUALITY"} => numAggs = 0
  /\ ph = "done" /\ api \in {"COARSEN", "AGGREGATE"} => numAggs > 0
  /\ ph \in Listed => rowWork = {}

\* A row outside the worklist is decided; those in it differ as long as they are not.
RowInv ==
  /\ rowWork \subseteq Asked
  /\ ph \in {"construct", "initCol"} => rowWork = V
  /\ \A u \in V \ rowWork : Decided(rowStatus[u])
  /\ \A u \in V \ Asked : rowStatus[u] = OUT_SET
  /\ ph \in {"construct", "refreshRow"} => \A u \in rowWork : rowStatus[u] # IN_SET
  /\ ph \in {"initCol", "iterate", "refreshCol", "decide", "compactCol"} =>
       \A u \in rowWork : ~ Decided(rowStatus[u])
  /\ \A u, v \in rowWork : ~ Decided(rowStatus[u]) /\ rowStatus[u] = rowStatus[v] => u = v
  /\ ph \in {"compactRow", "refreshMarked", "updateWork"} =>
       rowWork = {} \/ \E u \in rowWork : Decided(rowStatus[u])

SetInv ==
  /\ \A u, v \in InSet : WithinTwo(u, v) => u = v
  /\ \A u \in Asked : rowStatus[u] = OUT_SET
                      => Dominated(u) \/ (u \in rowWork /\ ph \in {"construct", "refreshRow"})

\* A column closes when a row next to it is in, or all of them are out, for good.
Closed(c) == \/ \E r \in Near(c) : rowStatus[r] = IN_SET
             \/ \A r \in Near(c) : rowStatus[r] = OUT_SET /\ r \notin rowWork

ColInv ==
  /\ ph \in FastPhases => \A c \in V \ colWork : colStatus[c] = OUT_SET /\ Closed(c)
  /\ ph \in {"compactRow", "compactCol"} =>
       \A c \in V : colStatus[c] # IN_SET /\ (colStatus[c] = OUT_SET => Closed(c))
  /\ ph \in {"decide", "iterate", "updateWork"} => \A c \in V : colStatus[c] = ColStatus(c)
  /\ ph = "refreshMarked" => \A c \in V \ colUpdate : colStatus[c] = ColStatus(c)

MISInv == ph \notin {"phase3", "done"} => RowInv /\ SetInv /\ ColInv

\* The aggregates are around their roots, one each, and leave nobody out of reach.
RootsInv ==
  /\ Cardinality(roots) = numAggs
  /\ \A r \in roots : labels[r] # -1
  /\ \A r, s \in roots : labels[r] = labels[s] => r = s
  /\ \A a \in 0 .. numAggs - 1 : \E r \in roots : labels[r] = a
  /\ \A u \in V : labels[u] \in {-1} \union 0 .. numAggs - 1

AggInv ==
  /\ RootsInv
  /\ numAggs > 0 /\ ph # "done" =>
       /\ \A u \in V : labels[u] # -1 => \E r \in roots : labels[r] = labels[u] /\ u \in Near(r)
       /\ \A u \in V : \E c \in Near(u) : labels[c] # -1
  /\ numAggs > 0 /\ ph = "done" =>
       \A u \in V : \E r \in roots : labels[r] = labels[u] /\ WithinTwo(r, u)

IInv == TypeOK /\ PhaseInv /\ MISInv /\ AggInv

-----------------------------------------------------------------------------
(* the graph, the statuses and what a column makes of them *)

LEMMA ProblemFacts ==
  ASSUME TypeOK
  PROVE  /\ n \in Nat \ {0} /\ V = 0 .. n - 1 /\ IsFiniteSet(V) /\ V # {}
         /\ rows \in [V -> Seq(Nat)] /\ api \in {"FAST", "QUALITY", "COARSEN", "AGGREGATE"}
         /\ n + 1 < 2 ^ StatusBits
         /\ \A u \in V : Near(u) \subseteq V /\ u \in Near(u) /\ \A v \in Near(u) : u \in Near(v)
  <1>1. PICK p \in Problems : api = p.api /\ rows = p.rows
    BY DEF TypeOK
  <1>2. /\ api \in {"FAST", "QUALITY", "COARSEN", "AGGREGATE"}
        /\ n \in Nat \ {0} /\ rows \in [0 .. n - 1 -> Seq(Nat)] /\ n + 1 < 2 ^ StatusBits
        /\ \A u, v \in V : (\E k \in DOMAIN rows[u] : rows[u][k] = v)
                           => \E k \in DOMAIN rows[v] : rows[v][k] = u
    BY <1>1, ProblemAssumption DEF V, n
  <1>3. V = 0 .. n - 1 /\ V # {}
    <2>1. PICK m \in Nat : m = n /\ m > 0
      BY <1>2
    <2>2. V = 0 .. m - 1
      BY <1>2, <2>1 DEF V
    <2> QED
      BY <2>1, <2>2
  <1>4. IsFiniteSet(V)
    <2>1. 0 \in Int /\ n - 1 \in Int
      BY <1>2
    <2> QED
      BY <1>3, <2>1, FS_Interval
  <1>5. \A u \in V : Near(u) \subseteq V /\ u \in Near(u) /\ \A v \in Near(u) : u \in Near(v)
    BY <1>2 DEF Near
  <1> QED
    BY <1>2, <1>3, <1>4, <1>5

LEMMA TwoHops ==
  ASSUME TypeOK
  PROVE  /\ \A u \in V : WithinTwo(u, u)
         /\ \A u, v \in V : WithinTwo(u, v) => WithinTwo(v, u)
         /\ \A u, v, c \in V : u \in Near(c) /\ v \in Near(c) => WithinTwo(u, v)
  BY ProblemFacts DEF WithinTwo

LEMMA MultiplyLess ==
  ASSUME NEW a \in Nat, NEW b \in Nat, NEW w \in Nat, a < b
  PROVE  a * w + w <= b * w
  <1>1. PICK d \in Nat : b = a + 1 + d
    <2>1. b - a - 1 \in Nat /\ b = a + 1 + (b - a - 1)
      OBVIOUS
    <2> QED
      BY <2>1
  <1>2. b * w = a * w + w + d * w /\ d * w \in Nat /\ a * w \in Nat
    BY <1>1
  <1> QED
    BY <1>2

\* The number of bits exists: some width holds n + 1, and the least one is not 0.
LEMMA WidthFacts ==
  ASSUME TypeOK
  PROVE  /\ 2 ^ nvBits \in Nat \ {0} /\ High \in Nat \ {0} /\ n + 1 < 2 ^ nvBits
         /\ 2 ^ nvBits * High = 2 ^ StatusBits /\ 2 ^ StatusBits \in Nat
  <1>1. n \in Nat \ {0} /\ n + 1 < 2 ^ StatusBits /\ StatusBits \in Nat \ {0}
    BY ProblemFacts, WidthAssumption
  <1> DEFINE Wide == {b \in 0 .. StatusBits : n + 1 < 2 ^ b}
  <1>2. StatusBits \in Wide /\ Wide \in SUBSET Nat
    BY <1>1
  <1>3. PICK b \in Wide : \A c \in Wide : b <= c
    <2> HIDE DEF Wide
    <2> QED
      BY <1>2, LeastOf
  <1>4. b # 0
    <2> SUFFICES ASSUME b = 0 PROVE FALSE
      OBVIOUS
    <2>1. 0 \in 0 .. StatusBits /\ StatusBits - 0 = StatusBits
      BY <1>1
    <2>2. 2 ^ 0 \in Nat \ {0} /\ 2 ^ 0 * 2 ^ StatusBits = 2 ^ StatusBits /\ 2 ^ StatusBits \in Nat
      BY <1>1, <2>1, WidthAssumption
    <2>3. PICK x \in Nat, y \in Nat : x = 2 ^ 0 /\ y = 2 ^ StatusBits
      BY <2>2
    <2>4. x * y = y /\ y > 0 /\ x > 1
      BY <1>1, <1>3, <2>2, <2>3
    <2>5. 1 * y + y <= x * y
      BY <2>4, MultiplyLess
    <2> QED
      BY <2>4, <2>5
  <1>5. b \in 1 .. StatusBits /\ n + 1 < 2 ^ b /\ 2 ^ (b - 1) <= n + 1
    <2>1. b \in Nat /\ b - 1 \in 0 .. StatusBits /\ ~ (b <= b - 1) /\ b \in 1 .. StatusBits
      BY <1>1, <1>3, <1>4
    <2>2. ~ (n + 1 < 2 ^ (b - 1)) /\ 2 ^ (b - 1) \in Nat
      BY <1>3, <2>1, WidthAssumption
    <2> QED
      BY <1>1, <1>3, <2>1, <2>2
  <1>6. nvBits \in 1 .. StatusBits /\ n + 1 < 2 ^ nvBits
    BY <1>5 DEF nvBits
  <1>7. nvBits \in 0 .. StatusBits /\ StatusBits - nvBits \in 0 .. StatusBits
    BY <1>1, <1>6
  <1> QED
    BY <1>1, <1>6, <1>7, WidthAssumption DEF High

\* A status is neither IN_SET nor OUT_SET, and no two rows ever have the same.
LEMMA StatusFacts ==
  ASSUME TypeOK
  PROVE  /\ OUT_SET \in Nat /\ IN_SET = 0 /\ OUT_SET > 0 /\ n <= OUT_SET
         /\ \A i \in V, p \in Int : Status(i, p) \in 1 .. OUT_SET - 1
         /\ \A i, j \in V, p, q \in Int : Status(i, p) = Status(j, q) => i = j
  <1>1. PICK w \in Nat, h \in Nat, m \in Nat :
          /\ w = 2 ^ nvBits /\ h = High /\ m = 2 ^ StatusBits
          /\ h > 0 /\ n + 1 < w /\ w * h = m
    BY WidthFacts
  <1>2. n \in Nat /\ n > 0 /\ V = 0 .. n - 1 /\ n + 1 < m
    BY <1>1, ProblemFacts
  <1>3. OUT_SET = m - 1
    BY <1>1 DEF OUT_SET
  <1>4. \A i \in V, p \in Int : \E a \in 0 .. h - 1 : Status(i, p) = i + 1 + a * w
    <2> SUFFICES ASSUME NEW i \in V, NEW p \in Int
                 PROVE  \E a \in 0 .. h - 1 : Status(i, p) = i + 1 + a * w
      OBVIOUS
    <2>1. p % h \in 0 .. h - 1
      BY <1>1
    <2> QED
      BY <1>1, <2>1 DEF Status
  <1>5. \A i \in V, a \in 0 .. h - 1 : i + 1 + a * w \in 1 .. m - 2
    <2> SUFFICES ASSUME NEW i \in V, NEW a \in 0 .. h - 1 PROVE i + 1 + a * w \in 1 .. m - 2
      OBVIOUS
    <2>1. a \in Nat /\ a < h /\ i \in Nat /\ i + 1 <= n
      BY <1>1, <1>2
    <2>2. a * w + w <= h * w /\ h * w = m /\ a * w \in Nat
      BY <1>1, <2>1, MultiplyLess
    <2>3. PICK x \in Nat, k \in Nat : x = a * w /\ k = n
      BY <1>2, <2>2
    <2>4. x + w <= m /\ i + 1 <= k /\ k + 1 < w
      BY <1>1, <2>1, <2>2, <2>3
    <2>5. i + 1 + x \in 1 .. m - 2
      BY <2>1, <2>4
    <2> QED
      BY <2>3, <2>5
  <1>6. ASSUME NEW i \in V, NEW j \in V, NEW a \in 0 .. h - 1, NEW b \in 0 .. h - 1,
               i + 1 + a * w = j + 1 + b * w
        PROVE  i = j
    <2>1. a \in Nat /\ b \in Nat /\ i \in Nat /\ j \in Nat /\ i < w /\ j < w /\ a * w \in Nat /\ b * w \in Nat
      BY <1>1, <1>2
    <2>2. CASE a < b
      <3>1. a * w + w <= b * w
        BY <2>1, <2>2, MultiplyLess
      <3> QED
        BY <1>6, <2>1, <3>1
    <2>3. CASE b < a
      <3>1. b * w + w <= a * w
        BY <2>1, <2>3, MultiplyLess
      <3> QED
        BY <1>6, <2>1, <3>1
    <2>4. CASE a = b
      BY <1>6, <2>1, <2>4
    <2> QED
      BY <2>1, <2>2, <2>3, <2>4
  <1>7. ASSUME NEW i \in V, NEW p \in Int PROVE Status(i, p) \in 1 .. OUT_SET - 1
    <2>1. PICK a \in 0 .. h - 1 : Status(i, p) = i + 1 + a * w
      BY <1>4
    <2>2. Status(i, p) \in 1 .. m - 2
      BY <1>5, <2>1
    <2>3. OUT_SET - 1 = m - 2
      BY <1>3
    <2> QED
      BY <2>2, <2>3
  <1>8. ASSUME NEW i \in V, NEW j \in V, NEW p \in Int, NEW q \in Int, Status(i, p) = Status(j, q)
        PROVE  i = j
    <2>1. PICK a \in 0 .. h - 1 : Status(i, p) = i + 1 + a * w
      BY <1>4
    <2>2. PICK b \in 0 .. h - 1 : Status(j, q) = j + 1 + b * w
      BY <1>4
    <2> QED
      BY <1>6, <1>8, <2>1, <2>2
  <1> QED
    BY <1>2, <1>3, <1>7, <1>8 DEF IN_SET

LEMMA LeastStatus ==
  ASSUME NEW S \in SUBSET Nat, S # {}
  PROVE  MinStatus(S) \in S /\ \A t \in S : MinStatus(S) <= t
  BY LeastOf DEF MinStatus

\* What a column becomes with the statuses st of the rows: out next to a member or
\* among rows that are all out, and otherwise the least status next to it.
ColOf(st, c) ==
  LET s == MinStatus({st[r] : r \in Near(c)})
  IN  IF s = IN_SET THEN OUT_SET ELSE s

LEMMA ColOfFacts ==
  ASSUME TypeOK, NEW c \in V, NEW st \in [V -> 0 .. OUT_SET]
  PROVE  /\ ColOf(st, c) \in 1 .. OUT_SET
         /\ (\E r \in Near(c) : st[r] = IN_SET) => ColOf(st, c) = OUT_SET
         /\ (\A r \in Near(c) : st[r] = OUT_SET) => ColOf(st, c) = OUT_SET
         /\ (\A r \in Near(c) : st[r] # IN_SET) =>
              /\ ColOf(st, c) = MinStatus({st[r] : r \in Near(c)})
              /\ \E r \in Near(c) : st[r] = ColOf(st, c)
              /\ \A r \in Near(c) : ColOf(st, c) <= st[r]
         /\ ColOf(st, c) = OUT_SET => \/ \E r \in Near(c) : st[r] = IN_SET
                                      \/ \A r \in Near(c) : st[r] = OUT_SET
  <1> DEFINE S == {st[r] : r \in Near(c)}
  <1>1. Near(c) \subseteq V /\ c \in Near(c) /\ OUT_SET \in Nat /\ OUT_SET > 0 /\ IN_SET = 0
    BY ProblemFacts, StatusFacts
  <1>2. S \in SUBSET (0 .. OUT_SET) /\ S # {}
    BY <1>1
  <1>3. PICK s \in S : s = MinStatus(S) /\ \A t \in S : s <= t
    <2>1. S \in SUBSET Nat
      BY <1>1, <1>2
    <2> HIDE DEF S
    <2> QED
      BY <1>2, <2>1, LeastStatus
  <1>4. ColOf(st, c) = IF s = 0 THEN OUT_SET ELSE s
    BY <1>1, <1>3 DEF ColOf
  <1>5. s \in 0 .. OUT_SET /\ s \in Nat
    BY <1>1, <1>2
  <1>6. \A r \in Near(c) : st[r] \in 0 .. OUT_SET /\ s <= st[r]
    BY <1>2, <1>3
  <1>7. PICK r \in Near(c) : st[r] = s
    OBVIOUS
  <1>8. s = OUT_SET => \A t \in Near(c) : st[t] = OUT_SET
    BY <1>1, <1>6
  <1>9. (\E t \in Near(c) : st[t] = 0) => s = 0
    BY <1>1, <1>5, <1>6
  <1>10. s = MinStatus({st[t] : t \in Near(c)})
    BY <1>3
  <1> HIDE DEF S
  <1>11. ColOf(st, c) \in 1 .. OUT_SET /\ ((\E t \in Near(c) : st[t] = IN_SET) => ColOf(st, c) = OUT_SET)
    BY <1>1, <1>4, <1>5, <1>9
  <1>12. (\A t \in Near(c) : st[t] = OUT_SET) => ColOf(st, c) = OUT_SET
    BY <1>4, <1>7
  <1>13. ASSUME \A t \in Near(c) : st[t] # IN_SET
         PROVE  /\ ColOf(st, c) = MinStatus({st[t] : t \in Near(c)})
                /\ \E t \in Near(c) : st[t] = ColOf(st, c)
                /\ \A t \in Near(c) : ColOf(st, c) <= st[t]
    <2>1. ColOf(st, c) = s
      BY <1>1, <1>4, <1>7, <1>13
    <2> QED
      BY <1>6, <1>7, <1>10, <2>1
  <1>14. ColOf(st, c) = OUT_SET => \/ \E t \in Near(c) : st[t] = IN_SET
                                  \/ \A t \in Near(c) : st[t] = OUT_SET
    BY <1>1, <1>4, <1>7, <1>8
  <1> QED
    BY <1>11, <1>12, <1>13, <1>14

LEMMA ColStatusFacts ==
  ASSUME TypeOK, NEW c \in V
  PROVE  /\ ColStatus(c) \in 1 .. OUT_SET
         /\ ColStatus(c) = OUT_SET => \/ \E r \in Near(c) : rowStatus[r] = IN_SET
                                      \/ \A r \in Near(c) : rowStatus[r] = OUT_SET
         /\ (\E r \in Near(c) : rowStatus[r] = IN_SET) => ColStatus(c) = OUT_SET
         /\ (\A r \in Near(c) : rowStatus[r] = OUT_SET) => ColStatus(c) = OUT_SET
         /\ (\A r \in Near(c) : rowStatus[r] # IN_SET) =>
              /\ ColStatus(c) = MinStatus({rowStatus[r] : r \in Near(c)})
              /\ \E r \in Near(c) : rowStatus[r] = ColStatus(c)
              /\ \A r \in Near(c) : ColStatus(c) <= rowStatus[r]
  <1>1. PICK st \in [V -> 0 .. OUT_SET] : st = rowStatus
    BY DEF TypeOK
  <1>2. ColStatus(c) = ColOf(st, c)
    BY <1>1 DEF ColStatus, ColOf
  <1> QED
    BY <1>1, <1>2, ColOfFacts

-----------------------------------------------------------------------------
(* a round of either algorithm *)

\* Columns that are up to date put in a row that is alone within two hops, put out
\* the rows near a member, and always decide the row with the least status.
LEMMA DecideRows ==
  ASSUME IInv, ph \in {"decide", "iterate"},
         rowStatus' = [u \in V |-> IF u \in rowWork THEN NewRowStatus(u) ELSE rowStatus[u]]
  PROVE  /\ rowStatus' \in [V -> 0 .. OUT_SET]
         /\ \A u \in V : u \notin rowWork \/ ~ Decided(rowStatus'[u]) => rowStatus'[u] = rowStatus[u]
         /\ \A u, v \in V : rowStatus'[u] = IN_SET /\ rowStatus'[v] = IN_SET /\ WithinTwo(u, v) => u = v
         /\ \A u \in Asked : rowStatus'[u] = OUT_SET => \E v \in V : rowStatus'[v] = IN_SET /\ WithinTwo(u, v)
         /\ rowWork = {} \/ \E u \in rowWork : Decided(rowStatus'[u])
  <1>1. /\ TypeOK /\ RowInv /\ SetInv /\ \A c \in V : colStatus[c] = ColStatus(c)
        /\ \A u \in rowWork : ~ Decided(rowStatus[u])
        /\ \A u \in V \ rowWork : Decided(rowStatus[u])
        /\ rowWork \subseteq V
    BY DEF IInv, MISInv, ColInv, RowInv, TypeOK
  <1>2. /\ \A u \in V : Near(u) \subseteq V /\ u \in Near(u) /\ \A v \in Near(u) : u \in Near(v)
        /\ OUT_SET \in Nat /\ OUT_SET > 0 /\ IN_SET = 0
    BY <1>1, ProblemFacts, StatusFacts
  <1>3. \A u \in V : rowStatus[u] \in 0 .. OUT_SET /\ rowStatus[u] \in Nat
    BY <1>1, <1>2 DEF TypeOK
  <1>4. \A u \in rowWork : rowStatus[u] # IN_SET /\ rowStatus[u] # OUT_SET
    BY <1>1 DEF Decided
  \* the three outcomes
  <1>5. ASSUME NEW u \in rowWork, NEW c \in Near(u), colStatus[c] = OUT_SET
        PROVE  NewRowStatus(u) = OUT_SET /\ \E r \in V : rowStatus[r] = IN_SET /\ WithinTwo(u, r)
    <2>1. c \in V /\ u \in Near(c) /\ ColStatus(c) = OUT_SET /\ Near(c) \subseteq V /\ u \in V
      BY <1>1, <1>2, <1>5
    <2>2. PICK r \in Near(c) : rowStatus[r] = IN_SET
      BY <1>1, <1>4, <2>1, ColStatusFacts
    <2> QED
      BY <1>5, <2>1, <2>2 DEF NewRowStatus, WithinTwo
  <1>6. ASSUME NEW u \in rowWork, NewRowStatus(u) = IN_SET
        PROVE  \A c \in Near(u) : colStatus[c] = rowStatus[u] /\ colStatus[c] # OUT_SET
    BY <1>2, <1>4, <1>6 DEF NewRowStatus
  <1>7. \A u \in rowWork : NewRowStatus(u) \in {IN_SET, OUT_SET, rowStatus[u]}
    BY DEF NewRowStatus
  <1>8. \A u \in rowWork : NewRowStatus(u) = OUT_SET => \E c \in Near(u) : colStatus[c] = OUT_SET
    BY <1>2, <1>4 DEF NewRowStatus
  <1>9. \A u \in V : rowStatus'[u] = IF u \in rowWork THEN NewRowStatus(u) ELSE rowStatus[u]
    OBVIOUS
  <1>10. rowStatus' \in [V -> 0 .. OUT_SET]
    <2>1. \A u \in V : rowStatus'[u] \in 0 .. OUT_SET
      BY <1>2, <1>3, <1>7, <1>9
    <2> QED
      BY <2>1
  <1>11. \A u \in V : u \notin rowWork \/ ~ Decided(rowStatus'[u]) => rowStatus'[u] = rowStatus[u]
    BY <1>7, <1>9 DEF Decided
  \* a member next to a column of u puts u out
  <1>12. ASSUME NEW u \in rowWork, NEW v \in V, rowStatus[v] = IN_SET, WithinTwo(u, v)
         PROVE  NewRowStatus(u) # IN_SET
    <2>1. PICK c \in V : c \in Near(u) /\ v \in Near(c)
      BY <1>12 DEF WithinTwo
    <2>2. colStatus[c] = OUT_SET
      BY <1>1, <1>12, <2>1, ColStatusFacts
    <2> QED
      BY <1>6, <2>1, <2>2
  <1>13. ASSUME NEW u \in V, NEW v \in V, rowStatus'[u] = IN_SET, rowStatus'[v] = IN_SET, WithinTwo(u, v)
         PROVE  u = v
    <2>1. WithinTwo(v, u)
      BY <1>1, <1>13, TwoHops
    <2>2. CASE u \in rowWork /\ v \in rowWork
      <3>1. PICK c \in V : c \in Near(u) /\ v \in Near(c)
        BY <1>13 DEF WithinTwo
      <3>2. c \in Near(v)
        BY <1>2, <3>1
      <3>3. rowStatus[u] = rowStatus[v]
        BY <1>6, <1>9, <1>13, <2>2, <3>1, <3>2
      <3> QED
        BY <1>1, <2>2, <3>3 DEF RowInv
    <2>3. CASE u \in rowWork /\ v \notin rowWork
      BY <1>9, <1>12, <1>13, <2>3
    <2>4. CASE u \notin rowWork /\ v \in rowWork
      BY <1>9, <1>12, <1>13, <2>1, <2>4
    <2>5. CASE u \notin rowWork /\ v \notin rowWork
      BY <1>1, <1>9, <1>13, <2>5 DEF SetInv, InSet
    <2> QED
      BY <2>2, <2>3, <2>4, <2>5
  <1>14. ASSUME NEW u \in Asked, rowStatus'[u] = OUT_SET
         PROVE  \E v \in V : rowStatus'[v] = IN_SET /\ WithinTwo(u, v)
    <2>1. \E v \in V : rowStatus[v] = IN_SET /\ WithinTwo(u, v)
      <3>1. CASE u \in rowWork
        BY <1>1, <1>5, <1>8, <1>9, <1>14, <3>1
      <3>2. CASE u \notin rowWork
        <4>1. u \in V /\ rowStatus[u] = OUT_SET
          BY <1>9, <1>14, <3>2 DEF Asked
        <4> QED
          BY <1>1, <3>2, <4>1 DEF SetInv, Dominated, InSet
      <3> QED
        BY <3>1, <3>2
    <2>2. PICK v \in V : rowStatus[v] = IN_SET /\ WithinTwo(u, v)
      BY <2>1
    <2>3. v \notin rowWork
      BY <1>4, <2>2
    <2> QED
      BY <1>9, <2>2, <2>3
  <1>15. ASSUME rowWork # {} PROVE \E u \in rowWork : Decided(rowStatus'[u])
    <2> DEFINE S == {rowStatus[u] : u \in rowWork}
    <2>1. PICK s \in S : \A t \in S : s <= t
      <3>1. S \in SUBSET Nat /\ S # {}
        BY <1>1, <1>3, <1>15
      <3> HIDE DEF S
      <3> QED
        BY <3>1, LeastOf
    <2>2. PICK u \in rowWork : rowStatus[u] = s /\ \A v \in rowWork : rowStatus[u] <= rowStatus[v]
      BY <2>1
    <2>3. CASE \E c \in Near(u) : colStatus[c] = OUT_SET
      BY <1>1, <1>5, <1>9, <2>3 DEF Decided
    <2>4. CASE \A c \in Near(u) : colStatus[c] # OUT_SET
      <3>1. ASSUME NEW c \in Near(u) PROVE colStatus[c] = rowStatus[u]
        <4>1. c \in V /\ u \in V /\ u \in Near(c) /\ Near(c) \subseteq V
          BY <1>1, <1>2
        <4>2. colStatus[c] = ColStatus(c) /\ ColStatus(c) \in 1 .. OUT_SET /\ ColStatus(c) # OUT_SET
          BY <1>1, <2>4, <4>1, ColStatusFacts
        <4>3. /\ \E r \in Near(c) : rowStatus[r] = ColStatus(c)
              /\ \A r \in Near(c) : ColStatus(c) <= rowStatus[r]
          BY <1>1, <4>1, <4>2, ColStatusFacts
        <4>4. PICK r \in Near(c) : rowStatus[r] = ColStatus(c)
          BY <4>3
        <4>5. rowStatus[r] # IN_SET /\ rowStatus[r] # OUT_SET
          BY <1>2, <4>2, <4>4
        <4>6. r \in rowWork
          BY <1>1, <4>1, <4>5 DEF Decided
        <4>7. rowStatus[u] <= ColStatus(c) /\ ColStatus(c) <= rowStatus[u]
          BY <2>2, <4>1, <4>3, <4>4, <4>6
        <4> QED
          BY <1>2, <1>3, <4>1, <4>2, <4>7
      <3>2. NewRowStatus(u) = IN_SET
        BY <2>4, <3>1 DEF NewRowStatus
      <3> QED
        BY <1>1, <1>9, <3>2 DEF Decided
    <2> QED
      BY <2>3, <2>4
  <1> QED
    BY <1>10, <1>11, <1>13, <1>14, <1>15

-----------------------------------------------------------------------------
(* the steps of the rounds leave the graph and the aggregates alone *)

LEMMA SameGraph ==
  ASSUME rows' = rows
  PROVE  /\ V' = V /\ n' = n /\ \A u : Near(u)' = Near(u)
         /\ \A u, v : WithinTwo(u, v)' <=> WithinTwo(u, v)
  BY DEF V, n, Near, WithinTwo

LEMMA RoundStep ==
  ASSUME IInv, UNCHANGED <<api, rows, labels, roots, numAggs>>,
         ph \in FastPhases \union QualityPhases, ph' \in FastPhases \union QualityPhases \union {"list"}
  PROVE  /\ V' = V /\ n' = n /\ Asked' = Asked /\ AggInv' /\ Asked \subseteq V
         /\ \A u : Near(u)' = Near(u)
         /\ \A u, v : WithinTwo(u, v)' <=> WithinTwo(u, v)
         /\ TypeOK /\ PhaseInv /\ RowInv /\ SetInv /\ ColInv
         /\ OUT_SET \in Nat /\ OUT_SET > 0 /\ IN_SET = 0
         /\ \A u \in V : Near(u) \subseteq V /\ u \in Near(u) /\ \A v \in Near(u) : u \in Near(v)
         /\ rowStatus' \in [V -> 0 .. OUT_SET] /\ colStatus' \in [V -> 0 .. OUT_SET]
            /\ rowWork' \subseteq V /\ colWork' \subseteq V /\ colUpdate' \subseteq V => TypeOK'
         /\ (ph' \in QualityPhases <=> ph \in QualityPhases) /\ ph' # "list" => PhaseInv'
  <1>1. TypeOK /\ PhaseInv /\ MISInv /\ AggInv
    BY DEF IInv
  <1>2. ph \notin {"phase3", "done"} /\ ph' \notin {"phase3", "done"}
    BY DEF FastPhases, QualityPhases
  <1>3. V' = V /\ n' = n /\ (\A u : Near(u)' = Near(u)) /\ \A u, v : WithinTwo(u, v)' <=> WithinTwo(u, v)
    BY SameGraph
  <1>4. Asked' = Asked /\ Asked \subseteq V
    BY <1>3 DEF Asked
  <1>5. AggInv'
    BY <1>1, <1>2, <1>3 DEF AggInv, RootsInv
  <1>6. RowInv /\ SetInv /\ ColInv
    BY <1>1, <1>2 DEF MISInv
  <1>7. ASSUME rowStatus' \in [V -> 0 .. OUT_SET], colStatus' \in [V -> 0 .. OUT_SET],
               rowWork' \subseteq V, colWork' \subseteq V, colUpdate' \subseteq V
        PROVE  TypeOK'
    <2>1. ph' \in {"construct", "initCol", "iterate", "refreshMarked", "updateWork", "refreshRow",
                   "refreshCol", "decide", "compactRow", "compactCol", "list", "phase1", "phase2",
                   "phase3", "done"}
      BY DEF FastPhases, QualityPhases
    <2>2. OUT_SET' = OUT_SET
      BY DEF OUT_SET
    <2> QED
      BY <1>1, <1>3, <1>7, <2>1, <2>2 DEF TypeOK
  <1>8. ASSUME ph' \in QualityPhases <=> ph \in QualityPhases, ph' # "list" PROVE PhaseInv'
    BY <1>1, <1>8 DEF PhaseInv, FastPhases, QualityPhases, Listed
  <1>9. /\ OUT_SET \in Nat /\ OUT_SET > 0 /\ IN_SET = 0
        /\ \A u \in V : Near(u) \subseteq V /\ u \in Near(u) /\ \A v \in Near(u) : u \in Near(v)
    BY <1>1, ProblemFacts, StatusFacts
  <1> QED
    BY <1>1, <1>3, <1>4, <1>5, <1>6, <1>7, <1>8, <1>9

-----------------------------------------------------------------------------
(* QUALITY *)

\* The degrees of a finite graph have a greatest, so a score is a number.
LEMMA GreatestDegree ==
  ASSUME TypeOK
  PROVE  \E b \in Nat : \A u \in V : Degree(u) <= b
  <1>1. n \in Nat /\ V = 0 .. n - 1 /\ \A u \in V : Degree(u) \in Nat
    <2>1. \A u \in V : rows[u] \in Seq(Nat)
      BY ProblemFacts
    <2> QED
      BY <2>1, ProblemFacts DEF Degree
  <1> DEFINE Bounded(k) == \E b \in Nat : \A u \in 0 .. k - 1 : Degree(u) <= b
             Unbounded == {k \in 0 .. n : ~ Bounded(k)}
  <1>2. Bounded(0)
    OBVIOUS
  <1>3. ASSUME NEW k \in 0 .. n - 1, Bounded(k) PROVE Bounded(k + 1)
    <2>1. PICK b \in Nat : \A u \in 0 .. k - 1 : Degree(u) <= b
      BY <1>3
    <2>2. PICK d \in Nat : d = Degree(k)
      BY <1>1
    <2>3. \A u \in 0 .. k + 1 - 1 : Degree(u) <= b + d
      <3>1. \A u \in 0 .. k + 1 - 1 : u = k \/ u \in 0 .. k - 1
        BY <1>1
      <3>2. \A u \in 0 .. k - 1 : Degree(u) \in Nat
        BY <1>1
      <3> QED
        BY <2>1, <2>2, <3>1, <3>2
    <2>4. b + d \in Nat
      OBVIOUS
    <2> QED
      BY <2>3, <2>4
  <1> HIDE DEF Bounded
  <1>4. Unbounded = {}
    <2> SUFFICES ASSUME Unbounded # {} PROVE FALSE
      OBVIOUS
    <2>1. Unbounded \in SUBSET Nat
      BY <1>1
    <2>2. PICK k \in Unbounded : \A j \in Unbounded : k <= j
      <3> HIDE DEF Unbounded
      <3> QED
        BY <2>1, LeastOf
    <2>3. k # 0
      BY <1>2
    <2>4. k - 1 \in 0 .. n - 1 /\ k - 1 \in 0 .. n /\ k - 1 + 1 = k /\ ~ (k <= k - 1)
      BY <1>1, <2>3
    <2>5. Bounded(k - 1)
      BY <2>2, <2>4
    <2>6. Bounded(k)
      BY <1>3, <2>4, <2>5
    <2> QED
      BY <2>6
  <1>5. Bounded(n)
    BY <1>1, <1>4
  <1> QED
    BY <1>1, <1>5 DEF Bounded

LEMMA ScoresAreNumbers ==
  ASSUME TypeOK, NEW u \in V
  PROVE  Scores(u) \subseteq Int
  <1> DEFINE S == {Degree(v) : v \in V}
  <1>1. S \in SUBSET Nat /\ S # {} /\ Degree(u) \in Nat
    <2>1. \A v \in V : Degree(v) \in Nat
      <3>1. \A v \in V : rows[v] \in Seq(Nat)
        BY ProblemFacts
      <3> QED
        BY <3>1 DEF Degree
    <2>2. V # {}
      BY ProblemFacts
    <2> QED
      BY <2>1, <2>2
  <1>2. MinDegree \in Nat /\ \A v \in V : MinDegree <= Degree(v)
    <2>1. MinStatus(S) \in S /\ \A t \in S : MinStatus(S) <= t
      <3> HIDE DEF S
      <3> QED
        BY <1>1, LeastStatus
    <2> QED
      BY <1>1, <2>1 DEF MinDegree
  <1>3. MaxDegree \in Nat /\ \A v \in V : Degree(v) <= MaxDegree
    <2>1. PICK b \in Nat : \A v \in V : Degree(v) <= b
      BY GreatestDegree
    <2>2. S \in SUBSET (0 .. b)
      BY <1>1, <2>1
    <2>3. PICK d \in S : \A c \in S : c <= d
      <3> HIDE DEF S
      <3> QED
        BY <1>1, <2>2, GreatestOf
    <2>4. \A v \in V : Degree(v) <= d
      BY <2>3
    <2>5. MaxDegree \in S /\ \A v \in V : Degree(v) <= MaxDegree
      BY <2>3, <2>4 DEF MaxDegree
    <2> QED
      BY <1>1, <2>5
  <1>4. MaxDegRange \in Int
    BY WidthFacts DEF MaxDegRange
  <1>5. CASE MinDegree = MaxDegree
    BY <1>5, HashAssumption DEF Scores
  <1>6. CASE MinDegree # MaxDegree
    <2>1. PICK x \in Int, y \in Int : x = (Degree(u) - MinDegree) * MaxDegRange /\ y = MaxDegree - MinDegree /\ y > 0
      <3>1. MinDegree < MaxDegree
        <4>1. MinDegree <= Degree(u) /\ Degree(u) <= MaxDegree
          BY <1>2, <1>3
        <4> QED
          BY <1>1, <1>2, <1>3, <1>6, <4>1
      <3>2. MaxDegree - MinDegree \in Int /\ MaxDegree - MinDegree > 0
        BY <1>2, <1>3, <3>1
      <3>3. (Degree(u) - MinDegree) * MaxDegRange \in Int
        <4>1. PICK d \in Int : d = Degree(u) - MinDegree
          BY <1>1, <1>2
        <4> QED
          BY <1>4, <4>1
      <3> QED
        BY <3>2, <3>3
    <2>2. x \div y \in Int
      BY <2>1
    <2> QED
      BY <1>6, <2>1, <2>2 DEF Scores
  <1> QED
    BY <1>5, <1>6

LEMMA InitOK == Init => IInv
  <1> SUFFICES ASSUME Init PROVE IInv
    OBVIOUS
  <1> USE DEF Init
  <1>1. TypeOK
    <2>1. PICK p \in Problems : api = p.api /\ rows = p.rows
      OBVIOUS
    <2>2. n \in Nat \ {0} /\ n + 1 < 2 ^ StatusBits /\ api \in {"FAST", "QUALITY", "COARSEN", "AGGREGATE"}
      BY <2>1, ProblemAssumption DEF V, n
    <2>3. OUT_SET \in 0 .. OUT_SET
      <3>1. PICK m \in Nat : m = 2 ^ StatusBits /\ m > 0
        BY WidthAssumption
      <3> QED
        BY <3>1 DEF OUT_SET
    <2>4. ph \in {"construct", "refreshRow"} /\ 0 \in 0 .. n /\ -1 \in {-1} \union 0 .. n - 1
      BY <2>2
    <2>5. rowStatus \in [V -> 0 .. OUT_SET] /\ colStatus \in [V -> 0 .. OUT_SET]
      BY <2>3
    <2>6. labels \in [V -> {-1} \union 0 .. n - 1]
      BY <2>4
    <2> QED
      BY <2>1, <2>4, <2>5, <2>6 DEF TypeOK
  <1>2. OUT_SET > 0 /\ IN_SET = 0 /\ OUT_SET \in Nat
    BY <1>1, StatusFacts
  <1>3. PhaseInv
    BY DEF PhaseInv, QualityPhases, FastPhases, Listed
  <1>4. Asked = V /\ InSet = {}
    BY <1>2 DEF Asked, InSet
  <1>5. RowInv
    BY <1>2, <1>4 DEF RowInv, Decided
  <1>6. SetInv
    BY <1>4 DEF SetInv
  <1>7. ColInv
    BY DEF ColInv
  <1>8. AggInv
    BY FS_EmptySet DEF AggInv, RootsInv
  <1> QED
    BY <1>1, <1>3, <1>5, <1>6, <1>7, <1>8 DEF IInv, MISInv

\* No two vertices ever have the same score, whatever the hash.
LEMMA ConstructStep ==
  ASSUME IInv, Construct
  PROVE  IInv'
  <1> USE DEF Construct, problem, aggregates
  <1>1. UNCHANGED <<api, rows, labels, roots, numAggs, colStatus, rowWork, colWork, colUpdate>>
        /\ ph = "construct" /\ ph' = "initCol"
    OBVIOUS
  <1>2. /\ V' = V /\ n' = n /\ Asked' = Asked /\ AggInv' /\ Asked \subseteq V
        /\ TypeOK /\ PhaseInv /\ RowInv /\ SetInv /\ ColInv
        /\ OUT_SET \in Nat /\ OUT_SET > 0 /\ IN_SET = 0
        /\ (rowStatus' \in [V -> 0 .. OUT_SET] => TypeOK') /\ PhaseInv'
    BY <1>1, RoundStep DEF FastPhases, QualityPhases, TypeOK
  <1>3. PICK score : /\ \A u \in V : score[u] \in Scores(u)
                     /\ rowStatus' = [u \in V |-> Status(u, score[u])]
    BY DEF InitRowStatus
  <1>4. \A u \in V : score[u] \in Int
    BY <1>2, <1>3, ScoresAreNumbers
  <1>5. \A u \in V : rowStatus'[u] = Status(u, score[u]) /\ rowStatus'[u] \in 1 .. OUT_SET - 1
    BY <1>2, <1>3, <1>4, StatusFacts
  <1>6. \A u, v \in V : rowStatus'[u] = rowStatus'[v] => u = v
    <2> SUFFICES ASSUME NEW u \in V, NEW v \in V, rowStatus'[u] = rowStatus'[v] PROVE u = v
      OBVIOUS
    <2>1. Status(u, score[u]) = Status(v, score[v])
      BY <1>5
    <2>2. PICK x \in Int, y \in Int : x = score[u] /\ y = score[v]
      BY <1>4
    <2>3. Status(u, x) = Status(v, y)
      BY <2>1, <2>2
    <2> QED
      BY <1>2, <2>3, StatusFacts
  <1>7. \A u \in V : rowStatus'[u] \in 0 .. OUT_SET /\ rowStatus'[u] # IN_SET /\ rowStatus'[u] # OUT_SET
    BY <1>2, <1>5
  <1>8. TypeOK'
    BY <1>2, <1>3, <1>7
  <1>9. OUT_SET' = OUT_SET /\ IN_SET' = IN_SET
    BY DEF OUT_SET, IN_SET
  <1>10. rowWork = V /\ Asked = V
    BY <1>1, <1>2 DEF RowInv
  <1>11. RowInv'
    BY <1>1, <1>2, <1>6, <1>7, <1>9, <1>10 DEF RowInv, Decided
  <1>12. SetInv'
    BY <1>2, <1>7, <1>9 DEF SetInv, InSet
  <1>13. ColInv'
    BY <1>1 DEF ColInv, FastPhases
  <1> QED
    BY <1>2, <1>8, <1>11, <1>12, <1>13 DEF IInv, MISInv

LEMMA InitColStatusStep ==
  ASSUME IInv, InitColStatus
  PROVE  IInv'
  <1> USE DEF InitColStatus, problem, aggregates
  <1>1. UNCHANGED <<api, rows, labels, roots, numAggs, rowStatus, rowWork, colWork, colUpdate>>
        /\ ph = "initCol" /\ ph' = "iterate"
    OBVIOUS
  <1>2. /\ V' = V /\ n' = n /\ Asked' = Asked /\ AggInv' /\ Asked \subseteq V
        /\ \A u : Near(u)' = Near(u)
        /\ \A u, v : WithinTwo(u, v)' <=> WithinTwo(u, v)
        /\ TypeOK /\ PhaseInv /\ RowInv /\ SetInv /\ ColInv
        /\ OUT_SET \in Nat /\ OUT_SET > 0 /\ IN_SET = 0
        /\ \A u \in V : Near(u) \subseteq V
        /\ (colStatus' \in [V -> 0 .. OUT_SET] => TypeOK') /\ PhaseInv'
    BY <1>1, RoundStep DEF FastPhases, QualityPhases, TypeOK
  <1>3. \A u \in V : rowStatus[u] # IN_SET
    BY <1>1, <1>2 DEF RowInv, Decided
  <1>4. \A c \in V : colStatus'[c] = ColStatus(c) /\ ColStatus(c) \in 0 .. OUT_SET
    <2> SUFFICES ASSUME NEW c \in V PROVE colStatus'[c] = ColStatus(c) /\ ColStatus(c) \in 0 .. OUT_SET
      OBVIOUS
    <2>1. \A r \in Near(c) : rowStatus[r] # IN_SET
      BY <1>2, <1>3
    <2>2. ColStatus(c) = MinStatus({rowStatus[r] : r \in Near(c)}) /\ ColStatus(c) \in 1 .. OUT_SET
      BY <1>2, <2>1, ColStatusFacts
    <2> QED
      BY <1>2, <2>2
  <1>5. TypeOK'
    <2>1. colStatus' = [c \in V |-> MinStatus({rowStatus[r] : r \in Near(c)})]
      OBVIOUS
    <2> QED
      BY <1>2, <1>4, <2>1
  <1>6. RowInv' /\ SetInv'
    BY <1>1, <1>2 DEF RowInv, SetInv, Decided, Dominated, InSet, OUT_SET, IN_SET
  <1>7. \A c \in V : ColStatus(c)' = ColStatus(c)
    BY <1>1, <1>2 DEF ColStatus, OUT_SET, IN_SET
  <1>8. ColInv'
    BY <1>1, <1>2, <1>4, <1>7 DEF ColInv, FastPhases
  <1> QED
    BY <1>2, <1>5, <1>6, <1>8 DEF IInv, MISInv

\* what the deciding kernels of both algorithms leave behind
LEMMA AfterDecide ==
  ASSUME IInv, ph \in {"decide", "iterate"},
         UNCHANGED <<api, rows, labels, roots, numAggs, rowWork>>,
         rowStatus' = [u \in V |-> IF u \in rowWork THEN NewRowStatus(u) ELSE rowStatus[u]],
         ph' \in {"compactRow", "refreshMarked"}
  PROVE  RowInv' /\ SetInv'
  <1>1. /\ rowStatus' \in [V -> 0 .. OUT_SET]
        /\ \A u \in V : u \notin rowWork \/ ~ Decided(rowStatus'[u]) => rowStatus'[u] = rowStatus[u]
        /\ \A u, v \in V : rowStatus'[u] = IN_SET /\ rowStatus'[v] = IN_SET /\ WithinTwo(u, v) => u = v
        /\ \A u \in Asked : rowStatus'[u] = OUT_SET => \E v \in V : rowStatus'[v] = IN_SET /\ WithinTwo(u, v)
        /\ rowWork = {} \/ \E u \in rowWork : Decided(rowStatus'[u])
    BY DecideRows
  <1>2. /\ V' = V /\ Asked' = Asked /\ RowInv /\ Asked \subseteq V
        /\ \A u, v : WithinTwo(u, v)' <=> WithinTwo(u, v)
    <2>1. MISInv
      BY DEF IInv
    <2> QED
      BY <2>1, SameGraph DEF MISInv, Asked
  <1>3. OUT_SET' = OUT_SET /\ IN_SET' = IN_SET
    BY DEF OUT_SET, IN_SET
  <1>4. \A u \in V : u \notin rowWork => rowStatus'[u] = rowStatus[u]
    BY <1>1
  <1>5. \A u, v \in rowWork : ~ Decided(rowStatus'[u]) /\ rowStatus'[u] = rowStatus'[v] => u = v
    BY <1>1, <1>2 DEF RowInv
  <1>6. RowInv'
    <2>1. rowWork' \subseteq Asked' /\ (\A u \in V' \ rowWork' : Decided(rowStatus[u])')
      BY <1>2, <1>3, <1>4 DEF RowInv, Decided
    <2>2. \A u \in V' \ Asked' : (rowStatus[u] = OUT_SET)'
      BY <1>2, <1>3, <1>4 DEF RowInv
    <2>3. rowWork' = {} \/ \E u \in rowWork' : Decided(rowStatus[u])'
      BY <1>1, <1>3 DEF Decided
    <2>4. \A u, v \in rowWork' : ~ Decided(rowStatus[u])' /\ (rowStatus[u] = rowStatus[v])' => u = v
      BY <1>3, <1>5 DEF Decided
    <2> QED
      BY <2>1, <2>2, <2>3, <2>4 DEF RowInv
  <1>7. SetInv'
    <2>1. \A u \in V : u \in InSet' <=> rowStatus'[u] = IN_SET
      BY <1>2, <1>3 DEF InSet
    <2>2. InSet' \subseteq V
      BY <1>2 DEF InSet
    <2>3. \A u, v \in InSet' : WithinTwo(u, v)' => u = v
      BY <1>1, <1>2, <2>1, <2>2
    <2>4. \A u \in Asked' : (rowStatus[u] = OUT_SET)' => Dominated(u)'
      BY <1>1, <1>2, <1>3, <2>1 DEF Dominated
    <2> QED
      BY <2>3, <2>4 DEF SetInv
  <1> QED
    BY <1>6, <1>7

\* A column that no deciding row defined stays what it was.
LEMMA IterateStep ==
  ASSUME IInv, Iterate
  PROVE  IInv'
  <1> USE DEF Iterate, problem, aggregates
  <1>1. UNCHANGED <<api, rows, labels, roots, numAggs, colStatus, rowWork, colWork>>
        /\ ph = "iterate" /\ ph' = "refreshMarked"
    OBVIOUS
  <1>2. rowStatus' = [u \in V |-> IF u \in rowWork THEN NewRowStatus(u) ELSE rowStatus[u]]
    OBVIOUS
  <1>3. /\ rowStatus' \in [V -> 0 .. OUT_SET]
        /\ \A u \in V : u \notin rowWork \/ ~ Decided(rowStatus'[u]) => rowStatus'[u] = rowStatus[u]
    BY <1>1, <1>2, DecideRows
  <1>4. RowInv' /\ SetInv'
    BY <1>1, <1>2, AfterDecide
  <1>5. colUpdate' \subseteq V
    OBVIOUS
  <1>6. /\ V' = V /\ AggInv' /\ \A u : Near(u)' = Near(u)
        /\ TypeOK /\ RowInv /\ ColInv
        /\ OUT_SET \in Nat /\ OUT_SET > 0 /\ IN_SET = 0
        /\ \A u \in V : Near(u) \subseteq V /\ u \in Near(u) /\ \A v \in Near(u) : u \in Near(v)
        /\ TypeOK' /\ PhaseInv'
    BY <1>1, <1>3, <1>5, RoundStep DEF FastPhases, QualityPhases, TypeOK
  <1>7. /\ \A u \in rowWork : ~ Decided(rowStatus[u])
        /\ \A u \in V \ rowWork : Decided(rowStatus[u])
        /\ \A c \in V : colStatus[c] = ColStatus(c)
        /\ rowWork \subseteq V
    BY <1>1, <1>6 DEF RowInv, ColInv, TypeOK
  <1>8. PICK st \in [V -> 0 .. OUT_SET] : st = rowStatus'
    BY <1>3
  <1>9. \A u \in V : st[u] = IF u \in rowWork THEN NewRowStatus(u) ELSE rowStatus[u]
    BY <1>2, <1>8
  <1>10. \A c \in V : ColStatus(c)' = ColOf(st, c)
    BY <1>1, <1>6, <1>8 DEF ColStatus, ColOf, OUT_SET, IN_SET
  <1>11. ASSUME NEW c \in V, c \notin colUpdate' PROVE ColOf(st, c) = ColStatus(c)
    <2>1. Near(c) \subseteq V /\ c \in Near(c)
      BY <1>6
    <2>2. CASE ColStatus(c) = OUT_SET
      <3>1. CASE \E r \in Near(c) : rowStatus[r] = IN_SET
        <4>1. PICK r \in Near(c) : rowStatus[r] = IN_SET
          BY <3>1
        <4>2. st[r] = IN_SET
          BY <1>7, <1>9, <2>1, <4>1 DEF Decided
        <4> QED
          BY <1>6, <2>2, <4>2, ColOfFacts
      <3>2. CASE \A r \in Near(c) : rowStatus[r] = OUT_SET
        <4>1. \A r \in Near(c) : st[r] = OUT_SET
          BY <1>7, <1>9, <2>1, <3>2 DEF Decided
        <4> QED
          BY <1>6, <2>2, <4>1, ColOfFacts
      <3> QED
        BY <1>6, <2>2, <3>1, <3>2, ColStatusFacts
    <2>3. CASE ColStatus(c) # OUT_SET
      <3>1. /\ ColStatus(c) \in 1 .. OUT_SET
            /\ \A r \in Near(c) : rowStatus[r] # IN_SET
            /\ \E r \in Near(c) : rowStatus[r] = ColStatus(c)
            /\ \A r \in Near(c) : ColStatus(c) <= rowStatus[r]
        <4>1. ColStatus(c) \in 1 .. OUT_SET /\ \A r \in Near(c) : rowStatus[r] # IN_SET
          BY <1>6, <2>3, ColStatusFacts
        <4> QED
          BY <1>6, <4>1, ColStatusFacts
      <3>2. PICK r \in Near(c) : rowStatus[r] = ColStatus(c)
        BY <3>1
      <3>3. r \in rowWork /\ r \in V
        BY <1>6, <1>7, <2>1, <2>3, <3>1, <3>2 DEF Decided
      \* a deciding row with the status of the column would have marked it
      <3>4. ASSUME NEW t \in Near(c), t \in rowWork, rowStatus[t] = ColStatus(c)
            PROVE  ~ Decided(NewRowStatus(t))
        <4>1. c \in Near(t) /\ colStatus[c] = rowStatus[t]
          BY <1>6, <1>7, <3>4
        <4> QED
          BY <1>11, <3>4, <4>1
      <3>5. ASSUME NEW t \in Near(c) PROVE st[t] # IN_SET
        <4> SUFFICES ASSUME st[t] = IN_SET PROVE FALSE
          OBVIOUS
        <4>1. t \in V /\ t \in rowWork /\ NewRowStatus(t) = IN_SET
          BY <1>9, <2>1, <3>1
        <4>2. c \in Near(t)
          BY <1>6
        <4>3. rowStatus[t] # IN_SET /\ rowStatus[t] # OUT_SET
          BY <1>7, <4>1 DEF Decided
        <4>4. colStatus[c] = rowStatus[t]
          BY <1>6, <4>1, <4>2, <4>3 DEF NewRowStatus
        <4> QED
          BY <1>7, <3>4, <4>1, <4>4 DEF Decided
      <3>6. st[r] = ColStatus(c)
        <4>1. ~ Decided(st[r])
          BY <1>9, <3>2, <3>3, <3>4
        <4> QED
          BY <1>3, <1>8, <3>2, <3>3, <4>1
      <3>7. \A t \in Near(c) : ColStatus(c) <= st[t]
        <4> SUFFICES ASSUME NEW t \in Near(c) PROVE ColStatus(c) <= st[t]
          OBVIOUS
        <4>1. st[t] = rowStatus[t] \/ st[t] = OUT_SET
          BY <1>3, <1>8, <2>1, <3>5 DEF Decided
        <4> QED
          BY <1>6, <3>1, <4>1
      <3>8. /\ \E t \in Near(c) : st[t] = ColOf(st, c)
            /\ \A t \in Near(c) : ColOf(st, c) <= st[t]
            /\ ColOf(st, c) \in 1 .. OUT_SET
        BY <1>6, <3>5, ColOfFacts
      <3> QED
        BY <1>6, <3>1, <3>2, <3>6, <3>7, <3>8
    <2> QED
      BY <2>2, <2>3
  <1>12. ColInv'
    BY <1>1, <1>6, <1>7, <1>10, <1>11 DEF ColInv, FastPhases
  <1> QED
    BY <1>4, <1>6, <1>12 DEF IInv, MISInv

LEMMA RefreshMarkedStep ==
  ASSUME IInv, RefreshMarked
  PROVE  IInv'
  <1> USE DEF RefreshMarked, problem, aggregates
  <1>1. UNCHANGED <<api, rows, labels, roots, numAggs, rowStatus, rowWork, colWork>>
        /\ ph = "refreshMarked" /\ ph' = "updateWork" /\ colUpdate' = {}
    OBVIOUS
  <1>2. /\ V' = V /\ Asked' = Asked /\ AggInv'
        /\ \A u : Near(u)' = Near(u)
        /\ \A u, v : WithinTwo(u, v)' <=> WithinTwo(u, v)
        /\ TypeOK /\ PhaseInv /\ RowInv /\ SetInv /\ ColInv
        /\ OUT_SET \in Nat
        /\ (colStatus' \in [V -> 0 .. OUT_SET] => TypeOK') /\ PhaseInv'
    BY <1>1, RoundStep DEF FastPhases, QualityPhases, TypeOK
  <1>3. colStatus' = [c \in V |-> IF c \in colUpdate THEN ColStatus(c) ELSE colStatus[c]]
    OBVIOUS
  <1>4. \A c \in V : colStatus'[c] = ColStatus(c) /\ ColStatus(c) \in 0 .. OUT_SET
    <2>1. \A c \in V : ColStatus(c) \in 0 .. OUT_SET
      <3>1. \A c \in V : ColStatus(c) \in 1 .. OUT_SET
        BY <1>2, ColStatusFacts
      <3> QED
        BY <1>2, <3>1
    <2>2. \A c \in V \ colUpdate : colStatus[c] = ColStatus(c)
      BY <1>1, <1>2 DEF ColInv
    <2> QED
      BY <1>3, <2>1, <2>2
  <1>5. TypeOK'
    BY <1>2, <1>3, <1>4
  <1>6. RowInv' /\ SetInv'
    BY <1>1, <1>2 DEF RowInv, SetInv, Decided, Dominated, InSet, OUT_SET, IN_SET
  <1>7. \A c \in V : ColStatus(c)' = ColStatus(c)
    BY <1>1, <1>2 DEF ColStatus, OUT_SET, IN_SET
  <1>8. ColInv'
    BY <1>1, <1>2, <1>4, <1>7 DEF ColInv, FastPhases
  <1> QED
    BY <1>2, <1>5, <1>6, <1>8 DEF IInv, MISInv

LEMMA UpdateWorklistStep ==
  ASSUME IInv, UpdateWorklist
  PROVE  IInv'
  <1> USE DEF UpdateWorklist, problem, aggregates
  <1>1. UNCHANGED <<api, rows, labels, roots, numAggs, rowStatus, colStatus, colWork, colUpdate>>
        /\ ph = "updateWork" /\ ph' \in {"list", "iterate"}
        /\ (ph' = "list" => rowWork' = {}) /\ rowWork' = {i \in rowWork : ~ Decided(rowStatus[i])}
    OBVIOUS
  <1>2. /\ V' = V /\ Asked' = Asked /\ AggInv'
        /\ \A u : Near(u)' = Near(u)
        /\ \A u, v : WithinTwo(u, v)' <=> WithinTwo(u, v)
        /\ TypeOK /\ PhaseInv /\ RowInv /\ SetInv /\ ColInv
        /\ TypeOK' /\ (ph' # "list" => PhaseInv')
    BY <1>1, RoundStep DEF FastPhases, QualityPhases, TypeOK
  <1>3. PhaseInv'
    <2>1. CASE ph' = "list"
      BY <1>1, <1>2, <2>1 DEF PhaseInv, FastPhases, QualityPhases, Listed
    <2> QED
      BY <1>2, <2>1
  <1>4. RowInv'
    BY <1>1, <1>2 DEF RowInv, Decided, OUT_SET, IN_SET
  <1>5. SetInv'
    BY <1>1, <1>2 DEF SetInv, Dominated, InSet, OUT_SET, IN_SET
  <1>6. \A c \in V : ColStatus(c)' = ColStatus(c)
    BY <1>1, <1>2 DEF ColStatus, OUT_SET, IN_SET
  <1>7. ColInv'
    BY <1>1, <1>2, <1>6 DEF ColInv, FastPhases
  <1> QED
    BY <1>2, <1>3, <1>4, <1>5, <1>7 DEF IInv, MISInv

-----------------------------------------------------------------------------
(* FAST *)

\* Closed columns stay closed as long as the members and the rows that are out do.
LEMMA StayClosed ==
  ASSUME rows' = rows, rowWork' \subseteq rowWork,
         \A u \in V : u \notin rowWork \/ rowStatus[u] = IN_SET => rowStatus'[u] = rowStatus[u],
         \A u \in V : Near(u) \subseteq V
  PROVE  \A c \in V : Closed(c) => Closed(c)'
  <1>1. \A c \in V : Near(c)' = Near(c)
    BY SameGraph
  <1> QED
    BY <1>1 DEF Closed, OUT_SET, IN_SET

LEMMA RefreshRowStatusStep ==
  ASSUME IInv, RefreshRowStatus
  PROVE  IInv'
  <1> USE DEF RefreshRowStatus, problem, aggregates
  <1>1. UNCHANGED <<api, rows, labels, roots, numAggs, colStatus, rowWork, colWork, colUpdate>>
        /\ ph = "refreshRow" /\ ph' = "refreshCol"
    OBVIOUS
  <1>2. /\ V' = V /\ Asked' = Asked /\ AggInv' /\ Asked \subseteq V
        /\ \A u : Near(u)' = Near(u)
        /\ \A u, v : WithinTwo(u, v)' <=> WithinTwo(u, v)
        /\ TypeOK /\ PhaseInv /\ RowInv /\ SetInv /\ ColInv
        /\ OUT_SET \in Nat /\ OUT_SET > 0 /\ IN_SET = 0
        /\ \A u \in V : Near(u) \subseteq V
        /\ (rowStatus' \in [V -> 0 .. OUT_SET] => TypeOK') /\ PhaseInv'
    BY <1>1, RoundStep DEF FastPhases, QualityPhases, TypeOK
  <1>3. PICK priority \in [rowWork -> Hashes] :
          rowStatus' = [u \in V |-> IF u \notin rowWork THEN rowStatus[u]
                                    ELSE IF Status(u, priority[u]) = OUT_SET THEN Status(u, priority[u]) - 1
                                    ELSE Status(u, priority[u])]
    OBVIOUS
  <1>4. rowWork \subseteq V /\ \A u \in rowWork : priority[u] \in Int
    <2>1. rowWork \subseteq V
      BY <1>2 DEF TypeOK
    <2>2. \A u \in rowWork : priority[u] \in Nat
      BY <1>3, HashAssumption
    <2> QED
      BY <2>1, <2>2
  <1>5. \A u \in rowWork : rowStatus'[u] = Status(u, priority[u]) /\ rowStatus'[u] \in 1 .. OUT_SET - 1
    <2>1. \A u \in rowWork : Status(u, priority[u]) \in 1 .. OUT_SET - 1
      BY <1>2, <1>4, StatusFacts
    <2>2. \A u \in rowWork : Status(u, priority[u]) # OUT_SET
      BY <1>2, <2>1
    <2> QED
      BY <1>3, <1>4, <2>1, <2>2
  <1>6. \A u \in V \ rowWork : rowStatus'[u] = rowStatus[u]
    BY <1>3
  <1>7. \A u, v \in rowWork : rowStatus'[u] = rowStatus'[v] => u = v
    <2> SUFFICES ASSUME NEW u \in rowWork, NEW v \in rowWork, rowStatus'[u] = rowStatus'[v] PROVE u = v
      OBVIOUS
    <2>1. PICK x \in Int, y \in Int : x = priority[u] /\ y = priority[v]
      BY <1>4
    <2>2. Status(u, x) = Status(v, y)
      BY <1>5, <2>1
    <2> QED
      BY <1>2, <1>4, <2>2, StatusFacts
  <1>8. \A u \in rowWork : rowStatus'[u] # IN_SET /\ rowStatus'[u] # OUT_SET
    BY <1>2, <1>5
  <1>9. TypeOK'
    <2>1. \A u \in V : rowStatus[u] \in 0 .. OUT_SET
      BY <1>2 DEF TypeOK
    <2>2. \A u \in V : rowStatus'[u] \in 0 .. OUT_SET
      BY <1>2, <1>5, <1>6, <2>1
    <2> QED
      BY <1>2, <1>3, <2>2
  <1>10. OUT_SET' = OUT_SET /\ IN_SET' = IN_SET
    BY DEF OUT_SET, IN_SET
  <1>11. RowInv'
    <2>1. \A u \in V' \ rowWork' : Decided(rowStatus[u])'
      BY <1>1, <1>2, <1>6, <1>10 DEF RowInv, Decided
    <2>2. \A u \in V' \ Asked' : (rowStatus[u] = OUT_SET)'
      BY <1>1, <1>2, <1>6, <1>10 DEF RowInv
    <2>3. \A u \in rowWork' : ~ Decided(rowStatus[u])'
      BY <1>1, <1>8, <1>10 DEF Decided
    <2> QED
      BY <1>1, <1>2, <1>7, <2>1, <2>2, <2>3 DEF RowInv
  <1>12. \A u \in rowWork : rowStatus[u] # IN_SET
    BY <1>1, <1>2 DEF RowInv
  <1>13. InSet' = InSet
    BY <1>2, <1>4, <1>6, <1>8, <1>10, <1>12 DEF InSet
  <1>14. SetInv'
    <2>1. \A u \in Asked' : (rowStatus[u] = OUT_SET)' => Dominated(u)'
      BY <1>2, <1>6, <1>8, <1>10, <1>13 DEF SetInv, Dominated
    <2> QED
      BY <1>2, <1>13, <2>1 DEF SetInv
  <1>15. ColInv'
    <2>1. \A c \in V : Closed(c) => Closed(c)'
      BY <1>1, <1>2, <1>6, <1>12, StayClosed
    <2> QED
      BY <1>1, <1>2, <1>10, <2>1 DEF ColInv, FastPhases
  <1> QED
    BY <1>2, <1>9, <1>11, <1>14, <1>15 DEF IInv, MISInv

\* The columns off the worklist are out, and would be if they were recomputed.
LEMMA RefreshColStatusStep ==
  ASSUME IInv, RefreshColStatus
  PROVE  IInv'
  <1> USE DEF RefreshColStatus, problem, aggregates
  <1>1. UNCHANGED <<api, rows, labels, roots, numAggs, rowStatus, rowWork, colWork, colUpdate>>
        /\ ph = "refreshCol" /\ ph' = "decide"
    OBVIOUS
  <1>2. /\ V' = V /\ Asked' = Asked /\ AggInv'
        /\ \A u : Near(u)' = Near(u)
        /\ \A u, v : WithinTwo(u, v)' <=> WithinTwo(u, v)
        /\ TypeOK /\ PhaseInv /\ RowInv /\ SetInv /\ ColInv
        /\ (colStatus' \in [V -> 0 .. OUT_SET] => TypeOK') /\ PhaseInv'
        /\ \A u \in V : Near(u) \subseteq V
    BY <1>1, RoundStep DEF FastPhases, QualityPhases, TypeOK
  <1>3. colStatus' = [c \in V |-> IF c \in colWork THEN ColStatus(c) ELSE colStatus[c]]
    OBVIOUS
  <1>4. \A c \in V : ColStatus(c) \in 1 .. OUT_SET /\ (Closed(c) => ColStatus(c) = OUT_SET)
    BY <1>2, ColStatusFacts DEF Closed
  <1>5. \A c \in V \ colWork : colStatus[c] = OUT_SET /\ Closed(c)
    BY <1>1, <1>2 DEF ColInv, FastPhases
  <1>6. \A c \in V : colStatus'[c] = ColStatus(c)
    BY <1>3, <1>4, <1>5
  <1>7. TypeOK'
    <2>1. OUT_SET \in Nat
      BY <1>2, StatusFacts
    <2>2. \A c \in V : colStatus'[c] \in 0 .. OUT_SET
      BY <1>4, <1>6, <2>1
    <2> QED
      BY <1>2, <1>3, <2>2
  <1>8. RowInv' /\ SetInv'
    BY <1>1, <1>2 DEF RowInv, SetInv, Decided, Dominated, InSet, OUT_SET, IN_SET
  <1>9. ColInv'
    <2>1. \A c \in V : ColStatus(c)' = ColStatus(c)
      BY <1>1, <1>2 DEF ColStatus, OUT_SET, IN_SET
    <2>2. \A c \in V : Closed(c)' <=> Closed(c)
      BY <1>1, <1>2 DEF Closed, OUT_SET, IN_SET
    <2>3. OUT_SET' = OUT_SET
      BY DEF OUT_SET
    <2> QED
      BY <1>1, <1>2, <1>3, <1>5, <1>6, <2>1, <2>2, <2>3 DEF ColInv, FastPhases
  <1> QED
    BY <1>2, <1>7, <1>8, <1>9 DEF IInv, MISInv

LEMMA DecideSetStep ==
  ASSUME IInv, DecideSet
  PROVE  IInv'
  <1> USE DEF DecideSet, problem, aggregates
  <1>1. UNCHANGED <<api, rows, labels, roots, numAggs, colStatus, rowWork, colWork, colUpdate>>
        /\ ph = "decide" /\ ph' = "compactRow"
    OBVIOUS
  <1>2. RowInv /\ ColInv /\ TypeOK
    BY <1>1 DEF IInv, MISInv
  <1>3. \A u \in rowWork : ~ Decided(rowStatus[u])
    BY <1>1, <1>2 DEF RowInv
  <1>4. rowStatus' = [u \in V |-> IF u \in rowWork THEN NewRowStatus(u) ELSE rowStatus[u]]
    BY <1>3
  <1>5. /\ rowStatus' \in [V -> 0 .. OUT_SET]
        /\ \A u \in V : u \notin rowWork \/ ~ Decided(rowStatus'[u]) => rowStatus'[u] = rowStatus[u]
    BY <1>1, <1>4, DecideRows
  <1>6. RowInv' /\ SetInv'
    BY <1>1, <1>4, AfterDecide
  <1>7. /\ V' = V /\ AggInv'
        /\ OUT_SET \in Nat /\ OUT_SET > 0 /\ IN_SET = 0
        /\ \A u \in V : Near(u) \subseteq V
        /\ TypeOK' /\ PhaseInv'
    BY <1>1, <1>5, RoundStep DEF FastPhases, QualityPhases, TypeOK
  <1>8. ColInv'
    <2>1. \A c \in V : Closed(c) => Closed(c)'
      BY <1>1, <1>3, <1>5, <1>7, StayClosed DEF Decided
    <2>2. \A c \in V \ colWork : colStatus[c] = OUT_SET /\ Closed(c)
      BY <1>1, <1>2 DEF ColInv, FastPhases
    <2>3. \A c \in V : colStatus[c] # IN_SET /\ (colStatus[c] = OUT_SET => Closed(c))
      <3> SUFFICES ASSUME NEW c \in V
                   PROVE  colStatus[c] # IN_SET /\ (colStatus[c] = OUT_SET => Closed(c))
        OBVIOUS
      <3>1. colStatus[c] = ColStatus(c) /\ ColStatus(c) \in 1 .. OUT_SET
        BY <1>1, <1>2, ColStatusFacts DEF ColInv
      <3>2. ColStatus(c) = OUT_SET => Closed(c)
        BY <1>2, <1>3, <1>7, ColStatusFacts DEF Closed, Decided
      <3> QED
        BY <1>7, <3>1, <3>2
    <2>4. OUT_SET' = OUT_SET /\ IN_SET' = IN_SET
      BY DEF OUT_SET, IN_SET
    <2> QED
      BY <1>1, <1>7, <2>1, <2>2, <2>3, <2>4 DEF ColInv, FastPhases
  <1> QED
    BY <1>6, <1>7, <1>8 DEF IInv, MISInv

LEMMA CompactRowWorkStep ==
  ASSUME IInv, CompactRowWork
  PROVE  IInv'
  <1> USE DEF CompactRowWork, problem, aggregates
  <1>1. UNCHANGED <<api, rows, labels, roots, numAggs, rowStatus, colStatus, colWork, colUpdate>>
        /\ ph = "compactRow" /\ ph' \in {"list", "compactCol"}
        /\ (ph' = "list" => rowWork' = {}) /\ rowWork' = {i \in rowWork : ~ Decided(rowStatus[i])}
    OBVIOUS
  <1>2. /\ V' = V /\ Asked' = Asked /\ AggInv'
        /\ \A u : Near(u)' = Near(u)
        /\ \A u, v : WithinTwo(u, v)' <=> WithinTwo(u, v)
        /\ TypeOK /\ PhaseInv /\ RowInv /\ SetInv /\ ColInv
        /\ \A u \in V : Near(u) \subseteq V
        /\ TypeOK' /\ (ph' # "list" => PhaseInv')
    BY <1>1, RoundStep DEF FastPhases, QualityPhases, TypeOK
  <1>3. PhaseInv'
    <2>1. CASE ph' = "list"
      BY <1>1, <1>2, <2>1 DEF PhaseInv, FastPhases, QualityPhases, Listed
    <2> QED
      BY <1>2, <2>1
  <1>4. RowInv'
    BY <1>1, <1>2 DEF RowInv, Decided, OUT_SET, IN_SET
  <1>5. SetInv'
    BY <1>1, <1>2 DEF SetInv, Dominated, InSet, OUT_SET, IN_SET
  <1>6. ColInv'
    <2>1. \A c \in V : Closed(c) => Closed(c)'
      BY <1>1, <1>2, StayClosed
    <2>2. OUT_SET' = OUT_SET /\ IN_SET' = IN_SET
      BY DEF OUT_SET, IN_SET
    <2> QED
      BY <1>1, <1>2, <2>1, <2>2 DEF ColInv, FastPhases
  <1> QED
    BY <1>2, <1>3, <1>4, <1>5, <1>6 DEF IInv, MISInv

LEMMA CompactColWorkStep ==
  ASSUME IInv, CompactColWork
  PROVE  IInv'
  <1> USE DEF CompactColWork, problem, aggregates
  <1>1. UNCHANGED <<api, rows, labels, roots, numAggs, rowStatus, colStatus, rowWork, colUpdate>>
        /\ ph = "compactCol" /\ ph' = "refreshRow"
        /\ colWork' = {c \in colWork : ~ Decided(colStatus[c])}
    OBVIOUS
  <1>2. /\ V' = V /\ Asked' = Asked /\ AggInv'
        /\ \A u : Near(u)' = Near(u)
        /\ \A u, v : WithinTwo(u, v)' <=> WithinTwo(u, v)
        /\ TypeOK /\ PhaseInv /\ RowInv /\ SetInv /\ ColInv
        /\ \A u \in V : Near(u) \subseteq V
        /\ TypeOK' /\ PhaseInv'
    BY <1>1, RoundStep DEF FastPhases, QualityPhases, TypeOK
  <1>3. RowInv'
    BY <1>1, <1>2 DEF RowInv, Decided, OUT_SET, IN_SET
  <1>4. SetInv'
    BY <1>1, <1>2 DEF SetInv, Dominated, InSet, OUT_SET, IN_SET
  <1>5. ColInv'
    <2>1. \A c \in V : Closed(c) => Closed(c)'
      BY <1>1, <1>2, StayClosed
    <2>2. OUT_SET' = OUT_SET /\ IN_SET' = IN_SET
      BY DEF OUT_SET, IN_SET
    <2>3. \A c \in V \ colWork' : colStatus[c] = OUT_SET /\ Closed(c)
      BY <1>1, <1>2 DEF ColInv, FastPhases, Decided
    <2> QED
      BY <1>1, <1>2, <2>1, <2>2, <2>3 DEF ColInv, FastPhases
  <1> QED
    BY <1>2, <1>3, <1>4, <1>5 DEF IInv, MISInv

LEMMA ListSetStep ==
  ASSUME IInv, ListSet
  PROVE  IInv'
  <1> USE DEF ListSet, problem, aggregates
  <1>1. UNCHANGED <<api, rows, labels, roots, numAggs, rowStatus, colStatus, rowWork, colWork, colUpdate>>
        /\ ph = "list"
        /\ ph' = IF api \in {"FAST", "QUALITY"} THEN "done" ELSE IF numAggs = 0 THEN "phase1" ELSE "phase2"
    OBVIOUS
  <1>2. TypeOK /\ PhaseInv /\ RowInv /\ SetInv /\ AggInv
    BY <1>1 DEF IInv, MISInv
  <1>3. /\ V' = V /\ n' = n /\ (\A u : Near(u)' = Near(u)) /\ \A u, v : WithinTwo(u, v)' <=> WithinTwo(u, v)
    BY <1>1, SameGraph
  <1>4. Asked' = Asked
    BY <1>1, <1>3 DEF Asked
  <1>5. api \in {"FAST", "QUALITY", "COARSEN", "AGGREGATE"} /\ numAggs \in Nat
    BY <1>2, ProblemFacts DEF TypeOK
  <1>6. TypeOK'
    <2>1. ph' \in {"done", "phase1", "phase2"}
      BY <1>1
    <2>2. OUT_SET' = OUT_SET
      BY DEF OUT_SET
    <2> QED
      BY <1>1, <1>2, <1>3, <2>1, <2>2 DEF TypeOK
  <1>7. PhaseInv'
    BY <1>1, <1>2, <1>5 DEF PhaseInv, FastPhases, QualityPhases, Listed
  <1>8. MISInv'
    <2>1. RowInv'
      BY <1>1, <1>2, <1>3, <1>4 DEF RowInv, Decided, OUT_SET, IN_SET
    <2>2. SetInv'
      BY <1>1, <1>2, <1>3, <1>4 DEF SetInv, Dominated, InSet, OUT_SET, IN_SET
    <2>3. ColInv'
      BY <1>1 DEF ColInv, FastPhases
    <2> QED
      BY <2>1, <2>2, <2>3 DEF MISInv
  <1>9. AggInv'
    <2>1. ph' = "done" => numAggs = 0
      BY <1>1, <1>2 DEF PhaseInv
    <2> QED
      BY <1>1, <1>2, <1>3, <1>5, <2>1 DEF AggInv, RootsInv
  <1> QED
    BY <1>6, <1>7, <1>8, <1>9 DEF IInv

-----------------------------------------------------------------------------
(* the aggregates *)

\* The ranks of the members of a set are the numbers below its size, one each.
LEMMA RankFacts ==
  ASSUME NEW S \in SUBSET Nat, IsFiniteSet(S)
  PROVE  /\ Cardinality(S) \in Nat
         /\ \A u \in S : RankIn(S, u) \in 0 .. Cardinality(S) - 1
         /\ \A u, v \in S : RankIn(S, u) = RankIn(S, v) => u = v
         /\ \A k \in 0 .. Cardinality(S) - 1 : \E u \in S : RankIn(S, u) = k
  <1>1. \A u : RankIn(S, u) = CountBelow(S, u)
    BY DEF RankIn, CountBelow
  <1> QED
    BY <1>1, CountBelowFacts

\* The labels that Grow gives: one to each root, and that of a root to the free
\* vertices around it, which have one root only.
LEMMA GrowFacts ==
  ASSUME TypeOK, NEW S, S \subseteq V, NEW first \in Nat, NEW Free,
         \A r, s \in S : WithinTwo(r, s) => r = s
  PROVE  /\ IsFiniteSet(S) /\ Cardinality(S) \in Nat
         /\ \A r \in S : Grow(S, first, Free)[r] \in first .. first + Cardinality(S) - 1
         /\ \A r, s \in S : Grow(S, first, Free)[r] = Grow(S, first, Free)[s] => r = s
         /\ \A a \in first .. first + Cardinality(S) - 1 : \E r \in S : Grow(S, first, Free)[r] = a
         /\ \A r \in S : \A u \in Near(r) : u \notin S /\ u \in Free
                                            => Grow(S, first, Free)[u] = Grow(S, first, Free)[r]
         /\ \A u \in V \ S : u \notin Free \/ (\A r \in S : u \notin Near(r))
                             => Grow(S, first, Free)[u] = labels[u]
  <1> DEFINE g == Grow(S, first, Free)
  <1>1. /\ V = 0 .. n - 1 /\ n \in Nat /\ IsFiniteSet(V)
        /\ \A u \in V : Near(u) \subseteq V /\ \A v \in Near(u) : u \in Near(v)
    BY ProblemFacts
  <1>2. S \in SUBSET Nat /\ IsFiniteSet(S)
    <2>1. S \in SUBSET V
      OBVIOUS
    <2>2. IsFiniteSet(S)
      BY <1>1, <2>1, FS_Subset
    <2> QED
      BY <1>1, <2>1, <2>2
  <1>3. PICK m \in Nat : m = Cardinality(S)
    BY <1>2, RankFacts
  <1>4. /\ \A u \in S : RankIn(S, u) \in 0 .. m - 1
        /\ \A u, v \in S : RankIn(S, u) = RankIn(S, v) => u = v
        /\ \A k \in 0 .. m - 1 : \E u \in S : RankIn(S, u) = k
    BY <1>2, <1>3, RankFacts
  <1>5. \A r \in S : g[r] = first + RankIn(S, r)
    BY DEF Grow
  <1>6. \A r \in S : g[r] \in first .. first + m - 1
    BY <1>4, <1>5
  <1>7. \A r, s \in S : g[r] = g[s] => r = s
    <2> SUFFICES ASSUME NEW r \in S, NEW s \in S, g[r] = g[s] PROVE r = s
      OBVIOUS
    <2>1. PICK x \in Int, y \in Int : x = RankIn(S, r) /\ y = RankIn(S, s)
      BY <1>4
    <2>2. first + x = first + y
      BY <1>5, <2>1
    <2> QED
      BY <1>4, <2>1, <2>2
  <1>8. \A a \in first .. first + m - 1 : \E r \in S : g[r] = a
    <2> SUFFICES ASSUME NEW a \in first .. first + m - 1 PROVE \E r \in S : g[r] = a
      OBVIOUS
    <2>1. a - first \in 0 .. m - 1
      OBVIOUS
    <2>2. PICK r \in S : RankIn(S, r) = a - first
      BY <1>4, <2>1
    <2>3. first + (a - first) = a
      OBVIOUS
    <2> QED
      BY <1>5, <2>2, <2>3
  <1>9. ASSUME NEW r \in S, NEW u \in Near(r), u \notin S, u \in Free
        PROVE  g[u] = g[r]
    <2>1. u \in V /\ r \in V
      BY <1>1
    <2>2. \A s \in S : u \in Near(s) => s = r
      <3> SUFFICES ASSUME NEW s \in S, u \in Near(s) PROVE s = r
        OBVIOUS
      <3>1. u \in Near(r) /\ s \in Near(u)
        BY <1>1
      <3> QED
        BY <1>1, <2>1, <3>1 DEF WithinTwo
    <2>3. (CHOOSE s \in S : u \in Near(s)) = r
      BY <2>2
    <2>4. g[u] = first + RankIn(S, CHOOSE s \in S : u \in Near(s))
      BY <1>9, <2>1 DEF Grow
    <2> QED
      BY <1>5, <2>3, <2>4
  <1>10. \A u \in V \ S : u \notin Free \/ (\A r \in S : u \notin Near(r)) => g[u] = labels[u]
    BY DEF Grow
  <1> QED
    BY <1>2, <1>3, <1>6, <1>7, <1>8, <1>9, <1>10

\* The members are the roots; a vertex that is in no aggregate has one two hops away.
LEMMA CreatePrimaryAggregatesStep ==
  ASSUME IInv, CreatePrimaryAggregates
  PROVE  IInv'
  <1> USE DEF CreatePrimaryAggregates, problem
  <1>1. /\ UNCHANGED <<api, rows, colStatus, colUpdate>> /\ ph = "phase1"
        /\ roots' = InSet /\ labels' = Grow(InSet, 0, V) /\ numAggs' = Cardinality(InSet)
    OBVIOUS
  <1>2. TypeOK /\ PhaseInv /\ RowInv /\ SetInv /\ RootsInv /\ numAggs = 0 /\ rowWork = {}
        /\ api \in {"COARSEN", "AGGREGATE"}
    BY <1>1 DEF IInv, MISInv, AggInv, PhaseInv, Listed
  <1>3. /\ V' = V /\ n' = n /\ (\A u : Near(u)' = Near(u)) /\ \A u, v : WithinTwo(u, v)' <=> WithinTwo(u, v)
    BY <1>1, SameGraph
  <1>4. /\ V = 0 .. n - 1 /\ n \in Nat \ {0} /\ IsFiniteSet(V) /\ V # {}
        /\ \A u \in V : Near(u) \subseteq V /\ u \in Near(u) /\ \A v \in Near(u) : u \in Near(v)
        /\ OUT_SET \in Nat /\ OUT_SET > 0 /\ IN_SET = 0
        /\ OUT_SET' = OUT_SET /\ IN_SET' = IN_SET
    <2>1. OUT_SET' = OUT_SET /\ IN_SET' = IN_SET
      BY DEF OUT_SET, IN_SET
    <2> QED
      BY <1>2, <2>1, ProblemFacts, StatusFacts
  <1>5. PICK S : S = InSet
    OBVIOUS
  <1>6. PICK Free : Free = V
    OBVIOUS
  <1>7. S \subseteq V /\ \A r, s \in S : WithinTwo(r, s) => r = s
    BY <1>2, <1>5 DEF InSet, SetInv
  <1>8. \A u \in V : labels[u] = -1
    BY <1>2 DEF RootsInv
  <1>9. \A u \in V : \E v \in S : WithinTwo(u, v)
    <2> SUFFICES ASSUME NEW u \in V PROVE \E v \in S : WithinTwo(u, v)
      OBVIOUS
    <2>1. CASE rowStatus[u] = IN_SET
      BY <1>2, <1>5, <2>1, TwoHops DEF InSet
    <2>2. CASE rowStatus[u] = OUT_SET
      BY <1>1, <1>2, <1>5, <1>8, <2>2 DEF SetInv, Dominated, Asked
    <2> QED
      BY <1>2, <2>1, <2>2 DEF RowInv, Decided
  <1>10. PICK m \in Nat : m = Cardinality(S)
    BY <1>2, <1>7, GrowFacts
  <1>11. PICK g : g = labels'
    OBVIOUS
  <1>12. g = Grow(S, 0, Free)
    BY <1>1, <1>5, <1>6, <1>11
  <1>13. /\ IsFiniteSet(S)
         /\ \A r \in S : g[r] \in 0 .. m - 1
         /\ \A r, s \in S : g[r] = g[s] => r = s
         /\ \A a \in 0 .. m - 1 : \E r \in S : g[r] = a
         /\ \A r \in S : \A u \in Near(r) : u \notin S => g[u] = g[r]
         /\ \A u \in V \ S : (\A r \in S : u \notin Near(r)) => g[u] = -1
    <2>1. /\ IsFiniteSet(S)
          /\ \A r \in S : g[r] \in 0 .. 0 + m - 1
          /\ \A r, s \in S : g[r] = g[s] => r = s
          /\ \A a \in 0 .. 0 + m - 1 : \E r \in S : g[r] = a
          /\ \A r \in S : \A u \in Near(r) : u \notin S /\ u \in Free => g[u] = g[r]
          /\ \A u \in V \ S : u \notin Free \/ (\A r \in S : u \notin Near(r)) => g[u] = labels[u]
      <3>1. 0 \in Nat
        OBVIOUS
      <3> QED
        BY <1>2, <1>7, <1>10, <1>12, <3>1, GrowFacts
    <2>2. 0 .. 0 + m - 1 = 0 .. m - 1
      OBVIOUS
    <2>3. \A r \in S : Near(r) \subseteq Free
      BY <1>4, <1>6, <1>7
    <2> QED
      BY <1>8, <2>1, <2>2, <2>3
  <1>14. m \in 1 .. n
    <2>1. S # {}
      BY <1>4, <1>9
    <2>2. m # 0
      BY <1>10, <1>13, <2>1, FS_EmptySet
    <2>3. Cardinality(S) <= Cardinality(V)
      <3>1. PICK W : W = V
        OBVIOUS
      <3>2. IsFiniteSet(W) /\ S \in SUBSET W
        BY <1>4, <1>7, <3>1
      <3> QED
        BY <3>1, <3>2, FS_Subset
    <2>4. m <= n
      BY <1>10, <2>3 DEF n
    <2> QED
      BY <1>4, <2>2, <2>4
  \* a vertex with a label is next to the root with that label
  <1>15. ASSUME NEW u \in V
         PROVE  (g[u] = -1 /\ u \notin S) \/ (\E r \in S : g[r] = g[u] /\ u \in Near(r))
    <2>1. CASE u \in S
      BY <1>4, <2>1
    <2>2. CASE u \notin S /\ \E r \in S : u \in Near(r)
      BY <1>13, <2>2
    <2>3. CASE u \notin S /\ \A r \in S : u \notin Near(r)
      BY <1>13, <2>3
    <2> QED
      BY <2>1, <2>2, <2>3
  <1>16. \A u \in V : g[u] \in {-1} \union 0 .. m - 1
    BY <1>13, <1>15
  <1>17. \A u \in V : \E c \in Near(u) : g[c] # -1
    <2> SUFFICES ASSUME NEW u \in V PROVE \E c \in Near(u) : g[c] # -1
      OBVIOUS
    <2>1. PICK v \in S : WithinTwo(u, v)
      BY <1>9
    <2>2. PICK c \in V : c \in Near(u) /\ v \in Near(c)
      BY <2>1 DEF WithinTwo
    <2>3. c \in Near(v)
      BY <1>4, <2>2
    <2>4. g[c] \in 0 .. m - 1
      BY <1>13, <2>3
    <2> QED
      BY <2>2, <2>4
  <1>18. labels' \in [V -> {-1} \union 0 .. n - 1]
    <2>1. \A u \in V : labels'[u] \in {-1} \union 0 .. n - 1
      BY <1>4, <1>11, <1>14, <1>16
    <2>2. labels' = [u \in V |-> labels'[u]]
      BY <1>1 DEF Grow
    <2> QED
      BY <2>1, <2>2
  <1>19. \/ /\ rowStatus' = [u \in V |-> OUT_SET] /\ rowWork' = {u \in V : labels'[u] < 0}
            /\ colWork' = V /\ ph' = "refreshRow" /\ api = "AGGREGATE"
         \/ UNCHANGED <<rowStatus, rowWork, colWork>> /\ ph' = "phase3"
    OBVIOUS
  <1>20. TypeOK'
    <2>1. rowStatus' \in [V -> 0 .. OUT_SET] /\ rowWork' \subseteq V /\ colWork' \subseteq V
      <3>1. OUT_SET \in 0 .. OUT_SET
        BY <1>4
      <3> QED
        BY <1>2, <1>19, <3>1 DEF TypeOK
    <2>2. roots' \subseteq V /\ numAggs' \in 0 .. n
      BY <1>1, <1>5, <1>7, <1>10, <1>14
    <2>3. ph' \in {"refreshRow", "phase3"}
      BY <1>19
    <2> QED
      BY <1>1, <1>2, <1>3, <1>4, <1>18, <2>1, <2>2, <2>3 DEF TypeOK
  <1>21. numAggs' = m /\ m > 0 /\ roots' = S
    BY <1>1, <1>5, <1>10, <1>14
  <1>22. PhaseInv'
    BY <1>1, <1>2, <1>19, <1>21 DEF PhaseInv, FastPhases, QualityPhases, Listed
  <1>23. RootsInv'
    <2>1. Cardinality(roots') = numAggs'
      BY <1>10, <1>21
    <2>2. \A r \in roots' : labels'[r] # -1
      BY <1>11, <1>13, <1>21
    <2>3. \A u \in V' : labels'[u] \in {-1} \union 0 .. numAggs' - 1
      BY <1>3, <1>11, <1>16, <1>21
    <2>4. /\ \A r, s \in roots' : labels'[r] = labels'[s] => r = s
          /\ \A a \in 0 .. numAggs' - 1 : \E r \in roots' : labels'[r] = a
      BY <1>11, <1>13, <1>21
    <2> QED
      BY <2>1, <2>2, <2>3, <2>4 DEF RootsInv
  <1>24. AggInv'
    <2>1. \A u \in V' : labels'[u] # -1 => \E r \in roots' : labels'[r] = labels'[u] /\ u \in Near(r)'
      BY <1>3, <1>11, <1>15, <1>21
    <2>2. \A u \in V' : \E c \in Near(u)' : labels'[c] # -1
      BY <1>3, <1>11, <1>17
    <2>3. ph' # "done"
      BY <1>19
    <2> QED
      BY <1>23, <2>1, <2>2, <2>3 DEF AggInv
  <1>25. MISInv'
    <2>1. CASE ph' = "phase3"
      BY <2>1 DEF MISInv
    <2>2. CASE ph' = "refreshRow"
      <3>1. rowStatus' = [u \in V |-> OUT_SET] /\ rowWork' = {u \in V : labels'[u] < 0} /\ colWork' = V
        BY <1>19, <2>2
      <3>2. \A u \in V : labels'[u] < 0 <=> labels'[u] = -1
        BY <1>11, <1>16
      <3>3. Asked' = rowWork' /\ InSet' = {}
        BY <1>3, <1>4, <3>1, <3>2 DEF Asked, InSet
      <3>4. RowInv'
        BY <1>3, <1>4, <2>2, <3>1, <3>3 DEF RowInv, Decided
      <3>5. SetInv'
        BY <2>2, <3>3 DEF SetInv
      <3>6. ColInv'
        BY <1>3, <2>2, <3>1 DEF ColInv, FastPhases
      <3> QED
        BY <3>4, <3>5, <3>6 DEF MISInv
    <2> QED
      BY <1>19, <2>1, <2>2
  <1> QED
    BY <1>20, <1>22, <1>24, <1>25 DEF IInv

\* The members that make an aggregate of their own are numbered after the others.
LEMMA CreateSecondaryAggregatesStep ==
  ASSUME IInv, CreateSecondaryAggregates
  PROVE  IInv'
  <1> USE DEF CreateSecondaryAggregates, problem
  <1>1. UNCHANGED <<api, rows, rowStatus, colStatus, rowWork, colWork, colUpdate>>
        /\ ph = "phase2" /\ ph' = "phase3"
    OBVIOUS
  <1>2. PICK S : S = {r \in InSet : CandAggSize(r) >= 3}
    OBVIOUS
  <1>3. PICK Free : Free = Asked
    OBVIOUS
  <1>4. labels' = Grow(S, numAggs, Free) /\ roots' = roots \union S /\ numAggs' = numAggs + Cardinality(S)
    BY <1>2, <1>3 DEF Asked
  <1>5. TypeOK /\ PhaseInv /\ RowInv /\ SetInv /\ AggInv /\ RootsInv /\ numAggs > 0
    BY <1>1 DEF IInv, MISInv, AggInv, PhaseInv
  <1>6. /\ V' = V /\ n' = n /\ (\A u : Near(u)' = Near(u)) /\ \A u, v : WithinTwo(u, v)' <=> WithinTwo(u, v)
    BY <1>1, SameGraph
  <1>7. /\ V = 0 .. n - 1 /\ n \in Nat \ {0} /\ IsFiniteSet(V)
        /\ \A u \in V : Near(u) \subseteq V /\ u \in Near(u) /\ \A v \in Near(u) : u \in Near(v)
        /\ OUT_SET \in Nat /\ OUT_SET > 0 /\ IN_SET = 0 /\ OUT_SET' = OUT_SET
    <2>1. OUT_SET' = OUT_SET
      BY DEF OUT_SET
    <2> QED
      BY <1>5, <2>1, ProblemFacts, StatusFacts
  <1>8. S \subseteq V /\ S \subseteq Free /\ \A r, s \in S : WithinTwo(r, s) => r = s
    <2>1. InSet \subseteq Asked
      BY <1>5, <1>7 DEF InSet, RowInv
    <2> QED
      BY <1>2, <1>3, <1>5, <2>1 DEF InSet, SetInv
  <1>9. PICK a0 \in Nat : a0 = numAggs /\ a0 > 0
    BY <1>5 DEF TypeOK
  <1>10. PICK m \in Nat : m = Cardinality(S)
    BY <1>5, <1>8, <1>9, GrowFacts
  <1>11. PICK g, lab, R, W : g = labels' /\ lab = labels /\ R = roots /\ W = V
    OBVIOUS
  <1>12. /\ IsFiniteSet(S)
         /\ \A r \in S : g[r] \in a0 .. a0 + m - 1
         /\ \A r, s \in S : g[r] = g[s] => r = s
         /\ \A a \in a0 .. a0 + m - 1 : \E r \in S : g[r] = a
         /\ \A r \in S : \A u \in Near(r) : u \notin S /\ u \in Free => g[u] = g[r]
         /\ \A u \in V \ S : u \notin Free \/ (\A r \in S : u \notin Near(r)) => g[u] = lab[u]
    <2>1. g = Grow(S, a0, Free)
      BY <1>4, <1>9, <1>11
    <2>2. /\ IsFiniteSet(S)
          /\ \A r \in S : g[r] \in a0 .. a0 + Cardinality(S) - 1
          /\ \A r, s \in S : g[r] = g[s] => r = s
          /\ \A a \in a0 .. a0 + Cardinality(S) - 1 : \E r \in S : g[r] = a
          /\ \A r \in S : \A u \in Near(r) : u \notin S /\ u \in Free => g[u] = g[r]
          /\ \A u \in V \ S : u \notin Free \/ (\A r \in S : u \notin Near(r)) => g[u] = labels[u]
      <3>1. /\ IsFiniteSet(S) /\ Cardinality(S) \in Nat
            /\ \A r \in S : Grow(S, a0, Free)[r] \in a0 .. a0 + Cardinality(S) - 1
            /\ \A r, s \in S : Grow(S, a0, Free)[r] = Grow(S, a0, Free)[s] => r = s
            /\ \A a \in a0 .. a0 + Cardinality(S) - 1 : \E r \in S : Grow(S, a0, Free)[r] = a
            /\ \A r \in S : \A u \in Near(r) : u \notin S /\ u \in Free
                                               => Grow(S, a0, Free)[u] = Grow(S, a0, Free)[r]
            /\ \A u \in V \ S : u \notin Free \/ (\A r \in S : u \notin Near(r))
                                => Grow(S, a0, Free)[u] = labels[u]
        BY <1>5, <1>8, GrowFacts
      <3> QED
        BY <2>1, <3>1
    <2> QED
      BY <1>10, <1>11, <2>2
  <1>13. /\ \A r \in R : lab[r] # -1
         /\ \A r, s \in R : lab[r] = lab[s] => r = s
         /\ \A a \in 0 .. a0 - 1 : \E r \in R : lab[r] = a
         /\ \A u \in V : lab[u] \in {-1} \union 0 .. a0 - 1
         /\ R \subseteq V
         /\ \A u \in V : u \in Free <=> lab[u] = -1
         /\ \A u \in V : lab[u] # -1 => \E r \in R : lab[r] = lab[u] /\ u \in Near(r)
         /\ \A u \in V : \E c \in Near(u) : lab[c] # -1
         /\ Cardinality(R) = a0
    BY <1>1, <1>3, <1>5, <1>9, <1>11 DEF RootsInv, AggInv, TypeOK, Asked
  <1>14. \A u \in V : lab[u] # -1 => u \notin S /\ g[u] = lab[u]
    BY <1>8, <1>12, <1>13
  <1>15. IsFiniteSet(R \union S) /\ Cardinality(R \union S) = a0 + m /\ a0 + m <= n
    <2>1. R \in SUBSET W /\ R \union S \in SUBSET W /\ IsFiniteSet(W)
      BY <1>7, <1>8, <1>11, <1>13
    <2>2. IsFiniteSet(R) /\ IsFiniteSet(R \union S) /\ Cardinality(R \union S) <= Cardinality(W)
      BY <2>1, FS_Subset
    <2>3. R \intersect S = {}
      BY <1>13, <1>14
    <2>4. Cardinality(R \intersect S) = 0
      BY <2>3, FS_EmptySet
    <2>5. Cardinality(R \union S) = Cardinality(R) + Cardinality(S) - Cardinality(R \intersect S)
      BY <1>12, <2>2, FS_Union
    <2>6. Cardinality(R \union S) = a0 + m
      BY <1>10, <1>13, <2>4, <2>5
    <2> QED
      BY <1>11, <2>2, <2>6 DEF n
  \* which label a vertex ends with
  <1>16. ASSUME NEW u \in V
         PROVE  (g[u] = -1 /\ u \notin R \union S)
                \/ (\E r \in R \union S : g[r] = g[u] /\ u \in Near(r))
    <2>1. CASE lab[u] # -1
      <3>1. PICK r \in R : lab[r] = lab[u] /\ u \in Near(r)
        BY <1>13, <2>1
      <3>2. g[r] = lab[r] /\ g[u] = lab[u]
        BY <1>13, <1>14, <2>1
      <3> QED
        BY <3>1, <3>2
    <2>2. CASE u \in S
      BY <1>7, <2>2
    <2>3. CASE lab[u] = -1 /\ u \notin S /\ \E r \in S : u \in Near(r)
      BY <1>12, <1>13, <2>3
    <2>4. CASE lab[u] = -1 /\ u \notin S /\ \A r \in S : u \notin Near(r)
      BY <1>12, <1>13, <2>4
    <2> QED
      BY <2>1, <2>2, <2>3, <2>4
  <1>17. \A r \in R \union S : g[r] \in 0 .. a0 + m - 1
    <2>1. \A r \in R : g[r] \in 0 .. a0 - 1
      BY <1>13, <1>14
    <2> QED
      BY <1>12, <2>1
  <1>18. \A u \in V : g[u] \in {-1} \union 0 .. a0 + m - 1
    BY <1>16, <1>17
  <1>19. \A u \in V : \E c \in Near(u) : g[c] # -1
    BY <1>7, <1>13, <1>14
  <1>20. \A r, s \in R \union S : g[r] = g[s] => r = s
    <2>1. \A r \in R : g[r] \in 0 .. a0 - 1 /\ g[r] = lab[r]
      BY <1>13, <1>14
    <2>2. \A r \in R, s \in S : g[r] # g[s]
      BY <1>12, <2>1
    <2>3. \A r, s \in R : g[r] = g[s] => r = s
      BY <1>13, <2>1
    <2> QED
      BY <1>12, <2>2, <2>3
  <1>21. \A a \in 0 .. a0 + m - 1 : \E r \in R \union S : g[r] = a
    <2> SUFFICES ASSUME NEW a \in 0 .. a0 + m - 1 PROVE \E r \in R \union S : g[r] = a
      OBVIOUS
    <2>1. a \in 0 .. a0 - 1 \/ a \in a0 .. a0 + m - 1
      OBVIOUS
    <2>2. \A r \in R : g[r] = lab[r]
      BY <1>13, <1>14
    <2> QED
      BY <1>12, <1>13, <2>1, <2>2
  <1>22. numAggs' = a0 + m /\ roots' = R \union S
    BY <1>4, <1>9, <1>10, <1>11
  <1>23. TypeOK'
    <2>1. \A u \in V : labels'[u] \in {-1} \union 0 .. n - 1
      <3>1. PICK k \in Nat : k = n
        BY <1>7
      <3>2. 0 .. a0 + m - 1 \subseteq 0 .. k - 1
        BY <1>15, <3>1
      <3> QED
        BY <1>11, <1>18, <3>1, <3>2
    <2>2. labels' = [u \in V |-> labels'[u]]
      BY <1>4 DEF Grow
    <2>3. labels' \in [V -> {-1} \union 0 .. n - 1]
      BY <2>1, <2>2
    <2>4. roots' \subseteq V /\ numAggs' \in 0 .. n
      <3>1. R \union S \subseteq V
        BY <1>8, <1>13
      <3>2. a0 + m \in 0 .. n
        BY <1>7, <1>15
      <3> QED
        BY <1>22, <3>1, <3>2
    <2> QED
      BY <1>1, <1>5, <1>6, <1>7, <2>3, <2>4 DEF TypeOK
  <1>24. PhaseInv'
    <2>1. numAggs' > 0
      BY <1>9, <1>22
    <2> QED
      BY <1>1, <1>5, <2>1 DEF PhaseInv, FastPhases, QualityPhases, Listed
  <1>25. RootsInv'
    <2>1. Cardinality(roots') = numAggs' /\ \A r \in roots' : labels'[r] # -1
      <3>1. \A r \in R \union S : g[r] # -1
        BY <1>17
      <3>2. Cardinality(roots') = numAggs'
        BY <1>15, <1>22
      <3> QED
        BY <1>11, <1>22, <3>1, <3>2
    <2>2. \A u \in V' : labels'[u] \in {-1} \union 0 .. numAggs' - 1
      BY <1>6, <1>11, <1>18, <1>22
    <2>3. /\ \A r, s \in roots' : labels'[r] = labels'[s] => r = s
          /\ \A a \in 0 .. numAggs' - 1 : \E r \in roots' : labels'[r] = a
      <3>1. PICK Q : Q = R \union S
        OBVIOUS
      <3>2. (\A r, s \in Q : g[r] = g[s] => r = s) /\ \A a \in 0 .. a0 + m - 1 : \E r \in Q : g[r] = a
        BY <1>20, <1>21, <3>1
      <3>3. roots' = Q /\ labels' = g /\ numAggs' = a0 + m
        BY <1>11, <1>22, <3>1
      <3> QED
        BY ONLY <3>2, <3>3
    <2> QED
      BY <2>1, <2>2, <2>3 DEF RootsInv
  <1>26. AggInv'
    <2>1. \A u \in V' : labels'[u] # -1 => \E r \in roots' : labels'[r] = labels'[u] /\ u \in Near(r)'
      BY <1>6, <1>11, <1>16, <1>22
    <2>2. \A u \in V' : \E c \in Near(u)' : labels'[c] # -1
      BY <1>6, <1>11, <1>19
    <2> QED
      BY <1>1, <1>25, <2>1, <2>2 DEF AggInv
  <1>27. MISInv'
    BY <1>1 DEF MISInv
  <1> QED
    BY <1>23, <1>24, <1>26, <1>27 DEF IInv

\* Of what has four numbers each, not all the same in the last, one comes first.
LEMMA GreatestIn ==
  ASSUME NEW S, S # {}, NEW f, NEW d, NEW k \in Nat, \A s \in S : f[s][d] \in -k .. k
  PROVE  \E b \in S : \A c \in S : f[c][d] <= f[b][d]
  <1> DEFINE T == {f[s][d] + k : s \in S}
  <1>1. T \in SUBSET (0 .. 2 * k) /\ T # {} /\ 2 * k \in Nat
    OBVIOUS
  <1>2. PICK t \in T : \A u \in T : u <= t
    <2> HIDE DEF T
    <2> QED
      BY <1>1, GreatestOf
  <1>3. PICK b \in S : t = f[b][d] + k
    OBVIOUS
  <1>4. ASSUME NEW c \in S PROVE f[c][d] <= f[b][d]
    <2>1. f[c][d] + k <= f[b][d] + k
      BY <1>2, <1>3
    <2>2. PICK x \in Int, y \in Int : x = f[c][d] /\ y = f[b][d]
      OBVIOUS
    <2> QED
      BY <2>1, <2>2
  <1> QED
    BY <1>4

LEMMA OneBeatsTheOthers ==
  ASSUME NEW S, S # {}, NEW f, NEW k \in Nat,
         \A s \in S : \A d \in 1 .. 4 : f[s][d] \in -k .. k,
         \A s, t \in S : f[s][4] = f[t][4] => s = t
  PROVE  \E a \in S : \A b \in S : b # a => Beats(f[a], f[b])
  <1>1. \A s \in S : /\ f[s][1] \in -k .. k /\ f[s][2] \in -k .. k
                     /\ f[s][3] \in -k .. k /\ f[s][4] \in -k .. k
    OBVIOUS
  <1>2. PICK a1 \in S : \A c \in S : f[c][1] <= f[a1][1]
    BY <1>1, GreatestIn
  <1> DEFINE S2 == {s \in S : f[s][1] = f[a1][1]}
  <1>3. PICK a2 \in S2 : \A c \in S2 : f[c][2] <= f[a2][2]
    <2>1. S2 # {} /\ \A s \in S2 : f[s][2] \in -k .. k
      BY <1>1
    <2> HIDE DEF S2
    <2> QED
      BY <2>1, GreatestIn
  <1> DEFINE S3 == {s \in S2 : f[s][2] = f[a2][2]}
  <1>4. PICK a3 \in S3 : \A c \in S3 : f[c][3] <= f[a3][3]
    <2>1. S3 # {} /\ \A s \in S3 : f[s][3] \in -k .. k
      BY <1>1
    <2> HIDE DEF S3
    <2> QED
      BY <2>1, GreatestIn
  <1> DEFINE S4 == {s \in S3 : f[s][3] = f[a3][3]}
  <1>5. PICK a \in S4 : \A c \in S4 : f[c][4] <= f[a][4]
    <2>1. S4 # {} /\ \A s \in S4 : f[s][4] \in -k .. k
      BY <1>1
    <2> HIDE DEF S4
    <2> QED
      BY <2>1, GreatestIn
  <1>6. a \in S /\ f[a][1] = f[a1][1] /\ f[a][2] = f[a2][2] /\ f[a][3] = f[a3][3]
    OBVIOUS
  <1>7. ASSUME NEW b \in S, b # a PROVE Beats(f[a], f[b])
    <2> USE DEF Beats
    <2>1. CASE b \notin S2
      <3>1. f[a][1] > f[b][1]
        BY <1>1, <1>2, <1>6, <2>1
      <3>2. 1 .. 1 - 1 = {} /\ 1 \in 1 .. 4
        OBVIOUS
      <3> QED
        BY <3>1, <3>2
    <2>2. CASE b \in S2 /\ b \notin S3
      <3>1. f[a][2] > f[b][2] /\ f[a][1] = f[b][1]
        <4>1. f[b][2] <= f[a2][2] /\ f[b][2] # f[a2][2] /\ f[b][1] = f[a1][1]
          BY <1>3, <2>2
        <4> QED
          BY <1>1, <1>6, <4>1
      <3>2. 1 .. 2 - 1 = {1} /\ 2 \in 1 .. 4
        OBVIOUS
      <3> QED
        BY <3>1, <3>2
    <2>3. CASE b \in S3 /\ b \notin S4
      <3>1. f[a][3] > f[b][3] /\ f[a][1] = f[b][1] /\ f[a][2] = f[b][2]
        <4>1. f[b][3] <= f[a3][3] /\ f[b][3] # f[a3][3] /\ f[b][1] = f[a1][1] /\ f[b][2] = f[a2][2]
          BY <1>4, <2>3
        <4> QED
          BY <1>1, <1>6, <4>1
      <3>2. 1 .. 3 - 1 = {1, 2} /\ 3 \in 1 .. 4
        OBVIOUS
      <3> QED
        BY <3>1, <3>2
    <2>4. CASE b \in S4
      <3>1. f[a][4] > f[b][4] /\ f[a][1] = f[b][1] /\ f[a][2] = f[b][2] /\ f[a][3] = f[b][3]
        <4>1. /\ f[b][4] <= f[a][4] /\ f[b][4] # f[a][4]
              /\ f[b][1] = f[a1][1] /\ f[b][2] = f[a2][2] /\ f[b][3] = f[a3][3]
          BY <1>5, <1>6, <1>7, <2>4
        <4> QED
          BY <1>1, <1>6, <4>1
      <3>2. 1 .. 4 - 1 = {1, 2, 3} /\ 4 \in 1 .. 4
        OBVIOUS
      <3> QED
        BY <3>1, <3>2
    <2> QED
      BY <1>7, <2>1, <2>2, <2>3, <2>4
  <1> QED
    BY <1>6, <1>7

\* the aggregates that vertex i chooses from
Candidates(i) == {labels[i]} \union {AggAt(i, k) : k \in Counted(i)}

LEMMA PositionFacts ==
  ASSUME TypeOK, NEW i \in V
  PROVE  /\ Len(rows[i]) \in Nat /\ DOMAIN rows[i] = 1 .. Len(rows[i])
         /\ \A k \in Counted(i) : /\ k \in Foreign(i) /\ k \in 1 .. Len(rows[i])
                                  /\ rows[i][k] \in Near(i) /\ rows[i][k] \in V
                                  /\ labels[rows[i][k]] = AggAt(i, k)
                                  /\ AggAt(i, k) # -1 /\ AggAt(i, k) # labels[i]
         /\ \A T \in SUBSET (1 .. Len(rows[i])) : IsFiniteSet(T) /\ Cardinality(T) \in 0 .. Len(rows[i])
         /\ \A a : At(i, a) \in SUBSET (1 .. Len(rows[i]))
         /\ \A a : AggSize(a) \in 0 .. n
  <1>1. rows[i] \in Seq(Nat) /\ n \in Nat /\ IsFiniteSet(V)
    BY ProblemFacts
  <1>2. PICK l \in Nat : l = Len(rows[i]) /\ DOMAIN rows[i] = 1 .. l
    BY <1>1
  <1>3. \A k \in Foreign(i) : /\ k \in DOMAIN rows[i] /\ rows[i][k] \in V /\ rows[i][k] \in Near(i)
                              /\ AggAt(i, k) # -1 /\ AggAt(i, k) # labels[i] /\ labels[rows[i][k]] = AggAt(i, k)
    BY DEF Foreign, AggAt, Near
  <1>4. \A T \in SUBSET (1 .. l) : IsFiniteSet(T) /\ Cardinality(T) \in 0 .. l
    <2> SUFFICES ASSUME NEW T \in SUBSET (1 .. l) PROVE IsFiniteSet(T) /\ Cardinality(T) \in 0 .. l
      OBVIOUS
    <2>1. 1 \in Int /\ l \in Int
      OBVIOUS
    <2>2. IsFiniteSet(1 .. l) /\ Cardinality(1 .. l) = l
      BY <2>1, FS_Interval
    <2>3. IsFiniteSet(T) /\ Cardinality(T) <= l
      BY <2>2, FS_Subset
    <2>4. Cardinality(T) \in Nat
      BY <2>3, FS_CardinalityType
    <2> QED
      BY <2>3, <2>4
  <1>5. ASSUME NEW a PROVE AggSize(a) \in 0 .. n
    <2>1. PICK U, W : U = {u \in V : labels[u] = a} /\ W = V
      OBVIOUS
    <2>2. IsFiniteSet(W) /\ U \in SUBSET W
      BY <1>1, <2>1
    <2>3. IsFiniteSet(U) /\ Cardinality(U) <= Cardinality(W)
      BY <2>2, FS_Subset
    <2>4. Cardinality(U) \in Nat
      BY <2>3, FS_CardinalityType
    <2>5. Cardinality(U) = AggSize(a) /\ Cardinality(W) = n
      BY <2>1 DEF AggSize, n
    <2> QED
      BY <1>1, <2>3, <2>4, <2>5
  <1>6. \A k \in Counted(i) : k \in Foreign(i)
    BY DEF Counted
  <1>7. \A a : At(i, a) \in SUBSET (DOMAIN rows[i])
    BY <1>3, <1>6 DEF At
  <1> QED
    BY <1>2, <1>3, <1>4, <1>5, <1>6, <1>7

\* The numbers of the candidates are bounded, and the first positions differ.
LEMMA MeritFacts ==
  ASSUME TypeOK, NEW i \in V
  PROVE  /\ \E k \in Nat : \A a \in Candidates(i) : \A d \in 1 .. 4 : Merit(i, a)[d] \in -k .. k
         /\ \A a, b \in Candidates(i) : Merit(i, a)[4] = Merit(i, b)[4] => a = b
         /\ \A a \in Candidates(i) : a # labels[i] => Merit(i, a)[1] \in 0 .. 1 /\ Merit(i, a)[2] \in Nat \ {0}
  <1>1. PICK l \in Nat : l = Len(rows[i])
    BY PositionFacts
  <1>2. PICK m \in Nat : m = n
    BY ProblemFacts
  <1>3. \A T \in SUBSET (1 .. l) : IsFiniteSet(T) /\ Cardinality(T) \in 0 .. l
    BY <1>1, PositionFacts
  <1>4. \A a : At(i, a) \in SUBSET (1 .. l) /\ AggSize(a) \in 0 .. m
    BY <1>1, <1>2, PositionFacts
  <1>5. ASSUME NEW a \in Candidates(i), a # labels[i]
        PROVE  /\ At(i, a) # {} /\ MinStatus(At(i, a)) \in 1 .. l /\ MinStatus(At(i, a)) \in At(i, a)
               /\ Cardinality(At(i, a)) \in 1 .. l
    <2>1. PICK k \in Counted(i) : AggAt(i, k) = a
      BY <1>5 DEF Candidates
    <2>2. k \in At(i, a)
      BY <2>1 DEF At
    <2>3. PICK T : T = At(i, a)
      OBVIOUS
    <2>4. T \in SUBSET (1 .. l) /\ T # {} /\ T \in SUBSET Nat
      BY <1>4, <2>2, <2>3
    <2>5. MinStatus(T) \in T
      BY <2>4, LeastStatus
    <2>6. IsFiniteSet(T) /\ Cardinality(T) \in 0 .. l /\ Cardinality(T) # 0
      BY <1>3, <2>4, FS_EmptySet
    <2> QED
      BY <2>3, <2>4, <2>5, <2>6
  <1>6. Connectivity(i) \in 0 .. l
    <2>1. DOMAIN rows[i] = 1 .. l
      BY <1>1, PositionFacts
    <2>2. {k \in DOMAIN rows[i] : rows[i][k] \in V \ {i} /\ labels[rows[i][k]] = labels[i]} \in SUBSET (1 .. l)
      BY <2>1
    <2>3. Cardinality({k \in DOMAIN rows[i] : rows[i][k] \in V \ {i} /\ labels[rows[i][k]] = labels[i]}) \in 0 .. l
      BY <1>3, <2>2
    <2> QED
      BY <2>3 DEF Connectivity
  \* its own aggregate
  <1>7. /\ Merit(i, labels[i])[1] \in 0 .. 1 /\ Merit(i, labels[i])[2] \in 0 .. l
        /\ Merit(i, labels[i])[3] \in -m .. 0 /\ Merit(i, labels[i])[4] = 0
    <2>1. Merit(i, labels[i]) = <<IF labels[i] >= 0 THEN 1 ELSE 0, Connectivity(i),
                                  IF labels[i] >= 0 THEN - AggSize(labels[i]) ELSE 0, 0>>
      BY DEF Merit
    <2>2. - AggSize(labels[i]) \in -m .. 0
      <3>1. AggSize(labels[i]) \in 0 .. m
        BY <1>4
      <3> QED
        BY <3>1
    <2> QED
      BY <1>6, <2>1, <2>2
  <1>8. ASSUME NEW a \in Candidates(i), a # labels[i]
        PROVE  /\ Merit(i, a)[1] \in 0 .. 1 /\ Merit(i, a)[2] = Cardinality(At(i, a))
               /\ Merit(i, a)[3] = - AggSize(a) /\ Merit(i, a)[4] = - MinStatus(At(i, a))
    <2>1. Merit(i, a) = <<IF \E k \in At(i, a) : rows[i][k] \in roots THEN 1 ELSE 0,
                          Cardinality(At(i, a)), - AggSize(a), - MinStatus(At(i, a))>>
      BY <1>8 DEF Merit
    <2> QED
      BY <2>1
  <1>9. ASSUME NEW a \in Candidates(i), NEW d \in 1 .. 4
        PROVE  Merit(i, a)[d] \in -(l + m + 1) .. (l + m + 1)
    <2>1. d = 1 \/ d = 2 \/ d = 3 \/ d = 4
      OBVIOUS
    <2>2. CASE a = labels[i]
      BY <1>7, <2>1, <2>2
    <2>3. CASE a # labels[i]
      <3>1. PICK x \in 1 .. l, y \in 0 .. m, z \in 1 .. l :
              x = Cardinality(At(i, a)) /\ y = AggSize(a) /\ z = MinStatus(At(i, a))
        BY <1>4, <1>5, <2>3
      <3>2. Merit(i, a)[1] \in 0 .. 1 /\ Merit(i, a)[2] = x /\ Merit(i, a)[3] = -y /\ Merit(i, a)[4] = -z
        BY <1>8, <2>3, <3>1
      <3> QED
        BY <2>1, <3>1, <3>2
    <2> QED
      BY <2>2, <2>3
  <1>10. \E k \in Nat : \A a \in Candidates(i) : \A d \in 1 .. 4 : Merit(i, a)[d] \in -k .. k
    <2>1. l + m + 1 \in Nat
      OBVIOUS
    <2> QED
      BY <1>9, <2>1
  <1>11. ASSUME NEW a \in Candidates(i), NEW b \in Candidates(i), Merit(i, a)[4] = Merit(i, b)[4]
         PROVE  a = b
    <2>1. ASSUME NEW c \in Candidates(i), c # labels[i] PROVE Merit(i, c)[4] # 0 /\ Merit(i, c)[4] \in Int
      <3>1. PICK z \in 1 .. l : z = MinStatus(At(i, c))
        BY <1>5, <2>1
      <3>2. Merit(i, c)[4] = -z
        BY <1>8, <2>1, <3>1
      <3> QED
        BY <3>2
    <2>2. CASE a = labels[i] \/ b = labels[i]
      BY <1>7, <1>11, <2>1, <2>2
    <2>3. CASE a # labels[i] /\ b # labels[i]
      <3>1. PICK y \in 1 .. l, z \in 1 .. l : /\ y = MinStatus(At(i, a)) /\ y \in At(i, a)
                                              /\ z = MinStatus(At(i, b)) /\ z \in At(i, b)
        BY <1>5, <2>3
      <3>2. -y = -z
        BY <1>8, <1>11, <2>3, <3>1
      <3>3. y = z
        BY <3>2
      <3> QED
        BY <3>1, <3>3 DEF At
    <2> QED
      BY <2>2, <2>3
  <1>12. \A a \in Candidates(i) : a # labels[i] => Merit(i, a)[1] \in 0 .. 1 /\ Merit(i, a)[2] \in Nat \ {0}
    BY <1>5, <1>8
  <1> QED
    BY <1>10, <1>11, <1>12

\* A vertex next to an aggregate takes one of those around it, whatever is tracked.
LEMMA BestAggFacts ==
  ASSUME TypeOK, NEW i \in V, i \notin roots, \E c \in Near(i) : labels[c] # -1
  PROVE  BestAgg(i) # -1 /\ \E v \in Near(i) : labels[v] = BestAgg(i)
  <1>1. PICK C, f, own : C = Candidates(i) /\ f = [a \in Candidates(i) |-> Merit(i, a)] /\ own = labels[i]
    OBVIOUS
  <1>2. PICK k \in Nat : \A a \in C : \A d \in 1 .. 4 : f[a][d] \in -k .. k
    BY <1>1, MeritFacts
  <1>3. /\ \A a, b \in C : f[a][4] = f[b][4] => a = b
        /\ \A a \in C : a # own => f[a][1] \in 0 .. 1 /\ f[a][2] \in Nat \ {0}
        /\ C # {} /\ own \in C
    BY <1>1, MeritFacts DEF Candidates
  <1>4. \E a \in C : \A b \in C : b # a => Beats(f[a], f[b])
    BY <1>2, <1>3, OneBeatsTheOthers
  <1>5. BestAgg(i) \in C /\ \A b \in C : b # BestAgg(i) => Beats(f[BestAgg(i)], f[b])
    <2>1. BestAgg(i) = CHOOSE a \in C : \A b \in C : b # a => Beats(Merit(i, a), Merit(i, b))
      BY <1>1 DEF BestAgg, Candidates
    <2>2. \A a \in C : f[a] = Merit(i, a)
      BY <1>1
    <2>3. \E a \in C : \A b \in C : b # a => Beats(Merit(i, a), Merit(i, b))
      BY <1>4, <2>2
    <2>4. PICK best : best = BestAgg(i)
      OBVIOUS
    <2>5. best \in C /\ \A b \in C : b # best => Beats(Merit(i, best), Merit(i, b))
      BY <2>1, <2>3, <2>4
    <2> QED
      BY <2>2, <2>4, <2>5
  <1>6. ASSUME NEW a \in C PROVE \E v \in Near(i) : labels[v] = a
    <2>1. CASE a = labels[i]
      BY <2>1, ProblemFacts
    <2>2. CASE a # labels[i]
      <3>1. PICK j \in Counted(i) : a = AggAt(i, j)
        BY <1>1, <2>2 DEF Candidates
      <3> QED
        BY <3>1, PositionFacts
    <2> QED
      BY <2>1, <2>2
  <1>7. ASSUME own = -1 PROVE \E b \in C : b # -1
    <2>1. PICK c \in Near(i) : labels[c] # -1
      OBVIOUS
    <2>2. c # i /\ c \in V
      BY <1>1, <1>7, <2>1, ProblemFacts
    <2>3. PICK j \in DOMAIN rows[i] : rows[i][j] = c
      BY <2>1, <2>2 DEF Near
    <2>4. j \in Foreign(i)
      BY <1>1, <1>7, <2>1, <2>2, <2>3 DEF Foreign
    <2>5. PICK F : F = Foreign(i)
      OBVIOUS
    <2>6. F \in SUBSET Nat /\ F # {}
      <3>1. DOMAIN rows[i] \subseteq Nat
        BY PositionFacts
      <3> QED
        BY <2>4, <2>5, <3>1 DEF Foreign
    <2>7. PICK least \in F : \A x \in F : least <= x
      BY <2>6, LeastOf
    <2>8. {x \in Foreign(i) : x <= least} = {least}
      BY <2>5, <2>6, <2>7
    <2>9. {AggAt(i, x) : x \in {x \in Foreign(i) : x <= least}} = {AggAt(i, least)}
      BY <2>8
    <2>10. Cardinality({AggAt(i, x) : x \in {x \in Foreign(i) : x <= least}}) <= MaxTracked
      <3>1. 1 <= MaxTracked
        BY TrackedAssumption
      <3>2. Cardinality({AggAt(i, least)}) = 1
        BY FS_Singleton
      <3> QED
        BY <2>9, <3>1, <3>2
    <2>11. least \in Counted(i)
      BY <2>5, <2>7, <2>10 DEF Counted
    <2> QED
      <3>1. AggAt(i, least) # -1
        BY <2>11, PositionFacts
      <3>2. AggAt(i, least) \in Candidates(i)
        BY <2>11 DEF Candidates
      <3> QED
        BY <1>1, <3>1, <3>2
  <1>8. BestAgg(i) # -1
    <2> SUFFICES ASSUME BestAgg(i) = -1 PROVE FALSE
      OBVIOUS
    <2>1. own = -1
      <3>1. \A j \in Counted(i) : AggAt(i, j) # -1
        BY PositionFacts
      <3> QED
        BY <1>1, <1>5, <3>1 DEF Candidates
    <2>2. PICK b \in C : b # -1
      BY <1>7, <2>1
    <2>3. f[-1] = <<0, 0, 0, 0>>
      <3>1. Merit(i, -1) = <<0, 0, 0, 0>>
        BY <1>1, <2>1 DEF Merit, Connectivity
      <3> QED
        BY <1>1, <1>3, <2>1, <3>1
    <2>4. Beats(<<0, 0, 0, 0>>, f[b])
      BY <1>5, <2>2, <2>3
    <2>5. PICK x \in 0 .. 1, y \in Nat \ {0} : f[b][1] = x /\ f[b][2] = y
      BY <1>3, <2>1, <2>2
    <2>6. PICK d \in 1 .. 4 : <<0, 0, 0, 0>>[d] > f[b][d] /\ \A e \in 1 .. d - 1 : <<0, 0, 0, 0>>[e] = f[b][e]
      BY <2>4 DEF Beats
    <2>7. d # 1
      BY <2>5, <2>6
    <2>8. d # 2
      BY <2>5, <2>6
    <2>9. 2 \in 1 .. d - 1
      BY <2>7, <2>8
    <2> QED
      BY <2>5, <2>6, <2>9
  <1> QED
    BY <1>5, <1>6, <1>8

\* The vertices move by what the aggregates were before: each to one around a root
\* that a vertex next to it was next to.
LEMMA AggregateLeftoversStep ==
  ASSUME IInv, AggregateLeftovers
  PROVE  IInv'
  <1> USE DEF AggregateLeftovers, problem
  <1>1. /\ UNCHANGED <<api, rows, rowStatus, colStatus, rowWork, colWork, colUpdate, roots, numAggs>>
        /\ ph = "phase3" /\ ph' = "done" /\ labels' = [u \in V |-> BestAgg(u)]
    OBVIOUS
  <1>2. TypeOK /\ PhaseInv /\ AggInv /\ RootsInv /\ numAggs > 0 /\ api \in {"COARSEN", "AGGREGATE"}
    BY <1>1 DEF IInv, AggInv, PhaseInv
  <1>3. /\ V' = V /\ n' = n /\ (\A u : Near(u)' = Near(u)) /\ \A u, v : WithinTwo(u, v)' <=> WithinTwo(u, v)
    BY <1>1, SameGraph
  <1>4. /\ \A u \in V : labels[u] # -1 => \E r \in roots : labels[r] = labels[u] /\ u \in Near(r)
        /\ \A u \in V : \E c \in Near(u) : labels[c] # -1
    BY <1>1, <1>2 DEF AggInv
  <1>5. roots \subseteq V /\ \A u \in V : Near(u) \subseteq V /\ \A v \in Near(u) : u \in Near(v)
    BY <1>2, ProblemFacts DEF TypeOK
  <1>6. \A r \in roots : labels'[r] = labels[r]
    BY <1>1, <1>5 DEF BestAgg
  <1>7. ASSUME NEW u \in V
        PROVE  labels'[u] # -1 /\ \E v \in Near(u) : labels[v] = labels'[u]
    <2>1. CASE u \in roots
      BY <1>2, <1>6, <2>1, ProblemFacts DEF RootsInv
    <2>2. CASE u \notin roots
      BY <1>1, <1>2, <1>4, <2>2, BestAggFacts
    <2> QED
      BY <2>1, <2>2
  <1>8. \A u \in V : \E r \in roots : labels'[r] = labels'[u] /\ WithinTwo(r, u)
    <2> SUFFICES ASSUME NEW u \in V PROVE \E r \in roots : labels'[r] = labels'[u] /\ WithinTwo(r, u)
      OBVIOUS
    <2>1. PICK v \in Near(u) : labels[v] = labels'[u] /\ labels'[u] # -1
      BY <1>7
    <2>2. v \in V /\ u \in Near(v)
      BY <1>5
    <2>3. PICK r \in roots : labels[r] = labels[v] /\ v \in Near(r)
      BY <1>4, <2>1, <2>2
    <2>4. WithinTwo(r, u)
      BY <2>2, <2>3 DEF WithinTwo
    <2> QED
      BY <1>6, <2>1, <2>3, <2>4
  <1>9. RootsInv'
    <2>1. \A u \in V' : labels'[u] \in {-1} \union 0 .. numAggs' - 1
      <3>1. \A u \in V : labels[u] \in {-1} \union 0 .. numAggs - 1
        BY <1>2 DEF RootsInv
      <3>2. \A u \in V : \E v \in V : labels'[u] = labels[v]
        BY <1>5, <1>7
      <3> QED
        BY <1>1, <1>3, <3>1, <3>2
    <2> QED
      BY <1>1, <1>2, <1>6, <2>1 DEF RootsInv
  <1>10. AggInv'
    BY <1>1, <1>3, <1>8, <1>9 DEF AggInv
  <1>11. TypeOK'
    <2>1. labels' \in [V -> {-1} \union 0 .. n - 1]
      <3>1. \A u \in V : labels[u] \in {-1} \union 0 .. n - 1
        BY <1>2 DEF TypeOK
      <3>2. \A u \in V : \E v \in V : labels'[u] = labels[v]
        BY <1>5, <1>7
      <3>3. \A u \in V : labels'[u] \in {-1} \union 0 .. n - 1
        BY <3>1, <3>2
      <3> QED
        BY <1>1, <3>3
    <2>2. OUT_SET' = OUT_SET
      BY DEF OUT_SET
    <2> QED
      BY <1>1, <1>2, <1>3, <2>1, <2>2 DEF TypeOK
  <1>12. PhaseInv' /\ MISInv'
    BY <1>1, <1>2 DEF PhaseInv, MISInv, FastPhases, QualityPhases, Listed
  <1> QED
    BY <1>10, <1>11, <1>12 DEF IInv

-----------------------------------------------------------------------------

LEMMA StutterStep ==
  ASSUME IInv, UNCHANGED vars
  PROVE  IInv'
  <1> USE DEF vars
  <1>1. UNCHANGED <<api, rows, rowStatus, colStatus, rowWork, colWork, colUpdate, labels, roots, numAggs, ph>>
    OBVIOUS
  <1>2. /\ V' = V /\ n' = n /\ (\A u : Near(u)' = Near(u)) /\ \A u, v : WithinTwo(u, v)' <=> WithinTwo(u, v)
        /\ OUT_SET' = OUT_SET /\ IN_SET' = IN_SET
    BY <1>1, SameGraph DEF OUT_SET, IN_SET
  <1>3. Asked' = Asked /\ InSet' = InSet
    BY <1>1, <1>2 DEF Asked, InSet
  <1>4. TypeOK /\ PhaseInv /\ MISInv /\ AggInv
    BY DEF IInv
  <1>5. TypeOK' /\ PhaseInv'
    BY <1>1, <1>2, <1>4 DEF TypeOK, PhaseInv
  <1>6. AggInv'
    BY <1>1, <1>2, <1>4 DEF AggInv, RootsInv
  <1>7. MISInv'
    <2> SUFFICES ASSUME ph \notin {"phase3", "done"} PROVE RowInv' /\ SetInv' /\ ColInv'
      BY <1>1 DEF MISInv
    <2>1. RowInv /\ SetInv /\ ColInv
      BY <1>4 DEF MISInv
    <2>2. RowInv'
      BY <1>1, <1>2, <1>3, <2>1 DEF RowInv, Decided
    <2>3. SetInv'
      BY <1>1, <1>2, <1>3, <2>1 DEF SetInv, Dominated
    <2>4. \A c \in V : ColStatus(c)' = ColStatus(c) /\ (Closed(c)' <=> Closed(c))
      BY <1>1, <1>2 DEF ColStatus, Closed
    <2>5. ColInv'
      BY <1>1, <1>2, <2>1, <2>4 DEF ColInv
    <2> QED
      BY <2>2, <2>3, <2>5
  <1> QED
    BY <1>5, <1>6, <1>7 DEF IInv

\* The worklists, the columns and the aggregates agree in every state of every call.
THEOREM RoundsInvariance == Spec => []IInv
  <1>1. IInv /\ [Next]_vars => IInv'
    <2> SUFFICES ASSUME IInv, [Next]_vars PROVE IInv'
      OBVIOUS
    <2>1. CASE Construct
      BY <2>1, ConstructStep
    <2>2. CASE InitColStatus
      BY <2>2, InitColStatusStep
    <2>3. CASE Iterate
      BY <2>3, IterateStep
    <2>4. CASE RefreshMarked
      BY <2>4, RefreshMarkedStep
    <2>5. CASE UpdateWorklist
      BY <2>5, UpdateWorklistStep
    <2>6. CASE RefreshRowStatus
      BY <2>6, RefreshRowStatusStep
    <2>7. CASE RefreshColStatus
      BY <2>7, RefreshColStatusStep
    <2>8. CASE DecideSet
      BY <2>8, DecideSetStep
    <2>9. CASE CompactRowWork
      BY <2>9, CompactRowWorkStep
    <2>10. CASE CompactColWork
      BY <2>10, CompactColWorkStep
    <2>11. CASE ListSet
      BY <2>11, ListSetStep
    <2>12. CASE CreatePrimaryAggregates
      BY <2>12, CreatePrimaryAggregatesStep
    <2>13. CASE CreateSecondaryAggregates
      BY <2>13, CreateSecondaryAggregatesStep
    <2>14. CASE AggregateLeftovers
      BY <2>14, AggregateLeftoversStep
    <2>15. CASE Terminated
      BY <2>15, StutterStep DEF Terminated
    <2>16. CASE UNCHANGED vars
      BY <2>16, StutterStep
    <2> QED
      BY <2>1, <2>2, <2>3, <2>4, <2>5, <2>6, <2>7, <2>8, <2>9, <2>10, <2>11, <2>12, <2>13,
         <2>14, <2>15, <2>16 DEF Next
  <1> QED
    BY <1>1, InitOK, PTL DEF Spec

\* On every graph and for every width, hash and degree range the rows that are
\* still compared have different statuses, none of which reads as a decision.
THEOREM StatusesStayApart == Spec => []StatusesApart
  <1>1. IInv => StatusesApart
    <2> SUFFICES ASSUME IInv,
                        ph \in {"initCol", "iterate", "refreshCol", "decide", "compactCol"},
                        NEW u \in rowWork, NEW v \in rowWork
                 PROVE  /\ IN_SET < rowStatus[u] /\ rowStatus[u] < OUT_SET
                        /\ rowStatus[u] = rowStatus[v] => u = v
      BY DEF StatusesApart
    <2>1. TypeOK /\ RowInv
      BY DEF IInv, MISInv
    <2>2. ~ Decided(rowStatus[u]) /\ (rowStatus[u] = rowStatus[v] => u = v)
      BY <2>1 DEF RowInv
    <2>3. rowStatus[u] \in 0 .. OUT_SET
      BY <2>1 DEF TypeOK
    <2>4. OUT_SET \in Nat
      BY <2>1, StatusFacts
    <2> QED
      BY <2>2, <2>3, <2>4 DEF Decided, IN_SET
  <1> QED
    BY <1>1, RoundsInvariance, PTL

\* FAST and QUALITY list a distance-2 maximal independent set of the vertices they
\* are asked for, on every symmetric graph and with every hash.
THEOREM ListIsMaximalIndependent == Spec => []DistanceTwoMIS
  <1>1. IInv => DistanceTwoMIS
    <2> SUFFICES ASSUME IInv, ph = "list"
                 PROVE  /\ InSet \subseteq Asked
                        /\ \A u, v \in InSet : WithinTwo(u, v) => u = v
                        /\ \A u \in Asked : \E v \in InSet : WithinTwo(u, v)
      BY DEF DistanceTwoMIS, Asked
    <2>1. TypeOK /\ RowInv /\ SetInv /\ rowWork = {}
      BY DEF IInv, MISInv, PhaseInv, Listed
    <2>2. InSet \subseteq Asked
      BY <2>1, StatusFacts DEF InSet, RowInv
    <2>3. ASSUME NEW u \in Asked PROVE \E v \in InSet : WithinTwo(u, v)
      <3>1. u \in V /\ (rowStatus[u] = IN_SET \/ rowStatus[u] = OUT_SET)
        BY <2>1 DEF RowInv, Decided, Asked
      <3>2. CASE rowStatus[u] = IN_SET
        BY <2>1, <3>1, <3>2, TwoHops DEF InSet
      <3>3. CASE rowStatus[u] = OUT_SET
        BY <2>1, <3>3 DEF SetInv, Dominated
      <3> QED
        BY <3>1, <3>2, <3>3
    <2> QED
      BY <2>1, <2>2, <2>3 DEF SetInv
  <1> QED
    BY <1>1, RoundsInvariance, PTL

\* No round is lost: the row with the least status comes in or drops out.
THEOREM RoundsDecide == Spec => EveryRoundDecides
  <1>1. IInv /\ [Next]_vars => [(ph \in {"compactRow", "updateWork"} /\ rowWork # {}) => (rowWork' # rowWork)]_vars
    <2> SUFFICES ASSUME IInv, Next, ph \in {"compactRow", "updateWork"}, rowWork # {}
                 PROVE  rowWork' # rowWork
      OBVIOUS
    <2>1. RowInv
      BY DEF IInv, MISInv
    <2>2. PICK u \in rowWork : Decided(rowStatus[u])
      BY <2>1 DEF RowInv
    <2>3. UpdateWorklist \/ CompactRowWork
      BY DEF Next, Construct, InitColStatus, Iterate, RefreshMarked, RefreshRowStatus, RefreshColStatus,
             DecideSet, CompactColWork, ListSet, CreatePrimaryAggregates, CreateSecondaryAggregates,
             AggregateLeftovers, Terminated
    <2>4. u \notin rowWork'
      BY <2>2, <2>3 DEF UpdateWorklist, CompactRowWork
    <2> QED
      BY <2>4
  <1> QED
    BY <1>1, RoundsInvariance, PTL DEF Spec, EveryRoundDecides

\* Aggregation covers the graph with aggregates of one root each, within two hops.
THEOREM AggregatesCover == Spec => []AggregatesAroundRoots
  <1>1. IInv => AggregatesAroundRoots
    <2> SUFFICES ASSUME IInv, ph = "done", api \in {"COARSEN", "AGGREGATE"}
                 PROVE  /\ \A u \in V : labels[u] \in 0 .. numAggs - 1
                        /\ \A a \in 0 .. numAggs - 1 :
                             \E r \in roots : {s \in roots : labels[s] = a} = {r}
                                              /\ \A u \in V : labels[u] = a => WithinTwo(r, u)
      BY DEF AggregatesAroundRoots
    <2>1. /\ numAggs > 0 /\ RootsInv /\ roots \subseteq V
          /\ \A u \in V : \E r \in roots : labels[r] = labels[u] /\ WithinTwo(r, u)
      BY DEF IInv, PhaseInv, AggInv, TypeOK
    <2>2. \A u \in V : labels[u] \in 0 .. numAggs - 1
      <3>1. \A u \in V : labels[u] \in {-1} \union 0 .. numAggs - 1 /\ labels[u] # -1
        BY <2>1 DEF RootsInv
      <3> QED
        BY <3>1
    <2>3. ASSUME NEW a \in 0 .. numAggs - 1
          PROVE  \E r \in roots : {s \in roots : labels[s] = a} = {r}
                                  /\ \A u \in V : labels[u] = a => WithinTwo(r, u)
      <3>1. PICK r \in roots : labels[r] = a
        BY <2>1 DEF RootsInv
      <3>2. \A s \in roots : labels[s] = a => s = r
        BY <2>1, <3>1 DEF RootsInv
      <3>3. \A u \in V : labels[u] = a => WithinTwo(r, u)
        BY <2>1, <3>2
      <3> QED
        BY <3>1, <3>2, <3>3
    <2> QED
      BY <2>2, <2>3
  <1> QED
    BY <1>1, RoundsInvariance, PTL

=============================================================================

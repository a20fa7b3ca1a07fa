---------------------- MODULE SpgemmTeamNumeric_proofs ----------------------
(***************************************************************************)
(* Proofs about the numeric kernels with open addressing, for the build    *)
(* that loads keys[trial] once per trial: for all rows, all values, all    *)
(* sizes of the tables and of the team, the row of C is exact and the      *)
(* chunk goes back clean.                                                  *)
(*                                                                         *)
(* The first part is about one row R of products and one table K of keys   *)
(* with its values W; the second gives the inductive invariant of the team *)
(* and shows that every step keeps it.                                     *)
(***************************************************************************)
EXTENDS SpgemmTeamNumeric, FiniteSetTheorems, WellFoundedInduction, TLAPS

\* A set of numbers that is not empty has a least, and one up to n a greatest.
LEMMA LeastOf ==
  ASSUME NEW S \in SUBSET Nat, S # {}
  PROVE  \E b \in S : \A c \in S : b <= c
  <1> DEFINE R == OpToRel(<, Nat)
  <1>1. \E b \in S : \A c \in S : ~ (<<c, b>> \in R)
    <2>1. IsWellFoundedOn(R, Nat)
      BY NatLessThanWellFounded
    <2> HIDE DEF R
    <2> QED
      BY <2>1, WFMin
  <1>2. \A b, c \in Nat : <<c, b>> \in R <=> c < b
    BY DEF OpToRel
  <1> HIDE DEF R
  <1>3. PICK b \in S : \A c \in S : ~ (<<c, b>> \in R)
    BY <1>1
  <1>4. \A c \in S : b \in Nat /\ c \in Nat /\ ~ (c < b)
    BY <1>2, <1>3
  <1> QED
    BY <1>4

\* The place of x among the members of a set of numbers.
CountBelow(S, x) == Cardinality({y \in S : y < x})

\* The ranks of the members of a set are the numbers below its size, one each.
LEMMA CountBelowFacts ==
  ASSUME NEW S \in SUBSET Nat, IsFiniteSet(S)
  PROVE  /\ Cardinality(S) \in Nat
         /\ \A u \in S : CountBelow(S, u) \in 0 .. Cardinality(S) - 1
         /\ \A u, v \in S : CountBelow(S, u) = CountBelow(S, v) => u = v
         /\ \A k \in 0 .. Cardinality(S) - 1 : \E u \in S : CountBelow(S, u) = k
  <1> DEFINE Below(u) == {y \in S : y < u}
             m == Cardinality(S)
             f == [u \in S |-> CountBelow(S, u)]
  <1>1. m \in Nat
    BY FS_CardinalityType
  <1>2. \A u \in S : IsFiniteSet(Below(u)) /\ Cardinality(Below(u)) \in Nat /\ CountBelow(S, u) = Cardinality(Below(u))
    <2> SUFFICES ASSUME NEW u \in S
                 PROVE  /\ IsFiniteSet(Below(u)) /\ Cardinality(Below(u)) \in Nat
                        /\ CountBelow(S, u) = Cardinality(Below(u))
      OBVIOUS
    <2>1. Below(u) \in SUBSET S
      OBVIOUS
    <2>2. CountBelow(S, u) = Cardinality(Below(u))
      BY DEF CountBelow
    <2> HIDE DEF Below
    <2> QED
      BY <2>1, <2>2, FS_Subset, FS_CardinalityType
  <1>3. ASSUME NEW u \in S, NEW T \in SUBSET S, Below(u) \subseteq T, u \in T
        PROVE  Cardinality(Below(u)) + 1 <= Cardinality(T)
    <2>1. u \notin Below(u) /\ Below(u) \union {u} \in SUBSET T
      BY <1>3
    <2>2. IsFiniteSet(T)
      BY FS_Subset
    <2> HIDE DEF Below
    <2>3. Cardinality(Below(u) \union {u}) = Cardinality(Below(u)) + 1
      BY <1>2, <2>1, FS_AddElement
    <2>4. Cardinality(Below(u) \union {u}) <= Cardinality(T)
      BY <2>1, <2>2, FS_Subset
    <2> QED
      BY <2>3, <2>4
  <1>4. \A u \in S : CountBelow(S, u) \in 0 .. m - 1
    <2> SUFFICES ASSUME NEW u \in S PROVE CountBelow(S, u) \in 0 .. m - 1
      OBVIOUS
    <2>1. Cardinality(Below(u)) + 1 <= m
      <3>1. Below(u) \subseteq S
        OBVIOUS
      <3> HIDE DEF Below
      <3> QED
        BY <1>3, <3>1
    <2>2. Cardinality(Below(u)) \in Nat /\ CountBelow(S, u) = Cardinality(Below(u))
      BY <1>2
    <2> HIDE DEF Below, m
    <2> QED
      BY <1>1, <2>1, <2>2
  <1>5. ASSUME NEW u \in S, NEW v \in S, u < v PROVE CountBelow(S, u) < CountBelow(S, v)
    <2>1. Below(v) \in SUBSET S /\ Below(u) \subseteq Below(v) /\ u \in Below(v)
      <3>1. \A x \in S : x < u => x < v
        <4>1. S \subseteq Int
          OBVIOUS
        <4> QED
          BY <1>5, <4>1
      <3> QED
        BY <1>5, <3>1
    <2>2. Cardinality(Below(u)) + 1 <= Cardinality(Below(v))
      <3> HIDE DEF Below
      <3> QED
        BY <1>3, <2>1
    <2>3. /\ Cardinality(Below(u)) \in Nat /\ CountBelow(S, u) = Cardinality(Below(u))
          /\ Cardinality(Below(v)) \in Nat /\ CountBelow(S, v) = Cardinality(Below(v))
      BY <1>2
    <2> HIDE DEF Below
    <2> QED
      BY <2>2, <2>3
  <1>6. \A u, v \in S : CountBelow(S, u) = CountBelow(S, v) => u = v
    <2> SUFFICES ASSUME NEW u \in S, NEW v \in S, CountBelow(S, u) = CountBelow(S, v) PROVE u = v
      OBVIOUS
    <2>1. u < v \/ v < u \/ u = v
      OBVIOUS
    <2>2. CountBelow(S, u) \in Int /\ CountBelow(S, v) \in Int
      BY <1>4
    <2> QED
      BY <1>5, <2>1, <2>2
  <1>7. \A k \in 0 .. m - 1 : \E u \in S : CountBelow(S, u) = k
    <2> DEFINE T == 0 .. m - 1
    <2>1. f \in Injection(S, T)
      BY <1>4, <1>6 DEF Injection, IsInjective
    <2>2. IsFiniteSet(T) /\ Cardinality(T) = Cardinality(S)
      <3>1. 0 \in Int /\ m - 1 \in Int
        BY <1>1
      <3>2. Cardinality(T) = IF 0 > m - 1 THEN 0 ELSE m - 1 - 0 + 1
        BY <3>1, FS_Interval
      <3>3. Cardinality(T) = m
        <4> HIDE DEF m
        <4> QED
          BY <1>1, <3>2
      <3> QED
        BY <3>1, <3>3, FS_Interval
    <2>3. f \in Surjection(S, T)
      <3> HIDE DEF f, T
      <3> QED
        BY <2>1, <2>2, FS_Injection
    <2> QED
      BY <2>3 DEF Surjection
  <1> QED
    BY <1>1, <1>4, <1>6, <1>7

\* A function that is injective on a set gives as many values as the set has members.
LEMMA ImageSize ==
  ASSUME NEW S, IsFiniteSet(S), NEW f, \A x, y \in S : f[x] = f[y] => x = y
  PROVE  IsFiniteSet({f[x] : x \in S}) /\ Cardinality({f[x] : x \in S}) = Cardinality(S)
  <1> DEFINE T == {f[x] : x \in S}
             g == [x \in S |-> f[x]]
  <1>1. g \in Surjection(S, T) /\ g \in Injection(S, T)
    BY DEF Surjection, Injection, IsInjective
  <1> HIDE DEF T, g
  <1>2. IsFiniteSet(T) /\ Cardinality(T) = Cardinality(S)
    BY <1>1, FS_Surjection
  <1> QED
    BY <1>2 DEF T

(***************************************************************************)
(* Sums over finite sets, as the community modules define them: a member   *)
(* is chosen, its value is added to the sum of the others.                 *)
(***************************************************************************)
Chosen(s) == CHOOSE x \in s : TRUE

Adds(g, F, S) == g = [s \in SUBSET S |-> IF s = {} THEN 0 ELSE F[Chosen(s)] + g[s \ {Chosen(s)}]]

\* The rule has at most one solution: solutions on two sets agree where both are
\* defined, when the values they add up do.
LEMMA AddsAgree ==
  ASSUME NEW S, NEW T, NEW F, NEW G, NEW g, NEW h, Adds(g, F, S), Adds(h, G, T),
         NEW s, IsFiniteSet(s), s \subseteq S, s \subseteq T, \A x \in s : F[x] = G[x]
  PROVE  g[s] = h[s]
  <1> DEFINE Bad == {r \in SUBSET s : g[r] # h[r]}
             Sizes == {Cardinality(r) : r \in Bad}
  <1>1. SUFFICES ASSUME g[s] # h[s] PROVE FALSE
    OBVIOUS
  <1>2. \A r \in SUBSET s : IsFiniteSet(r) /\ Cardinality(r) \in Nat
    BY FS_Subset, FS_CardinalityType
  <1>3. Sizes \in SUBSET Nat /\ Sizes # {}
    BY <1>1, <1>2
  <1>4. \E b \in Sizes : \A c \in Sizes : b <= c
    <2> HIDE DEF Sizes
    <2> QED
      BY <1>3, LeastOf
  <1>5. PICK r \in Bad : \A q \in Bad : Cardinality(r) <= Cardinality(q)
    BY <1>4
  <1>6. r \in SUBSET s /\ g[r] # h[r]
    OBVIOUS
  <1>7. r # {}
    BY <1>6 DEF Adds
  <1>8. PICK x \in r : x = Chosen(r)
    BY <1>7 DEF Chosen
  <1>9. g[r] = F[x] + g[r \ {x}] /\ h[r] = G[x] + h[r \ {x}] /\ F[x] = G[x]
    BY <1>6, <1>7, <1>8 DEF Adds
  <1>10. r \ {x} \in SUBSET s /\ Cardinality(r \ {x}) = Cardinality(r) - 1 /\ Cardinality(r) \in Nat
    BY <1>2, <1>6, FS_RemoveElement
  <1>11. r \ {x} \notin Bad
    <2> HIDE DEF Bad
    <2> QED
      BY <1>5, <1>10
  <1> QED
    BY <1>6, <1>9, <1>10, <1>11

\* It has a solution: on the sets of one member more, given those of the smaller sets.
LEMMA AddsExists ==
  ASSUME NEW S, IsFiniteSet(S), NEW F
  PROVE  \E g : Adds(g, F, S)
  <1> DEFINE Bad == {r \in SUBSET S : ~ \E g : Adds(g, F, r)}
             Sizes == {Cardinality(r) : r \in Bad}
  <1>1. SUFFICES ASSUME ~ \E g : Adds(g, F, S) PROVE FALSE
    OBVIOUS
  <1>2. \A r \in SUBSET S : IsFiniteSet(r) /\ Cardinality(r) \in Nat
    BY FS_Subset, FS_CardinalityType
  <1>3. Sizes \in SUBSET Nat /\ Sizes # {}
    BY <1>1, <1>2
  <1>4. \E b \in Sizes : \A c \in Sizes : b <= c
    <2> HIDE DEF Sizes
    <2> QED
      BY <1>3, LeastOf
  <1>5. PICK r \in Bad : \A q \in Bad : Cardinality(r) <= Cardinality(q)
    BY <1>4
  <1>6. r \in SUBSET S /\ ~ \E g : Adds(g, F, r)
    OBVIOUS
  <1>7. \A q \in SUBSET r : q # r => \E g : Adds(g, F, q)
    <2> SUFFICES ASSUME NEW q \in SUBSET r, q # r PROVE \E g : Adds(g, F, q)
      OBVIOUS
    <2>1. Cardinality(q) < Cardinality(r)
      BY <1>2, <1>6, FS_Subset
    <2>2. q \notin Bad
      <3> HIDE DEF Bad
      <3> QED
        BY <1>2, <1>5, <1>6, <2>1
    <2> QED
      BY <1>6, <2>2
  <1> DEFINE sol(q) == CHOOSE g : Adds(g, F, q)
             val == [q \in SUBSET r |-> sol(q)[q]]
             g1 == [q \in SUBSET r |-> IF q = {} THEN 0
                                       ELSE F[Chosen(q)] + val[q \ {Chosen(q)}]]
  <1>8. \A q \in SUBSET r : q # r => Adds(sol(q), F, q)
    BY <1>7
  <1>9. ASSUME NEW q \in SUBSET r, q # r PROVE val[q] = g1[q]
    <2>1. PICK h : h = sol(q) /\ Adds(h, F, q)
      BY <1>8, <1>9
    <2>2. val[q] = h[q]
      BY <2>1
    <2>3. CASE q = {}
      BY <2>1, <2>2, <2>3 DEF Adds
    <2>4. CASE q # {}
      <3>1. PICK x \in q : x = Chosen(q)
        BY <2>4 DEF Chosen
      <3>2. PICK p \in SUBSET q : p = q \ {x}
        OBVIOUS
      <3>3. p \in SUBSET r /\ p # r
        BY <3>1, <3>2
      <3>4. PICK f : f = sol(p) /\ Adds(f, F, p)
        BY <1>8, <3>3
      <3>5. f[p] = h[p]
        <4>1. IsFiniteSet(p)
          BY <1>2, <1>6, <3>3
        <4> QED
          BY <2>1, <3>4, <4>1, AddsAgree
      <3>6. h[q] = F[x] + h[p]
        BY <2>1, <2>4, <3>1, <3>2 DEF Adds
      <3>7. g1[q] = F[x] + val[p] /\ val[p] = f[p]
        BY <2>4, <3>1, <3>2, <3>3, <3>4
      <3> QED
        BY <2>2, <3>5, <3>6, <3>7
    <2> QED
      BY <2>3, <2>4
  <1>10. Adds(g1, F, r)
    <2>1. \A q \in SUBSET r : q # {} => /\ q \ {Chosen(q)} \in SUBSET r
                                        /\ q \ {Chosen(q)} # r
      BY DEF Chosen
    <2>2. \A q \in SUBSET r : q # {} => val[q \ {Chosen(q)}] = g1[q \ {Chosen(q)}]
      <3> HIDE DEF val, g1
      <3> QED
        BY <1>9, <2>1
    <2>3. g1 = [q \in SUBSET r |-> IF q = {} THEN 0 ELSE F[Chosen(q)] + g1[q \ {Chosen(q)}]]
      <3>1. PICK v : v = val
        OBVIOUS
      <3>2. PICK g : g = g1
        OBVIOUS
      <3>3. g = [q \in SUBSET r |-> IF q = {} THEN 0 ELSE F[Chosen(q)] + v[q \ {Chosen(q)}]]
        BY <3>1, <3>2
      <3>4. \A q \in SUBSET r : q # {} => v[q \ {Chosen(q)}] = g[q \ {Chosen(q)}]
        BY <2>2, <3>1, <3>2
      <3>5. g = [q \in SUBSET r |-> IF q = {} THEN 0 ELSE F[Chosen(q)] + g[q \ {Chosen(q)}]]
        BY <3>3, <3>4
      <3> HIDE DEF g1
      <3> QED
        BY <3>2, <3>5
    <2> HIDE DEF g1
    <2> QED
      BY <2>3 DEF Adds
  <1> HIDE DEF g1
  <1> QED
    BY <1>6, <1>10

\* The sum of F over S.
Total(F, S) == (CHOOSE g : Adds(g, F, S))[S]

LEMMA TotalSolves ==
  ASSUME NEW S, IsFiniteSet(S), NEW F, NEW T, IsFiniteSet(T), S \subseteq T,
         NEW G, \A x \in S : F[x] = G[x], NEW g, Adds(g, G, T)
  PROVE  Total(F, S) = g[S]
  <1>1. PICK h : h = (CHOOSE f : Adds(f, F, S))
    OBVIOUS
  <1>2. Adds(h, F, S)
    BY <1>1, AddsExists
  <1>3. h[S] = g[S]
    BY <1>2, AddsAgree
  <1> QED
    BY <1>1, <1>3 DEF Total

LEMMA TotalEmpty ==
  ASSUME NEW F
  PROVE  Total(F, {}) = 0
  <1>1. IsFiniteSet({})
    BY FS_EmptySet
  <1>2. PICK g : Adds(g, F, {})
    BY <1>1, AddsExists
  <1>3. Total(F, {}) = g[{}]
    BY <1>1, <1>2, TotalSolves
  <1> QED
    BY <1>2, <1>3 DEF Adds

\* Any member may be the one that is added last.
LEMMA TotalInsert ==
  ASSUME NEW S, IsFiniteSet(S), NEW F, \A x \in S : F[x] \in Int, NEW a \in S
  PROVE  /\ Total(F, S) \in Int /\ Total(F, S \ {a}) \in Int
         /\ Total(F, S) = F[a] + Total(F, S \ {a})
  <1>1. PICK g : Adds(g, F, S)
    BY AddsExists
  <1>2. \A r \in SUBSET S : IsFiniteSet(r) /\ Cardinality(r) \in Nat
    BY FS_Subset, FS_CardinalityType
  <1>3. \A r \in SUBSET S : Total(F, r) = g[r]
    BY <1>1, <1>2, TotalSolves
  <1>4. \A r \in SUBSET S : r # {} => /\ Chosen(r) \in r
                                      /\ g[r] = F[Chosen(r)] + g[r \ {Chosen(r)}]
    BY <1>1 DEF Adds, Chosen
  <1>5. g[{}] = 0
    BY <1>1 DEF Adds
  <1> DEFINE Good(r) == g[r] \in Int /\ \A x \in r : g[r] = F[x] + g[r \ {x}]
             Bad == {r \in SUBSET S : ~ Good(r)}
             Sizes == {Cardinality(r) : r \in Bad}
  <1>6. \A r \in SUBSET S : Good(r)
    <2>1. SUFFICES ASSUME NEW q \in SUBSET S, ~ Good(q) PROVE FALSE
      OBVIOUS
    <2>2. Sizes \in SUBSET Nat /\ Sizes # {}
      <3> HIDE DEF Good
      <3> QED
        BY <1>2, <2>1
    <2>3. \E b \in Sizes : \A c \in Sizes : b <= c
      <3> HIDE DEF Sizes
      <3> QED
        BY <2>2, LeastOf
    <2>4. PICK r \in Bad : \A p \in Bad : Cardinality(r) <= Cardinality(p)
      <3> HIDE DEF Bad
      <3> QED
        BY <2>3
    <2>5. r \in SUBSET S /\ ~ Good(r)
      <3> HIDE DEF Good
      <3> QED
        OBVIOUS
    <2>6. \A x \in r : Good(r \ {x})
      <3> SUFFICES ASSUME NEW x \in r PROVE Good(r \ {x})
        OBVIOUS
      <3>1. r \ {x} \in SUBSET S /\ Cardinality(r \ {x}) = Cardinality(r) - 1 /\ Cardinality(r) \in Nat
        BY <1>2, <2>5, FS_RemoveElement
      <3>2. r \ {x} \notin Bad
        <4> HIDE DEF Bad
        <4> QED
          BY <2>4, <3>1
      <3> HIDE DEF Good
      <3> QED
        BY <3>1, <3>2
    <2>7. r # {}
      BY <1>5, <2>5
    <2>8. PICK y \in r : y = Chosen(r)
      BY <1>4, <2>5, <2>7
    <2>9. g[r] = F[y] + g[r \ {y}] /\ g[r \ {y}] \in Int /\ F[y] \in Int
      BY <1>4, <2>5, <2>6, <2>7, <2>8
    <2>10. ASSUME NEW x \in r, x # y PROVE g[r] = F[x] + g[r \ {x}]
      <3>1. g[r \ {y}] = F[x] + g[(r \ {y}) \ {x}] /\ g[r \ {x}] = F[y] + g[(r \ {x}) \ {y}]
        <4>1. x \in r \ {y} /\ y \in r \ {x}
          BY <2>10
        <4> QED
          BY <2>6, <4>1
      <3>2. PICK p \in SUBSET r : p = (r \ {y}) \ {x}
        OBVIOUS
      <3>3. p = (r \ {x}) \ {y}
        BY <3>2
      <3>4. g[p] \in Int
        <4>1. Cardinality(p) < Cardinality(r)
          BY <1>2, <2>5, <3>2, FS_Subset
        <4>2. p \notin Bad
          <5> HIDE DEF Bad
          <5> QED
            BY <1>2, <2>4, <2>5, <3>2, <4>1
        <4> QED
          BY <2>5, <4>2
      <3>5. F[x] \in Int /\ F[y] \in Int
        BY <2>5
      <3>6. g[r \ {y}] = F[x] + g[p] /\ g[r \ {x}] = F[y] + g[p]
        BY <3>1, <3>2, <3>3
      <3> HIDE DEF Bad, Good
      <3> QED
        BY <2>9, <3>4, <3>5, <3>6
    <2>11. Good(r)
      <3>1. g[r] \in Int
        BY <2>9
      <3>2. \A x \in r : g[r] = F[x] + g[r \ {x}]
        BY <2>8, <2>9, <2>10
      <3> QED
        BY <3>1, <3>2
    <2> HIDE DEF Good
    <2> QED
      BY <2>5, <2>11
  <1>7. S \in SUBSET S /\ S \ {a} \in SUBSET S
    OBVIOUS
  <1>8. g[S] \in Int /\ g[S \ {a}] \in Int /\ g[S] = F[a] + g[S \ {a}]
    BY <1>6, <1>7
  <1> QED
    BY <1>3, <1>7, <1>8

-----------------------------------------------------------------------------

\* the slot that trial m of column k looks at
Place(k, t, m) == (Hash(k, t) + m) % TableSize[t]

IsRow(R) == R \in Seq(Cols \X DOMAIN Val)
ColsIn(R) == {R[m][1] : m \in DOMAIN R}

\* a table of columns, each there once
KeysOnce(R, t, K) ==
  /\ K \in [SlotsOf(t) -> ColsIn(R) \union {init_value}]
  /\ \A s, q \in SlotsOf(t) : K[s] = K[q] /\ K[s] # init_value => s = q

\* a column is never behind an empty slot
Probed(t, K) ==
  \A s, m, n \in SlotsOf(t) :
    K[s] # init_value /\ Place(K[s], t, n) = s /\ m < n => K[Place(K[s], t, m)] # init_value

Has(K, k) == \E s \in DOMAIN K : K[s] = k
ValueIn(K, W, k) == IF Has(K, k) THEN W[CHOOSE s \in DOMAIN K : K[s] = k] ELSE 0

\* trial m of column k is the first that may end at it or at an empty slot
FirstTrial(K, t, k, m) == \A n \in SlotsOf(t) : n < m => K[Place(k, t, n)] \notin {k, init_value}

\* two tables, and the writes of a lane
TwoTables(tb) == tb = [t \in {1, 2} |-> [keys |-> tb[t].keys, vals |-> tb[t].vals]]
KeyWritten(tb, u, s, k, nt) == nt = [tb EXCEPT ![u].keys[s] = k]
ValAdded(tb, u, s, x, nt) == nt = [tb EXCEPT ![u].vals[s] = @ + x]
Put(K, s, k, L) == L = [K EXCEPT ![s] = k]

\* what the products contribute to column k, and the sum over those of D
Share(R, k) == [m \in 1 .. Len(R) |-> IF R[m][1] = k THEN Val[R[m][2]] ELSE 0]
Sum(R, k, D) == Total(Share(R, k), D)

\* lane l has the products l + 1, l + 1 + bs, and so on
bs == Cardinality(Lanes)
Mine(l, m) == \E j \in Nat : m = l + 1 + j * bs

-----------------------------------------------------------------------------
\* Trials go up from the hash, and over the end to the start.
LEMMA PlaceIs ==
  ASSUME NEW t \in {1, 2}, NEW k \in Nat
  PROVE  \E z \in Nat \ {0}, h \in Nat :
           /\ z = TableSize[t] /\ h = Hash(k, t) /\ h < z /\ SlotsOf(t) = 0 .. z - 1
           /\ \A m \in 0 .. z - 1 : Place(k, t, m) = IF h + m < z THEN h + m ELSE h + m - z
  <1>1. PICK z \in Nat \ {0} : z = TableSize[t]
    BY SizeAssumption
  <1>2. PICK h \in 0 .. z - 1 : h = Hash(k, t)
    <2>1. k * 107 \in Nat
      OBVIOUS
    <2>2. (k * 107) % z \in 0 .. z - 1
      BY <1>1, <2>1
    <2> QED
      BY <1>1, <2>2 DEF Hash
  <1>3. \A m \in 0 .. z - 1 : Place(k, t, m) = IF h + m < z THEN h + m ELSE h + m - z
    <2> SUFFICES ASSUME NEW m \in 0 .. z - 1
                 PROVE  Place(k, t, m) = IF h + m < z THEN h + m ELSE h + m - z
      OBVIOUS
    <2>1. Place(k, t, m) = (h + m) % z
      BY <1>1, <1>2 DEF Place
    <2>2. CASE h + m < z
      <3>1. (h + m) % z = h + m
        BY <1>1, <1>2, <2>2
      <3> QED
        BY <2>1, <2>2, <3>1
    <2>3. CASE ~ (h + m < z)
      <3>1. (h + m) % z = h + m - z
        BY <1>1, <1>2, <2>3
      <3> QED
        BY <2>1, <2>3, <3>1
    <2> QED
      BY <2>2, <2>3
  <1>4. SlotsOf(t) = 0 .. z - 1
    BY <1>1 DEF SlotsOf
  <1>5. h \in Nat /\ h < z
    BY <1>1
  <1> QED
    BY <1>1, <1>2, <1>3, <1>4, <1>5

LEMMA PlaceFacts ==
  ASSUME NEW t \in {1, 2}, NEW k \in Nat
  PROVE  /\ \A m \in SlotsOf(t) : Place(k, t, m) \in SlotsOf(t)
         /\ \A m, n \in SlotsOf(t) : Place(k, t, m) = Place(k, t, n) => m = n
         /\ \A s \in SlotsOf(t) : \E m \in SlotsOf(t) : Place(k, t, m) = s
  <1>1. PICK z \in Nat \ {0} :
          \E h \in Nat :
            /\ z = TableSize[t] /\ h = Hash(k, t) /\ h < z /\ SlotsOf(t) = 0 .. z - 1
            /\ \A m \in 0 .. z - 1 : Place(k, t, m) = IF h + m < z THEN h + m ELSE h + m - z
    BY PlaceIs
  <1>2. PICK h \in Nat :
          /\ h < z /\ SlotsOf(t) = 0 .. z - 1
          /\ \A m \in 0 .. z - 1 : Place(k, t, m) = IF h + m < z THEN h + m ELSE h + m - z
    BY <1>1
  <1>3. \A m \in 0 .. z - 1 : Place(k, t, m) = IF h + m < z THEN h + m ELSE h + m - z
    BY <1>2
  <1>4. SlotsOf(t) = 0 .. z - 1 /\ h \in 0 .. z - 1
    BY <1>2
  <1>5. \A m \in SlotsOf(t) : Place(k, t, m) \in SlotsOf(t)
    BY <1>3, <1>4
  <1>6. \A m, n \in SlotsOf(t) : Place(k, t, m) = Place(k, t, n) => m = n
    <2> SUFFICES ASSUME NEW m \in 0 .. z - 1, NEW n \in 0 .. z - 1, Place(k, t, m) = Place(k, t, n)
                 PROVE  m = n
      BY <1>4
    <2>1. (IF h + m < z THEN h + m ELSE h + m - z) = (IF h + n < z THEN h + n ELSE h + n - z)
      BY <1>3
    <2> QED
      BY <1>4, <2>1
  <1>7. ASSUME NEW s \in SlotsOf(t) PROVE \E m \in SlotsOf(t) : Place(k, t, m) = s
    <2>1. CASE s >= h
      <3>1. s - h \in SlotsOf(t) /\ Place(k, t, s - h) = s
        BY <1>3, <1>4, <2>1
      <3> QED
        BY <3>1
    <2>2. CASE s < h
      <3>1. s - h + z \in 0 .. z - 1 /\ ~ (h + (s - h + z) < z) /\ h + (s - h + z) - z = s
        BY <1>4, <2>2
      <3>2. Place(k, t, s - h + z) = s
        BY <1>3, <3>1
      <3> QED
        BY <1>4, <3>1, <3>2
    <2> QED
      BY <1>2, <1>4, <2>1, <2>2
  <1> QED
    BY <1>5, <1>6, <1>7

\* Each product has one lane, and the next product of the lane is bs further on.
LEMMA Strides ==
  /\ bs \in Nat \ {0} /\ Lanes = 0 .. bs - 1
  /\ \A l \in Lanes : Mine(l, l + 1)
  /\ \A l \in Lanes : \A m : Mine(l, m) => m \in Nat /\ Mine(l, m + bs)
  /\ \A l \in Lanes : \A m, n : Mine(l, m) /\ Mine(l, n) /\ m < n => m + bs <= n
  /\ \A l, r \in Lanes : \A m : Mine(l, m) /\ Mine(r, m) => l = r
  /\ \A m \in Nat \ {0} : \E l \in Lanes : Mine(l, m)
  <1>1. /\ bs \in Nat \ {0} /\ Lanes = 0 .. bs - 1
    <2>1. bs \in Nat /\ bs # 0
      BY LanesAssumption, FS_CardinalityType, FS_EmptySet DEF bs
    <2> QED
      BY <2>1, LanesAssumption DEF bs
  <1>2. PICK b \in Nat \ {0} : b = bs
    BY <1>1
  <1>3. \A j \in Nat : j * b \in Nat /\ (j + 1) * b = j * b + b
    BY <1>2
  <1>4. \A i, j \in Nat : i < j => i * b + b <= j * b
    <2> SUFFICES ASSUME NEW i \in Nat, NEW j \in Nat, i < j PROVE i * b + b <= j * b
      OBVIOUS
    <2>1. PICK d \in Nat : d = j - i - 1
      OBVIOUS
    <2>2. d * b >= 0
      BY <1>3
    <2>3. j * b = i * b + b + d * b
      <3>1. j = i + 1 + d
        BY <2>1
      <3>2. (i + 1 + d) * b = i * b + b + d * b
        OBVIOUS
      <3> QED
        BY <3>1, <3>2
    <2>4. i * b \in Nat /\ d * b \in Nat /\ j * b \in Nat
      BY <1>3
    <2> QED
      BY <2>2, <2>3, <2>4
  <1>5. ASSUME NEW l \in Lanes PROVE Mine(l, l + 1)
    <2>1. l \in Nat /\ 0 \in Nat /\ 0 * bs = 0
      BY <1>1
    <2>2. l + 1 = l + 1 + 0 * bs
      BY <2>1
    <2> QED
      BY <2>1, <2>2 DEF Mine
  <1>6. ASSUME NEW l \in Lanes, NEW m, Mine(l, m) PROVE m \in Nat /\ Mine(l, m + bs)
    <2>1. PICK j \in Nat : m = l + 1 + j * b
      BY <1>2, <1>6 DEF Mine
    <2>2. l \in Nat /\ j * b \in Nat
      BY <1>1, <1>3
    <2>3. m + b = l + 1 + (j + 1) * b
      BY <1>3, <2>1, <2>2
    <2>4. j + 1 \in Nat
      OBVIOUS
    <2> QED
      BY <1>2, <2>1, <2>2, <2>3, <2>4 DEF Mine
  <1>7. ASSUME NEW l \in Lanes, NEW m, NEW n, Mine(l, m), Mine(l, n), m < n PROVE m + bs <= n
    <2>1. PICK i \in Nat : m = l + 1 + i * b
      BY <1>2, <1>7 DEF Mine
    <2>2. PICK j \in Nat : n = l + 1 + j * b
      BY <1>2, <1>7 DEF Mine
    <2>3. l \in Nat /\ i * b \in Nat /\ j * b \in Nat
      BY <1>1, <1>3
    <2>4. i < j
      <3>1. CASE j < i
        <4>1. j * b + b <= i * b
          BY <1>4, <3>1
        <4> QED
          BY <1>7, <2>1, <2>2, <2>3, <4>1
      <3>2. CASE i = j
        BY <1>7, <2>1, <2>2, <2>3, <3>2
      <3> QED
        BY <3>1, <3>2
    <2>5. i * b + b <= j * b
      BY <1>4, <2>4
    <2> QED
      BY <1>2, <2>1, <2>2, <2>3, <2>5
  <1>8. ASSUME NEW l \in Lanes, NEW r \in Lanes, NEW m, Mine(l, m), Mine(r, m) PROVE l = r
    <2>1. PICK i \in Nat : m = l + 1 + i * b
      BY <1>2, <1>8 DEF Mine
    <2>2. PICK j \in Nat : m = r + 1 + j * b
      BY <1>2, <1>8 DEF Mine
    <2>3. l \in 0 .. b - 1 /\ r \in 0 .. b - 1 /\ i * b \in Nat /\ j * b \in Nat
      BY <1>1, <1>2, <1>3
    <2>4. CASE i < j
      <3>1. i * b + b <= j * b
        BY <1>4, <2>4
      <3> QED
        BY <2>1, <2>2, <2>3, <3>1
    <2>5. CASE j < i
      <3>1. j * b + b <= i * b
        BY <1>4, <2>5
      <3> QED
        BY <2>1, <2>2, <2>3, <3>1
    <2>6. CASE i = j
      BY <2>1, <2>2, <2>3, <2>6
    <2> QED
      BY <2>4, <2>5, <2>6
  <1>9. \A m \in Nat \ {0} : \E l \in Lanes : Mine(l, m)
    <2> DEFINE Lost == {m \in Nat \ {0} : ~ \E l \in Lanes : Mine(l, m)}
    <2>1. SUFFICES ASSUME Lost # {} PROVE FALSE
      OBVIOUS
    <2>2. Lost \in SUBSET Nat
      OBVIOUS
    <2>3. \E c \in Lost : \A d \in Lost : c <= d
      <3> HIDE DEF Lost
      <3> QED
        BY <2>1, <2>2, LeastOf
    <2>4. PICK m \in Lost : \A d \in Lost : m <= d
      BY <2>3
    <2>5. m \in Nat \ {0} /\ ~ \E l \in Lanes : Mine(l, m)
      OBVIOUS
    <2>6. CASE m <= b
      <3>1. m - 1 \in Lanes
        BY <1>1, <1>2, <2>5, <2>6
      <3>2. Mine(m - 1, (m - 1) + 1)
        BY <1>5, <3>1
      <3>3. (m - 1) + 1 = m
        BY <2>5
      <3> QED
        BY <2>5, <3>1, <3>2, <3>3
    <2>7. CASE m > b
      <3>1. m - b \in Nat \ {0} /\ m - b < m
        BY <1>2, <2>5, <2>7
      <3>2. m - b \notin Lost
        <4> HIDE DEF Lost
        <4> QED
          BY <1>2, <2>4, <2>5, <3>1
      <3>3. PICK l \in Lanes : Mine(l, m - b)
        BY <3>1, <3>2
      <3>4. Mine(l, (m - b) + b)
        BY <1>2, <1>6, <3>3
      <3>5. (m - b) + b = m
        BY <1>2, <2>5
      <3> QED
        BY <2>5, <3>4, <3>5
    <2> QED
      BY <1>2, <2>5, <2>6, <2>7
  <1> QED
    BY <1>1, <1>5, <1>6, <1>7, <1>8, <1>9

-----------------------------------------------------------------------------
LEMMA RowFacts ==
  ASSUME NEW R, IsRow(R)
  PROVE  /\ Len(R) \in Nat /\ DOMAIN R = 1 .. Len(R)
         /\ \A m \in 1 .. Len(R) : /\ R[m][1] \in ColsIn(R) /\ R[m][1] \in Cols
                                   /\ Val[R[m][2]] \in Int
         /\ ColsIn(R) \subseteq Cols /\ ColsIn(R) \subseteq Nat /\ init_value \notin ColsIn(R)
         /\ IsFiniteSet(ColsIn(R)) /\ Cardinality(ColsIn(R)) \in Nat
  <1>1. Len(R) \in Nat /\ DOMAIN R = 1 .. Len(R) /\ \A m \in 1 .. Len(R) : R[m] \in Cols \X DOMAIN Val
    BY DEF IsRow
  <1>2. \A m \in 1 .. Len(R) : R[m][1] \in Cols /\ R[m][2] \in DOMAIN Val /\ R[m][1] \in ColsIn(R)
    BY <1>1 DEF ColsIn
  <1>3. \A e \in DOMAIN Val : Val[e] \in Int
    BY ValAssumption
  <1>4. ColsIn(R) \subseteq Cols /\ ColsIn(R) \subseteq Nat
    BY <1>1, <1>2, ColsAssumption DEF ColsIn
  <1>5. init_value \notin Nat
    BY DEF init_value
  <1>6. IsFiniteSet(ColsIn(R))
    <2> DEFINE f == [m \in 1 .. Len(R) |-> R[m][1]]
               I == 1 .. Len(R)
    <2>1. IsFiniteSet(I)
      <3>1. 1 \in Int /\ Len(R) \in Int
        BY <1>1
      <3> QED
        BY <3>1, FS_Interval
    <2>2. f \in Surjection(I, ColsIn(R))
      BY <1>1 DEF Surjection, ColsIn
    <2> HIDE DEF f, I
    <2> QED
      BY <2>1, <2>2, FS_Surjection
  <1> QED
    BY <1>1, <1>2, <1>3, <1>4, <1>5, <1>6, FS_CardinalityType

\* A table in which every trial of k finds another column has fewer slots than the
\* row has columns.
LEMMA FullTable ==
  ASSUME NEW R, IsRow(R), NEW t \in {1, 2}, NEW K, KeysOnce(R, t, K), NEW k \in ColsIn(R),
         \A m \in SlotsOf(t) : K[Place(k, t, m)] \notin {k, init_value}
  PROVE  TableSize[t] < Cardinality(ColsIn(R))
  <1>1. PICK S : S = SlotsOf(t)
    OBVIOUS
  <1>2. IsFiniteSet(S) /\ Cardinality(S) = TableSize[t]
    <2>1. PICK z \in Nat \ {0} : z = TableSize[t]
      BY SizeAssumption
    <2>2. S = 0 .. z - 1 /\ 0 \in Int /\ z - 1 \in Int
      BY <1>1, <2>1 DEF SlotsOf
    <2>3. IsFiniteSet(S) /\ Cardinality(S) = IF 0 > z - 1 THEN 0 ELSE z - 1 - 0 + 1
      BY <2>2, FS_Interval
    <2> QED
      BY <2>1, <2>3
  <1>3. \A s \in S : K[s] \in ColsIn(R) \ {k}
    <2>1. k \in Nat
      BY RowFacts
    <2> QED
      BY <1>1, <2>1, PlaceFacts DEF KeysOnce
  <1>4. \A s, q \in S : K[s] = K[q] => s = q
    BY <1>1, <1>3, RowFacts DEF KeysOnce
  <1>5. PICK T : T = {K[s] : s \in S}
    OBVIOUS
  <1>6. IsFiniteSet(T) /\ Cardinality(T) = TableSize[t]
    BY <1>2, <1>4, <1>5, ImageSize
  <1>7. T \in SUBSET ColsIn(R) /\ T # ColsIn(R)
    BY <1>3, <1>5
  <1>8. IsFiniteSet(ColsIn(R)) /\ Cardinality(ColsIn(R)) \in Nat /\ Cardinality(T) \in Nat
    BY <1>6, RowFacts, FS_CardinalityType
  <1>9. Cardinality(T) < Cardinality(ColsIn(R))
    BY <1>7, <1>8, FS_Subset
  <1> QED
    BY <1>6, <1>9

\* A table has no more columns than the row.
LEMMA OccupiedSlots ==
  ASSUME NEW R, IsRow(R), NEW t \in {1, 2}, NEW K, KeysOnce(R, t, K),
         NEW C \in SUBSET SlotsOf(t), \A s \in C : K[s] # init_value
  PROVE  IsFiniteSet(C) /\ Cardinality(C) \in Nat /\ Cardinality(C) <= Cardinality(ColsIn(R))
  <1>1. IsFiniteSet(C)
    <2>1. 0 \in Int /\ TableSize[t] - 1 \in Int
      BY SizeAssumption
    <2>2. IsFiniteSet(SlotsOf(t))
      BY <2>1, FS_Interval DEF SlotsOf
    <2> QED
      BY <2>2, FS_Subset
  <1>2. PICK T : T = {K[s] : s \in C}
    OBVIOUS
  <1>3. IsFiniteSet(T) /\ Cardinality(T) = Cardinality(C)
    <2>1. \A s, q \in C : K[s] = K[q] => s = q
      BY DEF KeysOnce
    <2> QED
      BY <1>1, <1>2, <2>1, ImageSize
  <1>4. T \in SUBSET ColsIn(R)
    BY <1>2 DEF KeysOnce
  <1>5. IsFiniteSet(ColsIn(R))
    BY RowFacts
  <1> QED
    BY <1>1, <1>3, <1>4, <1>5, FS_Subset, FS_CardinalityType

\* The value of a column that is there.
LEMMA ValueAt ==
  ASSUME NEW K, NEW W, NEW s \in DOMAIN K, \A q \in DOMAIN K : K[q] = K[s] => q = s
  PROVE  Has(K, K[s]) /\ ValueIn(K, W, K[s]) = W[s]
  <1>1. Has(K, K[s])
    BY DEF Has
  <1>2. (CHOOSE q \in DOMAIN K : K[q] = K[s]) = s
    OBVIOUS
  <1> QED
    BY <1>1, <1>2 DEF ValueIn

\* Two tables that have a column with the same value, or not at all.
LEMMA SameValue ==
  ASSUME NEW K, NEW W, NEW L, NEW X, NEW k, DOMAIN K = DOMAIN L,
         \A s \in DOMAIN K : K[s] = k <=> L[s] = k,
         \A s \in DOMAIN K : K[s] = k => W[s] = X[s]
  PROVE  (Has(K, k) <=> Has(L, k)) /\ ValueIn(K, W, k) = ValueIn(L, X, k)
  <1>1. Has(K, k) <=> Has(L, k)
    BY DEF Has
  <1>2. CASE ~ Has(K, k)
    BY <1>1, <1>2 DEF ValueIn
  <1>3. CASE Has(K, k)
    <2>1. PICK s : s = CHOOSE q \in DOMAIN K : K[q] = k
      OBVIOUS
    <2>2. s \in DOMAIN K /\ K[s] = k
      BY <1>3, <2>1 DEF Has
    <2>3. s = CHOOSE q \in DOMAIN L : L[q] = k
      BY <2>1
    <2>4. ValueIn(K, W, k) = W[s] /\ ValueIn(L, X, k) = X[s]
      BY <1>1, <1>3, <2>1, <2>3 DEF ValueIn
    <2> QED
      BY <1>1, <2>2, <2>4
  <1> QED
    BY <1>1, <1>2, <1>3

\* A column that no trial up to the empty slot has found is nowhere in the table, and
\* may be put into that slot.
LEMMA PutKey ==
  ASSUME NEW R, IsRow(R), NEW t \in {1, 2}, NEW K, KeysOnce(R, t, K), Probed(t, K),
         NEW k \in ColsIn(R), NEW m \in SlotsOf(t), NEW s, s = Place(k, t, m), K[s] = init_value,
         FirstTrial(K, t, k, m), NEW L, Put(K, s, k, L)
  PROVE  /\ s \in SlotsOf(t) /\ ~ Has(K, k) /\ L[s] = k
         /\ KeysOnce(R, t, L) /\ Probed(t, L)
         /\ \A q \in SlotsOf(t) : q # s => L[q] = K[q]
  <1>1. k \in Nat /\ k # init_value
    BY RowFacts
  <1>2. s \in SlotsOf(t) /\ DOMAIN K = SlotsOf(t)
    BY <1>1, PlaceFacts DEF KeysOnce
  <1>3. L[s] = k /\ \A q \in SlotsOf(t) : q # s => L[q] = K[q]
    BY <1>2 DEF Put
  <1>4. ASSUME NEW q \in SlotsOf(t), K[q] = k PROVE FALSE
    <2>1. PICK n \in SlotsOf(t) : Place(k, t, n) = q
      BY <1>1, PlaceFacts
    <2>2. n \in Int /\ m \in Int
      BY SizeAssumption DEF SlotsOf
    <2>3. CASE n < m
      BY <1>4, <2>1, <2>3 DEF FirstTrial
    <2>4. CASE n = m
      BY <1>1, <1>4, <2>1, <2>4
    <2>5. CASE m < n
      BY <1>1, <1>4, <2>1, <2>5 DEF Probed
    <2> QED
      BY <2>2, <2>3, <2>4, <2>5
  <1>5. ~ Has(K, k)
    BY <1>2, <1>4 DEF Has
  <1>6. KeysOnce(R, t, L)
    <2>1. L \in [SlotsOf(t) -> ColsIn(R) \union {init_value}]
      BY DEF KeysOnce, Put
    <2>2. ASSUME NEW a \in SlotsOf(t), NEW b \in SlotsOf(t), L[a] = L[b], L[a] # init_value PROVE a = b
      BY <1>3, <1>4, <2>2 DEF KeysOnce
    <2> QED
      BY <2>1, <2>2 DEF KeysOnce
  <1>7. ASSUME NEW q \in SlotsOf(t), NEW i \in SlotsOf(t), NEW n \in SlotsOf(t),
               L[q] # init_value, Place(L[q], t, n) = q, i < n
        PROVE  L[Place(L[q], t, i)] # init_value
    <2>1. CASE q # s
      <3>1. L[q] = K[q] /\ K[Place(K[q], t, i)] # init_value
        BY <1>3, <1>7, <2>1 DEF Probed
      <3>2. K[q] \in Nat
        BY <1>7, <3>1, RowFacts DEF KeysOnce
      <3>3. Place(K[q], t, i) \in SlotsOf(t)
        BY <3>2, PlaceFacts
      <3> QED
        BY <1>1, <1>3, <3>1, <3>3
    <2>2. CASE q = s
      <3>1. n = m /\ Place(k, t, i) \in SlotsOf(t)
        BY <1>1, <1>3, <1>7, <2>2, PlaceFacts
      <3> QED
        BY <1>1, <1>3, <1>7, <2>2, <3>1 DEF FirstTrial
    <2> QED
      BY <2>1, <2>2
  <1> QED
    BY <1>2, <1>3, <1>5, <1>6, <1>7 DEF Probed

-----------------------------------------------------------------------------
\* The sums of the products of a column.
LEMMA SumFacts ==
  ASSUME NEW R, IsRow(R), NEW k, NEW D \in SUBSET (1 .. Len(R))
  PROVE  /\ Sum(R, k, D) \in Int /\ Sum(R, k, {}) = 0
         /\ \A m \in (1 .. Len(R)) \ D :
              Sum(R, k, D \union {m}) = Sum(R, k, D) + (IF R[m][1] = k THEN Val[R[m][2]] ELSE 0)
  <1>1. PICK F : F = Share(R, k)
    OBVIOUS
  <1>2. \A m \in 1 .. Len(R) : F[m] = (IF R[m][1] = k THEN Val[R[m][2]] ELSE 0) /\ F[m] \in Int
    BY <1>1, RowFacts DEF Share
  <1>3. \A E \in SUBSET (1 .. Len(R)) : IsFiniteSet(E)
    <2>1. 1 \in Int /\ Len(R) \in Int
      BY RowFacts
    <2>2. IsFiniteSet(1 .. Len(R))
      BY <2>1, FS_Interval
    <2> QED
      BY <2>2, FS_Subset
  <1>4. Sum(R, k, {}) = 0
    BY TotalEmpty DEF Sum
  <1>5. Sum(R, k, D) \in Int
    <2>1. CASE D = {}
      BY <1>4, <2>1
    <2>2. CASE D # {}
      <3>1. PICK a \in D : TRUE
        BY <2>2
      <3>2. Total(F, D) \in Int
        BY <1>2, <1>3, <3>1, TotalInsert
      <3> QED
        BY <1>1, <3>2 DEF Sum
    <2> QED
      BY <2>1, <2>2
  <1>6. ASSUME NEW m \in (1 .. Len(R)) \ D
        PROVE  Sum(R, k, D \union {m}) = Sum(R, k, D) + (IF R[m][1] = k THEN Val[R[m][2]] ELSE 0)
    <2>1. PICK E \in SUBSET (1 .. Len(R)) : E = D \union {m}
      OBVIOUS
    <2>2. E \ {m} = D /\ m \in E /\ IsFiniteSet(E) /\ \A x \in E : F[x] \in Int
      BY <1>2, <1>3, <2>1
    <2>3. Total(F, E) = F[m] + Total(F, D)
      <3>1. Total(F, E) = F[m] + Total(F, E \ {m})
        BY <2>2, TotalInsert
      <3> QED
        BY <2>2, <3>1
    <2>4. F[m] \in Int /\ F[m] = (IF R[m][1] = k THEN Val[R[m][2]] ELSE 0)
      BY <1>2
    <2>5. Total(F, D) = Sum(R, k, D) /\ Total(F, E) = Sum(R, k, E)
      BY <1>1 DEF Sum
    <2> QED
      BY <1>5, <2>1, <2>3, <2>4, <2>5
  <1> QED
    BY <1>4, <1>5, <1>6

\* The sum of the correctness property, as the community modules define it.
RowSum(R, k, D) == MapThenSumSet(LAMBDA m : IF R[m][1] = k THEN Val[R[m][2]] ELSE 0, D)

LEMMA SumIsMapThenSum ==
  ASSUME NEW R, IsRow(R), NEW k, NEW D, D = 1 .. Len(R)
  PROVE  RowSum(R, k, D) = Sum(R, k, D)
  <1> DEFINE Eq(g) == g = [s \in SUBSET D |-> IF s = {} THEN 0
                 ELSE (IF R[CHOOSE x \in s : TRUE][1] = k THEN Val[R[CHOOSE x \in s : TRUE][2]] ELSE 0)
                      + g[s \ {CHOOSE x \in s : TRUE}]]
             it == CHOOSE g : Eq(g)
  <1>1. RowSum(R, k, D) = it[D]
    BY Zenon DEF RowSum, MapThenSumSet, MapThenFoldSet
  <1>2. PICK F : F = Share(R, k)
    OBVIOUS
  <1>3. \A g : Eq(g) <=> Adds(g, F, D)
    <2>1. \A s \in SUBSET D : s # {} => F[Chosen(s)] = IF R[Chosen(s)][1] = k THEN Val[R[Chosen(s)][2]] ELSE 0
      <3>1. \A m \in D : F[m] = IF R[m][1] = k THEN Val[R[m][2]] ELSE 0
        BY <1>2 DEF Share
      <3>2. \A s \in SUBSET D : s # {} => Chosen(s) \in D
        BY DEF Chosen
      <3> QED
        BY <3>1, <3>2
    <2> QED
      BY <2>1 DEF Adds, Chosen
  <1>4. IsFiniteSet(D)
    <2>1. 1 \in Int /\ Len(R) \in Int
      BY RowFacts
    <2> QED
      BY <2>1, FS_Interval
  <1>5. PICK h : h = it
    OBVIOUS
  <1>6. Adds(h, F, D)
    <2>1. \E g : Adds(g, F, D)
      BY <1>4, AddsExists
    <2> HIDE DEF Eq
    <2> QED
      BY <1>3, <1>5, <2>1
  <1>7. Total(F, D) = h[D]
    BY <1>4, <1>6, TotalSolves
  <1> HIDE DEF it
  <1> QED
    BY <1>1, <1>2, <1>5, <1>7 DEF Sum

-----------------------------------------------------------------------------
\* The search of the host ends, at the column or at the slot where it belongs.
LEMMA HostProbe ==
  ASSUME NEW R, IsRow(R), NEW K, K = table[2].keys, KeysOnce(R, 2, K), NEW k \in ColsIn(R),
         Cardinality(ColsIn(R)) <= TableSize[2]
  PROVE  \E m \in SlotsOf(2) :
           /\ ProbeEnds(k, 2) = Place(k, 2, m)
           /\ K[Place(k, 2, m)] \in {k, init_value}
           /\ \A n \in SlotsOf(2) : n < m => K[Place(k, 2, n)] \notin {k, init_value}
  <1> DEFINE Ends == {m \in SlotsOf(2) : K[Place(k, 2, m)] \in {k, init_value}}
             First(m) == /\ K[Place(k, 2, m)] \in {k, init_value}
                         /\ \A i \in 0 .. m - 1 : K[Place(k, 2, i)] \notin {k, init_value}
  <1>1. PICK z \in Nat \ {0} : z = TableSize[2] /\ SlotsOf(2) = 0 .. z - 1
    BY SizeAssumption DEF SlotsOf
  <1>2. Ends # {}
    <2>1. CASE \A m \in SlotsOf(2) : K[Place(k, 2, m)] \notin {k, init_value}
      <3>1. 2 \in {1, 2}
        OBVIOUS
      <3>2. TableSize[2] < Cardinality(ColsIn(R))
        BY <2>1, <3>1, FullTable
      <3>3. Cardinality(ColsIn(R)) \in Nat
        BY RowFacts
      <3> QED
        BY <1>1, <3>2, <3>3
    <2> QED
      BY <2>1
  <1>3. \E b \in Ends : \A c \in Ends : b <= c
    <2>1. Ends \in SUBSET Nat
      BY <1>1
    <2> HIDE DEF Ends
    <2> QED
      BY <1>2, <2>1, LeastOf
  <1>4. PICK b \in Ends : \A c \in Ends : b <= c
    BY <1>3
  <1>5. \E m \in SlotsOf(2) : First(m)
    <2>1. \A i \in 0 .. b - 1 : i \in SlotsOf(2) /\ ~ b <= i
      BY <1>1
    <2> QED
      BY <1>4, <2>1
  <1>6. PICK m : m = CHOOSE i \in SlotsOf(2) : First(i)
    OBVIOUS
  <1>7. m \in SlotsOf(2) /\ First(m)
    <2> HIDE DEF First
    <2> QED
      BY <1>5, <1>6
  <1>8. ProbeEnds(k, 2) = Place(k, 2, m)
    BY <1>6 DEF ProbeEnds, Place
  <1>9. \A n \in SlotsOf(2) : n < m => n \in 0 .. m - 1
    BY <1>1, <1>7
  <1> QED
    BY <1>7, <1>8, <1>9

\* The searches of the first table, from the hash up and from the start up, find the
\* column when it is there, once.
LEMMA MergeSearch ==
  ASSUME NEW R, IsRow(R), NEW K, K = table[1].keys, KeysOnce(R, 1, K), Probed(1, K), NEW k \in ColsIn(R)
  PROVE  FirstUntilEmpty(k, Hash(k, 1), TableSize[1] - 1) \union FirstUntilEmpty(k, 0, Hash(k, 1) - 1)
           = {s \in SlotsOf(1) : K[s] = k}
  <1>1. k \in Nat /\ k # init_value /\ 1 \in {1, 2}
    BY RowFacts
  <1>2. PICK z \in Nat \ {0} :
          \E h \in Nat :
            /\ z = TableSize[1] /\ h = Hash(k, 1) /\ h < z /\ SlotsOf(1) = 0 .. z - 1
            /\ \A m \in 0 .. z - 1 : Place(k, 1, m) = IF h + m < z THEN h + m ELSE h + m - z
    BY <1>1, PlaceIs
  <1>3. PICK h \in Nat :
            /\ z = TableSize[1] /\ h = Hash(k, 1) /\ h < z /\ SlotsOf(1) = 0 .. z - 1
            /\ \A m \in 0 .. z - 1 : Place(k, 1, m) = IF h + m < z THEN h + m ELSE h + m - z
    BY <1>2
  <1>4. ASSUME NEW s \in 0 .. z - 1, K[s] = k
        PROVE  \/ s \in h .. z - 1 /\ \A q \in h .. s - 1 : K[q] \notin {k, init_value}
               \/ s \in 0 .. h - 1 /\ \A q \in 0 .. s - 1 : K[q] \notin {k, init_value}
    <2>1. \A q \in 0 .. z - 1 : q # s => K[q] # k
      BY <1>1, <1>3, <1>4 DEF KeysOnce
    <2>2. \A i, j \in 0 .. z - 1 : Place(k, 1, j) = s /\ i < j => K[Place(k, 1, i)] # init_value
      <3>1. s \in SlotsOf(1) /\ K[s] # init_value
        BY <1>1, <1>3, <1>4
      <3>2. \A i, j \in SlotsOf(1) : Place(K[s], 1, j) = s /\ i < j => K[Place(K[s], 1, i)] # init_value
        BY <3>1 DEF Probed
      <3> QED
        BY <1>3, <1>4, <3>2
    <2>3. CASE s >= h
      <3>1. Place(k, 1, s - h) = s /\ s - h \in 0 .. z - 1
        BY <1>3, <2>3
      <3>2. ASSUME NEW q \in h .. s - 1 PROVE K[q] \notin {k, init_value}
        <4>1. /\ q - h \in 0 .. z - 1 /\ h + (q - h) < z /\ h + (q - h) = q
              /\ q - h < s - h /\ q \in 0 .. z - 1 /\ q # s
          BY <1>3, <2>3
        <4>2. Place(k, 1, q - h) = q
          BY <1>3, <4>1
        <4> QED
          BY <2>1, <2>2, <3>1, <4>1, <4>2
      <3> QED
        BY <2>3, <3>2
    <2>4. CASE s < h
      <3>1. ASSUME NEW q \in 0 .. s PROVE q - h + z \in 0 .. z - 1 /\ Place(k, 1, q - h + z) = q
        <4>1. q - h + z \in 0 .. z - 1 /\ ~ (h + (q - h + z) < z) /\ h + (q - h + z) - z = q
          BY <1>3, <2>4
        <4> QED
          BY <1>3, <4>1
      <3>2. ASSUME NEW q \in 0 .. s - 1 PROVE K[q] \notin {k, init_value}
        <4>1. q \in 0 .. s /\ s \in 0 .. s /\ q \in 0 .. z - 1 /\ q # s /\ q - h + z < s - h + z
          BY <1>3
        <4> QED
          BY <2>1, <2>2, <3>1, <4>1
      <3> QED
        BY <1>3, <2>4, <3>2
    <2> QED
      BY <1>3, <2>3, <2>4
  <1>5. \A s \in h .. z - 1 : s \in 0 .. z - 1
    BY <1>3
  <1>6. \A s \in 0 .. h - 1 : s \in 0 .. z - 1
    BY <1>3
  <1> QED
    BY <1>3, <1>4, <1>5, <1>6 DEF FirstUntilEmpty

-----------------------------------------------------------------------------
(***************************************************************************)
(* The inductive invariant.                                                *)
(***************************************************************************)
Row == rows[row]
Keys(t) == table[t].keys
Vals(t) == table[t].vals
Working == ph \in {"insert", "merge", "write"}
Inserting == ph = "insert" /\ tag # "LP"

\* When the team has a chunk.
Chunks ==
  /\ tag \in Tags /\ loads \in {1, 2} /\ (tag = "LP" => loads = 1)
  /\ ph \in {"row", "insert", "merge", "write", "written"}
  /\ held \in BOOLEAN /\ (held => tag # "Spread")
  /\ ph \in {"row", "write", "written"} /\ held => tag = "LP"
  /\ ph = "insert" => held = NeedsChunk
  /\ ph = "merge" => tag = "BigSpread" /\ held
  /\ tag = "LP" /\ ph = "write" => held

\* The rows, and the sizes of the tables for them.
Fitting ==
  /\ rows \in Problems /\ row \in Nat \ {0} /\ (ph # "row" => row \in DOMAIN rows)
  /\ tag = "Spread" => \A r \in DOMAIN rows : CSize(r) < TableSize[1]
  /\ tag # "Spread" => \A r \in DOMAIN rows : CSize(r) <= TableSize[2]

TableType ==
  /\ table = [t \in {1, 2} |-> [keys |-> Keys(t), vals |-> Vals(t)]]
  /\ \A t \in {1, 2} : /\ Keys(t) \in [SlotsOf(t) -> Cols \union {init_value}]
                       /\ Vals(t) \in [SlotsOf(t) -> Int]

\* The chunk is clean whenever it is not the team's to write to.
Clean ==
  /\ ~ held \/ ph \in {"row", "written"} => Keys(2) = Empty(2)
  /\ tag = "LP" => Keys(1) = Empty(1)

\* The slots of an empty table and of an empty slot hold no value yet.
Unused(t) == \A s \in SlotsOf(t) : Keys(t)[s] = init_value => Vals(t)[s] = 0

Tables ==
  /\ Working => KeysOnce(Row, 1, Keys(1)) /\ KeysOnce(Row, 2, Keys(2)) /\ Probed(1, Keys(1))
  /\ ph = "insert" => Probed(2, Keys(2))
  /\ Inserting => Unused(1) /\ (held => Unused(2))

LaneType(l) ==
  lane[l] \in [pc : {"take", "probe", "second", "exchange", "add", "count", "look", "out"}, n : Nat,
               insert_is_on : BOOLEAN, t : {1, 2}, trial : Nat,
               seen : Cols \union {init_value}, new : BOOLEAN]

\* what a lane knows of the slots it has looked at, as long as it acts on it
LaneKnows(l) ==
  /\ Mine(l, lane[l].n)
  /\ lane[l].pc = "out" => lane[l].n > Flops
  /\ lane[l].pc \notin {"take", "out"} =>
       /\ lane[l].n \in 1 .. Flops /\ lane[l].trial \in SlotsOf(lane[l].t)
       /\ lane[l].t = 2 => tag = "BigSpread" /\ held
  /\ lane[l].pc \in {"probe", "second", "exchange"} =>
       \A m \in SlotsOf(lane[l].t) : m < lane[l].trial =>
          Keys(lane[l].t)[Place(Key(l), lane[l].t, m)] \notin {Key(l), init_value}
  /\ lane[l].pc = "second" => /\ lane[l].seen # Key(l)
                              /\ lane[l].seen # init_value => KeyAt(l) = lane[l].seen
  /\ lane[l].pc = "add" => KeyAt(l) = Key(l)
  /\ lane[l].pc \in {"count", "look"} => tag = "BigSpread" /\ lane[l].t = 1
  /\ ~ lane[l].insert_is_on => tag = "BigSpread" /\ used > MaxFirst

LanesKnow == Inserting => /\ lane = [l \in Lanes |-> lane[l]]
                          /\ \A l \in Lanes : LaneType(l) /\ LaneKnows(l)

\* The counter is behind the first table by the lanes that are about to count: C are
\* the slots that are counted.
Owes(l) == lane[l].pc = "count" \/ (lane[l].pc = "add" /\ lane[l].new /\ lane[l].t = 1)
CountedSlots(C) ==
  /\ \A s \in C : Keys(1)[s] # init_value
  /\ Cardinality(C) = used
  /\ \A l \in Lanes : Owes(l) => Slot(l) \notin C /\ Keys(1)[Slot(l)] # init_value
  /\ \A l, r \in Lanes : Owes(l) /\ Owes(r) /\ Slot(l) = Slot(r) => l = r
Counted == Inserting => used \in Nat /\ \E C \in SUBSET SlotsOf(1) : CountedSlots(C)

\* The host's list of slots.
Listed ==
  tag = "LP" /\ ph \in {"insert", "write"} =>
    /\ lane = [l \in Lanes |-> lane[l]]
    /\ LaneType(0) /\ lane[0].n # 0
    /\ tracked \in Seq(SlotsOf(2))
    /\ \A i, j \in DOMAIN tracked : tracked[i] = tracked[j] => i = j
    /\ \A s \in SlotsOf(2) : Keys(2)[s] # init_value <=> \E i \in DOMAIN tracked : tracked[i] = s

\* the products that are in the tables or in the row of C
DoneBy(l) == {m \in 1 .. Flops : Mine(l, m) /\ \/ m < lane[l].n
                                               \/ m = lane[l].n /\ lane[l].pc \in {"count", "look"}}
Done == IF ph # "insert" THEN 1 .. Flops
        ELSE IF tag = "LP" THEN {m \in 1 .. Flops : m < lane[0].n}
        ELSE UNION {DoneBy(l) : l \in Lanes}

\* A column that is not in the row of C yet has in the tables what is done of it.
InTables(k) == ValueIn(Keys(1), Vals(1), k) + ValueIn(Keys(2), Vals(2), k)
Somewhere(k) == Has(Keys(1), k) \/ Has(Keys(2), k)
InRow(k) == \E i \in DOMAIN crow : crow[i][1] = k
Accounted ==
  Working =>
    /\ crow \in Seq(ColsIn(Row) \X Int)
    /\ ph = "insert" \/ tag = "LP" => crow = <<>>
    /\ \A k \in ColsIn(Row) : ~ InRow(k) =>
         /\ InTables(k) = Sum(Row, k, Done)
         /\ (\E m \in Done : Row[m][1] = k) => Somewhere(k)
    /\ \A i \in DOMAIN crow : /\ crow[i][2] = Sum(Row, crow[i][1], Done)
                              /\ ~ Somewhere(crow[i][1])
    /\ \A i, j \in DOMAIN crow : crow[i][1] = crow[j][1] => i = j

InOrder == Fitting /\ TableType /\ Clean /\ Tables /\ LanesKnow /\ Counted /\ Listed /\ Accounted /\ RowCorrect

IInv == Chunks /\ (loads = 1 => InOrder)

LEMMA TheRow ==
  ASSUME rows \in Problems, row \in DOMAIN rows
  PROVE  /\ IsRow(Row) /\ Flops = Len(Row)
         /\ ColsOf(row) = ColsIn(Row) /\ CSize(row) = Cardinality(ColsIn(Row))
         /\ rows \in Seq(Seq(Cols \X DOMAIN Val))
  <1>1. rows \in Seq(Seq(Cols \X DOMAIN Val))
    BY ProblemAssumption
  <1>2. rows[row] \in Seq(Cols \X DOMAIN Val)
    BY <1>1
  <1>3. ColsOf(row) = ColsIn(Row)
    BY DEF ColsOf, ColsIn, Row
  <1> QED
    BY <1>1, <1>2, <1>3 DEF IsRow, Row, Flops, CSize

LEMMA ChunksInit == Init => Chunks
  BY DEF Init, Chunks

\* The team has a chunk while it needs one.
LEMMA ChunksNext ==
  ASSUME Chunks, [Next]_vars
  PROVE  Chunks'
  <1>1. CASE UNCHANGED vars
    BY <1>1 DEF Chunks, vars, kernel, NeedsChunk, CSize, ColsOf
  <1>2. CASE SkipRow
    BY <1>2 DEF Chunks, SkipRow
  <1>3. CASE StartRow
    BY <1>3 DEF Chunks, StartRow, kernel, NeedsChunk, CSize, ColsOf, Tags
  <1>4. ASSUME NEW l \in Lanes, Lane(l) PROVE Chunks'
    <2>1. UNCHANGED <<tag, loads, rows, row, ph, held>>
      BY <1>4 DEF Lane, Take, Probe, SecondLook, Exchange, AtomicAdd, Count, Look, kernel
    <2> QED
      BY <2>1 DEF Chunks, NeedsChunk, CSize, ColsOf
  <1>5. CASE InsertProbing
    BY <1>5 DEF Chunks, InsertProbing, kernel, NeedsChunk, CSize, ColsOf
  <1>6. CASE InsertDone
    BY <1>6 DEF Chunks, InsertDone, kernel, NeedsChunk, Tags
  <1>7. ASSUME NEW s \in SlotsOf(2), MergeSlot(s) PROVE Chunks'
    BY <1>7 DEF Chunks, MergeSlot, kernel
  <1>8. CASE ReleaseChunk
    BY <1>8 DEF Chunks, ReleaseChunk, kernel
  <1>9. CASE WriteFirst
    BY <1>9 DEF Chunks, WriteFirst, kernel
  <1>10. CASE WriteTracked
    BY <1>10 DEF Chunks, WriteTracked, kernel
  <1>11. CASE NextRow
    BY <1>11 DEF Chunks, NextRow
  <1> QED
    BY <1>1, <1>2, <1>3, <1>4, <1>5, <1>6, <1>7, <1>8, <1>9, <1>10, <1>11 DEF Next, Terminated

LEMMA InOrderInit == Init => InOrder
  <1> SUFFICES ASSUME Init PROVE InOrder
    OBVIOUS
  <1>1. /\ rows \in Problems /\ row = 1 /\ ph = "row" /\ held = FALSE
        /\ table = [t \in {1, 2} |-> [keys |-> Empty(t), vals |-> Zeros(t)]]
    BY DEF Init
  <1>2. \A t \in {1, 2} : Keys(t) = Empty(t) /\ Vals(t) = Zeros(t)
    BY <1>1 DEF Keys, Vals
  <1>3. Fitting
    BY <1>1 DEF Fitting, Init
  <1>4. TableType
    <2>1. table = [t \in {1, 2} |-> [keys |-> Keys(t), vals |-> Vals(t)]]
      BY <1>1, <1>2
    <2>2. \A t \in {1, 2} : /\ Keys(t) \in [SlotsOf(t) -> Cols \union {init_value}]
                            /\ Vals(t) \in [SlotsOf(t) -> Int]
      BY <1>2 DEF Empty, Zeros
    <2> QED
      BY <2>1, <2>2 DEF TableType
  <1>5. Clean
    BY <1>1, <1>2 DEF Clean
  <1> QED
    BY <1>1, <1>3, <1>4, <1>5
       DEF InOrder, Tables, LanesKnow, Counted, Listed, Accounted, Working, Inserting, RowCorrect

\* Between the rows nothing but the tables matters.
LEMMA IdleInOrder ==
  ASSUME InOrder, UNCHANGED <<tag, loads, rows, table>>, ph \in {"row", "written"}, ph' = "row",
         row' = row + 1
  PROVE  InOrder'
  <1>1. Fitting /\ TableType /\ Clean
    BY DEF InOrder
  <1>2. Fitting'
    BY <1>1 DEF Fitting, CSize, ColsOf
  <1>3. TableType'
    BY <1>1 DEF TableType, Keys, Vals
  <1>4. Clean'
    BY <1>1 DEF Clean, Keys
  <1> QED
    BY <1>2, <1>3, <1>4
       DEF InOrder, Tables, LanesKnow, Counted, Listed, Accounted, Working, Inserting, RowCorrect

\* A table without keys.
LEMMA EmptyTable ==
  ASSUME NEW R, NEW t \in {1, 2}
  PROVE  /\ KeysOnce(R, t, Empty(t)) /\ Probed(t, Empty(t))
         /\ \A W, k : k # init_value => ~ Has(Empty(t), k) /\ ValueIn(Empty(t), W, k) = 0
  BY DEF KeysOnce, Probed, Empty, Has, ValueIn

\* The tables at the start of a row.
LEMMA StartRowTables ==
  ASSUME TableType, Clean, ph = "row", StartRow
  PROVE  /\ table' = [t \in {1, 2} |-> [keys |-> Keys(t)', vals |-> Vals(t)']]
         /\ \A t \in {1, 2} : Keys(t)' = Empty(t) /\ Vals(t)' \in [SlotsOf(t) -> Int]
         /\ tag # "LP" => Vals(1)' = Zeros(1) /\ (held' => Vals(2)' = Zeros(2))
  <1>0. held' = NeedsChunk
    BY DEF StartRow
  <1>1. Keys(2) = Empty(2) /\ (tag = "LP" => Keys(1) = Empty(1))
    BY DEF Clean
  <1>2. /\ table = [t \in {1, 2} |-> [keys |-> Keys(t), vals |-> Vals(t)]]
        /\ \A t \in {1, 2} : Vals(t) \in [SlotsOf(t) -> Int]
    BY DEF TableType
  <1>3. CASE tag = "LP"
    <2>1. table' = table
      BY <1>3 DEF StartRow
    <2>2. \A t \in {1, 2} : Keys(t)' = Keys(t) /\ Vals(t)' = Vals(t)
      BY <2>1 DEF Keys, Vals
    <2> QED
      BY <1>1, <1>2, <1>3, <2>1, <2>2
  <1>4. CASE tag # "LP"
    <2>1. table' = [table EXCEPT ![1] = [keys |-> Empty(1), vals |-> Zeros(1)],
                                 ![2].vals = IF NeedsChunk THEN Zeros(2) ELSE @]
      BY <1>4 DEF StartRow
    <2>2. table' = [t \in {1, 2} |-> IF t = 2 THEN [keys |-> Keys(2), vals |-> IF NeedsChunk THEN Zeros(2) ELSE Vals(2)]
                                      ELSE [keys |-> Empty(1), vals |-> Zeros(1)]]
      <3>1. PICK tb : tb = table
        OBVIOUS
      <3>2. PICK a : a = [keys |-> Empty(1), vals |-> Zeros(1)]
        OBVIOUS
      <3>3. PICK K : K = Keys(2)
        OBVIOUS
      <3>4. PICK W : W = Vals(2)
        OBVIOUS
      <3>5. DOMAIN tb = {1, 2} /\ tb = [t \in {1, 2} |-> tb[t]] /\ tb[2] = [keys |-> K, vals |-> W]
        BY <1>2, <3>1, <3>3, <3>4
      <3>6. PICK b : b = Zeros(2)
        OBVIOUS
      <3>c. PICK c \in BOOLEAN : c = NeedsChunk
        BY DEF NeedsChunk
      <3>7. [tb EXCEPT ![1] = a, ![2].vals = IF c THEN b ELSE @]
              = [t \in {1, 2} |-> IF t = 2 THEN [keys |-> K, vals |-> IF c THEN b ELSE W] ELSE a]
        BY <3>5
      <3> QED
        BY <2>1, <3>1, <3>2, <3>3, <3>4, <3>6, <3>7, <3>c
    <2>3. /\ Keys(1)' = Empty(1) /\ Vals(1)' = Zeros(1) /\ Keys(2)' = Keys(2)
          /\ Vals(2)' = IF NeedsChunk THEN Zeros(2) ELSE Vals(2)
      BY <2>2 DEF Keys, Vals
    <2>4. \A t \in {1, 2} : Zeros(t) \in [SlotsOf(t) -> Int]
      BY DEF Zeros
    <2> QED
      <3>1. table' = [t \in {1, 2} |-> [keys |-> Keys(t)', vals |-> Vals(t)']]
        BY <2>2, <2>3
      <3>2. \A t \in {1, 2} : Keys(t)' = Empty(t) /\ Vals(t)' \in [SlotsOf(t) -> Int]
        BY <1>1, <1>2, <1>4, <2>3, <2>4
      <3> QED
        BY <1>0, <2>3, <3>1, <3>2
  <1> QED
    BY <1>3, <1>4

LEMMA StartRowInOrder ==
  ASSUME IInv, loads = 1, StartRow
  PROVE  InOrder'
  <1>1. /\ Chunks /\ Fitting /\ TableType /\ Clean
        /\ ph = "row" /\ row <= Len(rows) /\ ph' = "insert"
        /\ UNCHANGED <<tag, loads, rows, row>>
        /\ used' = 0 /\ tracked' = <<>> /\ crow' = <<>>
        /\ lane' = [l \in Lanes |-> Fresh(l)] /\ held' = NeedsChunk
    BY DEF IInv, InOrder, StartRow, kernel
  <1>2. row \in DOMAIN rows
    <2>1. rows \in Seq(Seq(Cols \X DOMAIN Val)) /\ row \in Nat \ {0}
      BY <1>1, ProblemAssumption DEF Fitting
    <2>2. Len(rows) \in Nat /\ DOMAIN rows = 1 .. Len(rows)
      BY <2>1
    <2> QED
      BY <1>1, <2>1, <2>2
  <1>3. PICK R : R = Row
    OBVIOUS
  <1>4. IsRow(R) /\ Flops = Len(R) /\ Row' = R /\ Flops' = Len(R)
    BY <1>1, <1>2, <1>3, TheRow DEF Fitting, Row, Flops
  <1>5. Fitting'
    <2>1. rows' = rows /\ row' = row /\ tag' = tag /\ Fitting
      BY <1>1
    <2> QED
      BY <1>2, <2>1 DEF Fitting, CSize, ColsOf
  <1>6. /\ table' = [t \in {1, 2} |-> [keys |-> Keys(t)', vals |-> Vals(t)']]
        /\ \A t \in {1, 2} : Keys(t)' = Empty(t) /\ Vals(t)' \in [SlotsOf(t) -> Int]
        /\ tag # "LP" => Vals(1)' = Zeros(1) /\ (held' => Vals(2)' = Zeros(2))
    BY <1>1, StartRowTables
  <1>7. TableType'
    <2>1. \A t \in {1, 2} : Empty(t) \in [SlotsOf(t) -> Cols \union {init_value}]
      BY DEF Empty
    <2> QED
      BY <1>6, <2>1 DEF TableType
  <1>8. Clean'
    BY <1>6 DEF Clean
  <1>9. Tables'
    <2>1. Keys(1)' = Empty(1) /\ Keys(2)' = Empty(2)
      BY <1>6
    <2>2. /\ KeysOnce(R, 1, Empty(1)) /\ KeysOnce(R, 2, Empty(2))
          /\ Probed(1, Empty(1)) /\ Probed(2, Empty(2))
      BY EmptyTable
    <2>3. Inserting' => Unused(1)' /\ (held' => Unused(2)')
      BY <1>1, <1>6 DEF Unused, Zeros, Inserting
    <2> QED
      BY <1>4, <2>1, <2>2, <2>3 DEF Tables
  <1>10a. \A l \in Lanes : lane'[l].pc = "take" /\ lane'[l].n = l + 1
    <2> SUFFICES ASSUME NEW l \in Lanes PROVE lane'[l].pc = "take" /\ lane'[l].n = l + 1
      OBVIOUS
    <2>1. lane'[l] = Fresh(l)
      BY <1>1
    <2> QED
      BY <2>1 DEF Fresh
  <1>10. ASSUME NEW l \in Lanes PROVE lane'[l] = Fresh(l) /\ LaneType(l)' /\ LaneKnows(l)'
    <2>1. lane'[l] = Fresh(l)
      BY <1>1
    <2>2. l \in Nat /\ l + 1 \in Nat /\ Mine(l, l + 1)
      BY Strides
    <2>3. LaneType(l)'
      BY <2>1, <2>2 DEF LaneType, Fresh
    <2>4. LaneKnows(l)'
      BY <2>1, <2>2 DEF LaneKnows, Fresh
    <2> QED
      BY <2>1, <2>3, <2>4
  <1>11. LanesKnow'
    BY <1>1, <1>10 DEF LanesKnow
  <1>12. Counted'
    <2>1. CountedSlots({})'
      <3>1. \A l \in Lanes : ~ Owes(l)'
        BY <1>10a DEF Owes
      <3>2. Cardinality({}) = 0
        BY FS_EmptySet
      <3> QED
        BY <1>1, <3>1, <3>2 DEF CountedSlots
    <2> QED
      BY <1>1, <2>1 DEF Counted
  <1>13. Listed'
    <2>1. CASE tag = "LP"
      <3>1. 0 \in Lanes /\ 1 \in Nat
        BY Strides
      <3>2. LaneType(0)' /\ lane'[0].n = 1
        BY <1>10, <1>10a, <3>1
      <3>3. tracked' \in Seq(SlotsOf(2)) /\ DOMAIN tracked' = {}
        BY <1>1
      <3>4. \A s \in SlotsOf(2) : Keys(2)'[s] = init_value
        BY <1>6 DEF Empty
      <3>5. lane' = [l \in Lanes |-> lane'[l]]
        BY <1>1
      <3> QED
        BY <3>2, <3>3, <3>4, <3>5 DEF Listed
    <2>2. CASE tag # "LP"
      BY <1>1, <2>2 DEF Listed
    <2> QED
      BY <2>1, <2>2
  <1>14. Done' = {}
    <2>1. Len(R) \in Nat
      BY <1>4, RowFacts
    <2>2. CASE tag = "LP"
      <3>1. 0 \in Lanes
        BY Strides
      <3>2. lane'[0].n = 1
        BY <1>10a, <3>1
      <3>3. Done' = {m \in 1 .. Len(R) : m < 1}
        BY <1>1, <1>4, <2>2, <3>2 DEF Done
      <3> QED
        BY <2>1, <3>3
    <2>3. CASE tag # "LP"
      <3>1. ASSUME NEW l \in Lanes, NEW m \in DoneBy(l)' PROVE FALSE
        <4>1. /\ m \in 1 .. Len(R) /\ Mine(l, m)
              /\ m < lane'[l].n \/ lane'[l].pc \in {"count", "look"}
          BY <1>4, <3>1 DEF DoneBy
        <4>2. lane'[l].pc = "take" /\ lane'[l].n = l + 1
          BY <1>10a
        <4>3. Mine(l, l + 1) /\ m < l + 1
          BY <4>1, <4>2, Strides
        <4>4. m + bs <= l + 1 /\ l \in 0 .. bs - 1 /\ bs \in Nat /\ m \in Nat
          BY <2>1, <4>1, <4>3, Strides
        <4> QED
          BY <2>1, <4>1, <4>4
      <3> QED
        BY <1>1, <2>3, <3>1 DEF Done
    <2> QED
      BY <2>2, <2>3
  <1>15. Accounted'
    <2>1. \A k \in ColsIn(R) : k # init_value
      BY <1>4, RowFacts
    <2>2. Keys(1)' = Empty(1) /\ Keys(2)' = Empty(2)
      BY <1>6
    <2>3. \A k \in ColsIn(R) : InTables(k)' = 0
      BY <2>1, <2>2, EmptyTable DEF InTables
    <2>4. \A k \in ColsIn(R) : Sum(R, k, {}) = 0
      BY <1>4, SumFacts
    <2>5. crow' \in Seq(ColsIn(R) \X Int) /\ DOMAIN crow' = {} /\ crow' = <<>>
      BY <1>1
    <2> QED
      BY <1>4, <1>14, <2>3, <2>4, <2>5 DEF Accounted
  <1>16. RowCorrect'
    BY <1>1 DEF RowCorrect
  <1> QED
    BY <1>5, <1>7, <1>8, <1>9, <1>11, <1>12, <1>13, <1>15, <1>16 DEF InOrder

-----------------------------------------------------------------------------
(***************************************************************************)
(* The steps of the lanes.                                                 *)
(***************************************************************************)
LEMMA InsertFacts ==
  ASSUME IInv, loads = 1, ph = "insert"
  PROVE  /\ Fitting /\ TableType /\ row \in DOMAIN rows /\ IsRow(Row) /\ Flops = Len(Row) /\ Flops \in Nat
         /\ KeysOnce(Row, 1, Keys(1)) /\ KeysOnce(Row, 2, Keys(2))
         /\ Probed(1, Keys(1)) /\ Probed(2, Keys(2))
         /\ Working /\ Accounted /\ crow = <<>>
  <1>1. InOrder
    BY DEF IInv
  <1>2. Fitting /\ TableType /\ Tables /\ Accounted
    BY <1>1 DEF InOrder
  <1>3. row \in DOMAIN rows /\ rows \in Problems
    BY <1>2 DEF Fitting
  <1>4. Working
    BY DEF Working
  <1>5. IsRow(Row) /\ Flops = Len(Row) /\ Flops \in Nat
    BY <1>3, TheRow, RowFacts
  <1> QED
    BY <1>2, <1>3, <1>4, <1>5 DEF Tables, Accounted

\* The product a lane is at.
LEMMA KeyFacts ==
  ASSUME IInv, loads = 1, Inserting, NEW l \in Lanes, lane[l].pc \notin {"take", "out"}
  PROVE  /\ lane[l].n \in 1 .. Flops /\ lane[l].t \in {1, 2} /\ lane[l].trial \in SlotsOf(lane[l].t)
         /\ Key(l) = Row[lane[l].n][1] /\ Product(l) = Val[Row[lane[l].n][2]] /\ Product(l) \in Int
         /\ Key(l) \in ColsIn(Row) /\ Key(l) \in Nat /\ Key(l) \in Cols /\ Key(l) # init_value
         /\ Slot(l) = Place(Key(l), lane[l].t, lane[l].trial) /\ Slot(l) \in SlotsOf(lane[l].t)
         /\ KeyAt(l) = Keys(lane[l].t)[Slot(l)]
         /\ \A m \in SlotsOf(lane[l].t) : Place(Key(l), lane[l].t, m) \in SlotsOf(lane[l].t)
  <1>1. IsRow(Row) /\ Flops = Len(Row)
    BY InsertFacts DEF Inserting
  <1>2. LaneType(l) /\ LaneKnows(l)
    BY DEF IInv, InOrder, LanesKnow
  <1>3. lane[l].n \in 1 .. Flops /\ lane[l].trial \in SlotsOf(lane[l].t)
    BY <1>2 DEF LaneKnows
  <1>4. lane[l].t \in {1, 2}
    BY <1>2 DEF LaneType
  <1>5. Key(l) = Row[lane[l].n][1] /\ Product(l) = Val[Row[lane[l].n][2]]
    BY DEF Key, Product, Row
  <1>6. /\ Key(l) \in ColsIn(Row) /\ Key(l) \in Nat /\ Key(l) \in Cols /\ Key(l) # init_value
        /\ Product(l) \in Int
    BY <1>1, <1>3, <1>5, RowFacts
  <1>7. Slot(l) = Place(Key(l), lane[l].t, lane[l].trial)
    BY DEF Slot, Place
  <1>8. \A m \in SlotsOf(lane[l].t) : Place(Key(l), lane[l].t, m) \in SlotsOf(lane[l].t)
    BY <1>4, <1>6, PlaceFacts
  <1>9. KeyAt(l) = Keys(lane[l].t)[Slot(l)]
    BY DEF KeyAt, Keys
  <1> QED
    BY <1>3, <1>4, <1>5, <1>6, <1>7, <1>8, <1>9

\* What lane r knows stays true when the others add keys and count.
LEMMA StillKnows ==
  ASSUME IInv, loads = 1, Inserting, NEW r \in Lanes, lane'[r] = lane[r],
         UNCHANGED <<kernel, ph, held>>, used' >= used, used' \in Nat,
         \A t \in {1, 2} : \A s \in SlotsOf(t) : Keys(t)[s] # init_value => Keys(t)'[s] = Keys(t)[s]
  PROVE  LaneType(r)' /\ LaneKnows(r)'
  <1>1. LaneType(r) /\ LaneKnows(r)
    BY DEF IInv, InOrder, LanesKnow
  <1>2. used \in Nat
    BY DEF IInv, InOrder, Counted
  <1>3. LaneType(r)'
    BY <1>1 DEF LaneType
  <1>4. /\ UNCHANGED <<tag, held>> /\ Key(r)' = Key(r) /\ Slot(r)' = Slot(r) /\ Flops' = Flops
    BY DEF kernel, Key, Slot, Hash, Flops
  <1>5. /\ Mine(r, lane[r].n)'
        /\ lane[r].pc = "out" => lane[r].n > Flops
        /\ lane[r].pc \notin {"take", "out"} =>
             /\ lane[r].n \in 1 .. Flops /\ lane[r].trial \in SlotsOf(lane[r].t)
             /\ lane[r].t = 2 => tag = "BigSpread" /\ held
        /\ lane[r].pc \in {"count", "look"} => tag = "BigSpread" /\ lane[r].t = 1
    BY <1>1 DEF LaneKnows, Mine
  <1>6. lane[r].insert_is_on \/ (tag = "BigSpread" /\ used' > MaxFirst)
    <2>1. MaxFirst \in Int
      BY SizeAssumption
    <2>2. lane[r].insert_is_on \/ (tag = "BigSpread" /\ used > MaxFirst)
      BY <1>1 DEF LaneKnows
    <2> QED
      BY <1>2, <2>1, <2>2
  <1>7. CASE lane[r].pc \in {"take", "out", "count", "look"}
    BY <1>3, <1>4, <1>5, <1>6, <1>7 DEF LaneKnows, Mine
  <1>8. CASE lane[r].pc \in {"probe", "second", "exchange", "add"}
    <2>1. PICK k : k = Key(r)
      OBVIOUS
    <2>2. PICK u \in {1, 2} : u = lane[r].t
      BY <1>8, KeyFacts
    <2>3. /\ k # init_value /\ Slot(r) \in SlotsOf(u) /\ KeyAt(r) = Keys(u)[Slot(r)]
          /\ \A m \in SlotsOf(u) : Place(k, u, m) \in SlotsOf(u)
      BY <1>8, <2>1, <2>2, KeyFacts
    <2>4. KeyAt(r)' = Keys(u)'[Slot(r)]
      BY <1>4, <2>2 DEF KeyAt, Keys
    <2>5. KeyAt(r) # init_value => KeyAt(r)' = KeyAt(r)
      BY <2>3, <2>4
    <2>6. lane[r].pc \in {"probe", "second", "exchange"} =>
            \A m \in SlotsOf(u) : m < lane[r].trial => Keys(u)[Place(k, u, m)] \notin {k, init_value}
      BY <1>1, <2>1, <2>2 DEF LaneKnows
    <2>7. lane[r].pc \in {"probe", "second", "exchange"} =>
            \A m \in SlotsOf(u) : m < lane[r].trial => Keys(u)'[Place(k, u, m)] \notin {k, init_value}
      BY <2>3, <2>6
    <2>8. /\ lane[r].pc = "second" => /\ lane[r].seen # k
                                      /\ lane[r].seen # init_value => KeyAt(r)' = lane[r].seen
          /\ lane[r].pc = "add" => KeyAt(r)' = k
      BY <1>1, <2>1, <2>3, <2>5 DEF LaneKnows
    <2> QED
      BY <1>3, <1>4, <1>5, <1>6, <1>8, <2>1, <2>2, <2>7, <2>8 DEF LaneKnows, Mine
  <1> QED
    BY <1>1, <1>7, <1>8 DEF LaneType

\* The counted slots stay the same while nobody counts and lane l adds no key.
LEMMA StillCounted ==
  ASSUME IInv, loads = 1, Inserting, NEW l \in Lanes, \A r \in Lanes : r # l => lane'[r] = lane[r],
         UNCHANGED <<kernel, ph, used>>, Owes(l)' => Owes(l) /\ Slot(l)' = Slot(l),
         \A s \in SlotsOf(1) : Keys(1)[s] # init_value => Keys(1)'[s] = Keys(1)[s]
  PROVE  Counted'
  <1>1. used \in Nat
    BY DEF IInv, InOrder, Counted
  <1>2. PICK C \in SUBSET SlotsOf(1) : CountedSlots(C)
    BY DEF IInv, InOrder, Counted
  <1>3. \A r \in Lanes : Owes(r)' => Owes(r) /\ Slot(r)' = Slot(r)
    BY DEF Owes, Slot, Key, Hash, kernel
  <1>4. \A r \in Lanes : Owes(r) => Slot(r) \in SlotsOf(1)
    <2> SUFFICES ASSUME NEW r \in Lanes, Owes(r) PROVE Slot(r) \in SlotsOf(1)
      OBVIOUS
    <2>1. LaneKnows(r) /\ lane[r].pc \notin {"take", "out"}
      BY DEF IInv, InOrder, LanesKnow, Owes
    <2>2. lane[r].t = 1
      BY <2>1 DEF LaneKnows, Owes
    <2> QED
      BY <2>1, <2>2, KeyFacts
  <1>5. CountedSlots(C)'
    <2>1. /\ \A s \in C : Keys(1)[s] # init_value
          /\ Cardinality(C) = used
          /\ \A r \in Lanes : Owes(r) => Slot(r) \notin C /\ Keys(1)[Slot(r)] # init_value
          /\ \A q, r \in Lanes : Owes(q) /\ Owes(r) /\ Slot(q) = Slot(r) => q = r
      BY <1>2 DEF CountedSlots
    <2>2. \A s \in C : Keys(1)'[s] # init_value
      BY <2>1
    <2>3. \A r \in Lanes : Owes(r)' => Slot(r)' \notin C /\ Keys(1)'[Slot(r)'] # init_value
      BY <1>3, <1>4, <2>1
    <2>4. \A q, r \in Lanes : Owes(q)' /\ Owes(r)' /\ Slot(q)' = Slot(r)' => q = r
      BY <1>3, <2>1
    <2> QED
      BY <2>1, <2>2, <2>3, <2>4 DEF CountedSlots
  <1> QED
    BY <1>1, <1>5 DEF Counted

\* What is done is what each lane has done.
LEMMA StillDone ==
  ASSUME Inserting, UNCHANGED <<tag, ph>>, NEW l \in Lanes, DoneBy(l)' = DoneBy(l),
         UNCHANGED <<rows, row>>, \A r \in Lanes : r # l => lane'[r] = lane[r]
  PROVE  Done' = Done
  <1>1. \A r \in Lanes : DoneBy(r)' = DoneBy(r)
    <2> SUFFICES ASSUME NEW r \in Lanes, r # l PROVE DoneBy(r)' = DoneBy(r)
      OBVIOUS
    <2>1. Flops' = Flops /\ lane'[r] = lane[r]
      BY DEF Flops
    <2> QED
      BY <2>1 DEF DoneBy, Mine
  <1>2. Done = UNION {DoneBy(r) : r \in Lanes}
    BY DEF Done, Inserting
  <1>3. Done' = UNION {DoneBy(r)' : r \in Lanes}
    BY DEF Done, Inserting
  <1> QED
    BY <1>1, <1>2, <1>3

\* A step of lane l that leaves the tables alone.
LEMMA QuietStep ==
  ASSUME IInv, loads = 1, Inserting, NEW l \in Lanes, NEW q, lane' = [lane EXCEPT ![l] = q],
         UNCHANGED <<kernel, ph, held, table, tracked, crow>>, used' \in Nat, used' >= used,
         LaneType(l)', LaneKnows(l)', DoneBy(l)' = DoneBy(l), Counted'
  PROVE  InOrder'
  <1>1. InOrder
    BY DEF IInv
  <1>2. /\ UNCHANGED <<tag, loads, rows, row, ph, held, table, crow>> /\ Row' = Row /\ Flops' = Flops
        /\ \A t : Keys(t)' = Keys(t) /\ Vals(t)' = Vals(t)
        /\ Working' = Working /\ Inserting' = Inserting
    BY DEF kernel, Row, Flops, Keys, Vals, Working, Inserting
  <1>3. lane = [r \in Lanes |-> lane[r]]
    BY <1>1 DEF InOrder, LanesKnow
  <1>4. lane' = [r \in Lanes |-> lane'[r]] /\ \A r \in Lanes : r # l => lane'[r] = lane[r]
    BY <1>3
  <1>5. Fitting'
    BY <1>1, <1>2 DEF InOrder, Fitting, CSize, ColsOf
  <1>6. TableType' /\ Clean'
    BY <1>1, <1>2 DEF InOrder, TableType, Clean
  <1>7. Tables'
    BY <1>1, <1>2 DEF InOrder, Tables, Unused
  <1>8. LanesKnow'
    <2>1. ASSUME NEW r \in Lanes PROVE LaneType(r)' /\ LaneKnows(r)'
      <3>1. CASE r = l
        BY <3>1
      <3>2. CASE r # l
        BY <1>2, <1>4, <3>2, StillKnows
      <3> QED
        BY <3>1, <3>2
    <2> QED
      BY <1>4, <2>1 DEF LanesKnow
  <1>9. Done' = Done
    BY <1>2, <1>4, StillDone
  <1>10. Accounted'
    <2>1. Accounted
      BY <1>1 DEF InOrder
    <2>2. \A k : InTables(k)' = InTables(k) /\ (Somewhere(k)' <=> Somewhere(k)) /\ (InRow(k)' <=> InRow(k))
      BY <1>2 DEF InTables, Somewhere, InRow
    <2>3. PICK D : D = Done
      OBVIOUS
    <2>4. Done' = D
      BY <1>9, <2>3
    <2> QED
      BY <1>2, <2>1, <2>2, <2>3, <2>4 DEF Accounted
  <1>11. Listed' /\ RowCorrect'
    BY <1>2 DEF Listed, RowCorrect, Inserting
  <1> QED
    BY <1>5, <1>6, <1>7, <1>8, <1>10, <1>11 DEF InOrder

LEMMA TakeKeeps ==
  ASSUME IInv, loads = 1, NEW l \in Lanes, Take(l)
  PROVE  InOrder'
  <1>1. Inserting /\ lane[l].pc = "take" /\ UNCHANGED <<kernel, ph, held, table, used, tracked, crow>>
    BY DEF Take, At, Inserting
  <1>2. LaneType(l) /\ LaneKnows(l) /\ lane = [r \in Lanes |-> lane[r]] /\ used \in Nat
    BY <1>1 DEF IInv, InOrder, LanesKnow, Counted
  <1> DEFINE q == IF lane[l].n > Flops THEN [lane[l] EXCEPT !.pc = "out"]
                  ELSE [lane[l] EXCEPT !.pc = "probe", !.t = 1, !.trial = 0]
  <1>3. lane' = [lane EXCEPT ![l] = q] /\ lane'[l] = q /\ \A r \in Lanes : r # l => lane'[r] = lane[r]
    BY <1>2 DEF Take, Goto
  <1>4. /\ q.n = lane[l].n /\ q.insert_is_on = lane[l].insert_is_on
        /\ lane[l].n > Flops => q.pc = "out"
        /\ ~ (lane[l].n > Flops) => q.pc = "probe" /\ q.t = 1 /\ q.trial = 0
        /\ q.pc \in {"out", "probe"}
    BY <1>2 DEF LaneType
  <1>5. LaneType(l)'
    BY <1>2, <1>3 DEF LaneType
  <1> HIDE DEF q
  <1>6. Flops' = Flops /\ UNCHANGED <<tag, held, used>>
    BY <1>1 DEF kernel, Flops
  <1>7. LaneKnows(l)'
    <2>1. Flops \in Nat /\ lane[l].n \in Nat \ {0} /\ 0 \in SlotsOf(1) /\ \A m \in SlotsOf(1) : ~ (m < 0)
      <3>1. Flops \in Nat
        BY <1>1, InsertFacts DEF Inserting
      <3>2. Mine(l, lane[l].n) /\ l + 1 > 0
        BY <1>2, Strides DEF LaneKnows
      <3>3. lane[l].n \in Nat \ {0}
        <4>1. PICK j \in Nat : lane[l].n = l + 1 + j * bs
          BY <3>2 DEF Mine
        <4>2. l \in Nat /\ bs \in Nat
          BY Strides
        <4>3. j * bs \in Nat
          BY <4>2
        <4> QED
          BY <4>1, <4>2, <4>3
      <3>4. TableSize[1] \in Nat \ {0}
        BY SizeAssumption
      <3> QED
        BY <3>1, <3>3, <3>4 DEF SlotsOf
    <2>2. CASE lane[l].n > Flops
      BY <1>2, <1>3, <1>4, <1>6, <2>1, <2>2 DEF LaneKnows, Mine
    <2>3. CASE ~ (lane[l].n > Flops)
      BY <1>2, <1>3, <1>4, <1>6, <2>1, <2>3 DEF LaneKnows, Mine
    <2> QED
      BY <2>2, <2>3
  <1>8. DoneBy(l)' = DoneBy(l)
    BY <1>1, <1>3, <1>4, <1>6 DEF DoneBy, Mine
  <1>9. Counted'
    <2>1. ~ Owes(l)'
      BY <1>3, <1>4 DEF Owes
    <2>2. Keys(1)' = Keys(1)
      BY <1>1 DEF Keys
    <2> QED
      BY <1>1, <1>3, <2>1, <2>2, StillCounted
  <1> QED
    BY <1>1, <1>2, <1>3, <1>5, <1>7, <1>8, <1>9, QuietStep

LEMMA ProbeKeeps ==
  ASSUME IInv, loads = 1, NEW l \in Lanes, Probe(l)
  PROVE  InOrder'
  <1>1. Inserting /\ lane[l].pc = "probe" /\ UNCHANGED <<kernel, ph, held, table, used, tracked, crow>>
    BY DEF Probe, At, Inserting
  <1>2. LaneType(l) /\ LaneKnows(l) /\ lane = [r \in Lanes |-> lane[r]] /\ used \in Nat
    BY <1>1 DEF IInv, InOrder, LanesKnow, Counted
  <1> DEFINE q == IF KeyAt(l) = Key(l) THEN [lane[l] EXCEPT !.pc = "add", !.new = FALSE]
                  ELSE [lane[l] EXCEPT !.pc = "second", !.seen = KeyAt(l)]
  <1>3. lane' = [lane EXCEPT ![l] = q] /\ lane'[l] = q /\ \A r \in Lanes : r # l => lane'[r] = lane[r]
    BY <1>2 DEF Probe, Goto
  <1>4. /\ q.n = lane[l].n /\ q.insert_is_on = lane[l].insert_is_on
        /\ q.t = lane[l].t /\ q.trial = lane[l].trial
        /\ KeyAt(l) = Key(l) => q.pc = "add" /\ ~ q.new
        /\ KeyAt(l) # Key(l) => q.pc = "second" /\ q.seen = KeyAt(l)
    BY <1>2 DEF LaneType
  <1>5. /\ lane[l].n \in 1 .. Flops /\ lane[l].t \in {1, 2} /\ Slot(l) \in SlotsOf(lane[l].t)
        /\ KeyAt(l) = Keys(lane[l].t)[Slot(l)]
    BY <1>1, KeyFacts
  <1>6. KeyAt(l) \in Cols \union {init_value}
    BY <1>5 DEF IInv, InOrder, TableType
  <1>7. LaneType(l)'
    BY <1>2, <1>3, <1>6, Zenon DEF LaneType
  <1> HIDE DEF q
  <1>8. /\ Flops' = Flops /\ UNCHANGED <<tag, held, used, table>> /\ Key(l)' = Key(l) /\ KeyAt(l)' = KeyAt(l)
        /\ \A t : Keys(t)' = Keys(t)
    BY <1>1, <1>3, <1>4, Zenon DEF kernel, Flops, Key, KeyAt, Slot, Hash, Keys
  <1>9. LaneKnows(l)'
    <2>1. CASE KeyAt(l) = Key(l)
      BY <1>1, <1>2, <1>3, <1>4, <1>8, <2>1 DEF LaneKnows, Mine
    <2>2. CASE KeyAt(l) # Key(l)
      BY <1>1, <1>2, <1>3, <1>4, <1>8, <2>2 DEF LaneKnows, Mine
    <2> QED
      BY <2>1, <2>2
  <1>10. DoneBy(l)' = DoneBy(l)
    BY <1>1, <1>3, <1>4, <1>8 DEF DoneBy, Mine
  <1>11. Counted'
    <2>1. ~ Owes(l)'
      BY <1>3, <1>4 DEF Owes
    <2> QED
      BY <1>1, <1>3, <1>8, <2>1, StillCounted
  <1> QED
    BY <1>1, <1>2, <1>3, <1>7, <1>9, <1>10, <1>11, QuietStep

\* A lane that may not add its column to the first table, or finds no slot for it, has
\* the second table; and in the second table it finds one.
LEMMA SecondTableIsThere ==
  ASSUME IInv, loads = 1, Inserting, NEW l \in Lanes, lane[l].pc = "second",
         \/ lane[l].seen = init_value /\ lane[l].t # 2 /\ ~ lane[l].insert_is_on
         \/ lane[l].seen # init_value /\ ~ (lane[l].trial + 1 < TableSize[lane[l].t])
  PROVE  lane[l].t = 1 /\ tag = "BigSpread" /\ held
  <1>1. /\ lane[l].t \in {1, 2} /\ lane[l].trial \in SlotsOf(lane[l].t)
        /\ Key(l) \in ColsIn(Row) /\ Slot(l) = Place(Key(l), lane[l].t, lane[l].trial)
        /\ KeyAt(l) = Keys(lane[l].t)[Slot(l)]
    BY KeyFacts
  <1>2. LaneKnows(l)
    BY DEF IInv, InOrder, LanesKnow
  <1>3. /\ IsRow(Row) /\ KeysOnce(Row, 1, Keys(1)) /\ KeysOnce(Row, 2, Keys(2))
        /\ row \in DOMAIN rows /\ Fitting
    BY InsertFacts DEF Inserting
  <1>4. PICK c \in Nat : c = Cardinality(ColsIn(Row)) /\ c = CSize(row)
    BY <1>3, RowFacts, TheRow DEF Fitting
  <1>5. MaxFirst \in Nat /\ TableSize[1] \in Nat /\ TableSize[2] \in Nat /\ MaxFirst <= TableSize[1]
    BY SizeAssumption
  <1>6. CASE lane[l].seen = init_value /\ lane[l].t # 2 /\ ~ lane[l].insert_is_on
    <2>1. tag = "BigSpread" /\ used > MaxFirst /\ used \in Nat
      BY <1>2, <1>6 DEF LaneKnows, IInv, InOrder, Counted
    <2>2. PICK C \in SUBSET SlotsOf(1) : CountedSlots(C)
      BY DEF IInv, InOrder, Counted
    <2>3. Cardinality(C) = used /\ \A s \in C : Keys(1)[s] # init_value
      BY <2>2 DEF CountedSlots
    <2>4. used <= c
      <3>1. 1 \in {1, 2}
        OBVIOUS
      <3> QED
        BY <1>3, <1>4, <2>3, <3>1, OccupiedSlots
    <2>5. NeedsChunk
      BY <1>4, <1>5, <2>1, <2>4 DEF NeedsChunk
    <2> QED
      BY <1>1, <1>6, <2>1, <2>5 DEF IInv, Chunks, Inserting
  <1>7. CASE lane[l].seen # init_value /\ ~ (lane[l].trial + 1 < TableSize[lane[l].t])
    <2>1. PICK u \in {1, 2} : u = lane[l].t
      BY <1>1
    <2>2. \A m \in SlotsOf(u) : m < lane[l].trial \/ m = lane[l].trial
      BY <1>1, <1>5, <1>7, <2>1 DEF SlotsOf
    <2>3. /\ Keys(u)[Place(Key(l), u, lane[l].trial)] \notin {Key(l), init_value}
          /\ \A m \in SlotsOf(u) : m < lane[l].trial => Keys(u)[Place(Key(l), u, m)] \notin {Key(l), init_value}
      BY <1>1, <1>2, <1>7, <2>1 DEF LaneKnows
    <2>4. \A m \in SlotsOf(u) : Keys(u)[Place(Key(l), u, m)] \notin {Key(l), init_value}
      BY <2>2, <2>3
    <2>5. KeysOnce(Row, u, Keys(u))
      BY <1>3
    <2>6. TableSize[u] < c
      BY <1>1, <1>3, <1>4, <2>4, <2>5, FullTable
    <2>7. tag = "BigSpread" /\ u = 1
      <3>1. tag \in Tags /\ tag # "LP" /\ lane[l].t = 2 => tag = "BigSpread"
        BY <1>2 DEF IInv, Chunks, Inserting, LaneKnows
      <3>2. tag = "Spread" => c < TableSize[1]
        BY <1>3, <1>4 DEF Fitting
      <3>3. tag # "Spread" => c <= TableSize[2]
        BY <1>3, <1>4 DEF Fitting
      <3>4. tag \in Tags /\ tag # "LP" /\ (lane[l].t = 2 => tag = "BigSpread")
        BY <1>2 DEF IInv, Chunks, Inserting, LaneKnows
      <3>5. u # 2
        BY <1>4, <1>5, <2>1, <2>6, <3>3, <3>4
      <3> QED
        BY <1>4, <1>5, <2>6, <3>2, <3>4, <3>5 DEF Tags
    <2>8. NeedsChunk
      BY <1>4, <1>5, <2>6, <2>7 DEF NeedsChunk
    <2> QED
      BY <2>1, <2>7, <2>8 DEF IInv, Chunks, Inserting
  <1> QED
    BY <1>6, <1>7

LEMMA SecondLookKeeps ==
  ASSUME IInv, loads = 1, NEW l \in Lanes, SecondLook(l)
  PROVE  InOrder'
  <1>1. Inserting /\ lane[l].pc = "second" /\ UNCHANGED <<kernel, ph, held, table, used, tracked, crow>>
    BY DEF SecondLook, At, Inserting
  <1>2. LaneType(l) /\ LaneKnows(l) /\ lane = [r \in Lanes |-> lane[r]] /\ used \in Nat
    BY <1>1 DEF IInv, InOrder, LanesKnow, Counted
  <1>3. PICK q :
          /\ lane' = [lane EXCEPT ![l] = q]
          /\ \/ /\ q = [lane[l] EXCEPT !.pc = "exchange"]
             \/ /\ q = [lane[l] EXCEPT !.pc = "probe", !.trial = @ + 1]
                /\ lane[l].seen # init_value /\ lane[l].trial + 1 < TableSize[lane[l].t]
             \/ /\ q = [lane[l] EXCEPT !.pc = "probe", !.t = 2, !.trial = 0]
                /\ tag = "BigSpread" /\ held
    <2> DEFINE mayAdd == lane[l].t = 2 \/ lane[l].insert_is_on
               more == lane[l].trial + 1 < TableSize[lane[l].t]
    <2>1. \/ /\ lane[l].seen = init_value /\ mayAdd
             /\ Goto(l, [lane[l] EXCEPT !.pc = "exchange"])
          \/ /\ lane[l].seen # init_value /\ more
             /\ Goto(l, [lane[l] EXCEPT !.pc = "probe", !.trial = @ + 1])
          \/ /\ IF lane[l].seen = init_value THEN ~ mayAdd ELSE ~ more
             /\ Goto(l, OtherTable(l))
      BY DEF SecondLook
    <2>2. CASE /\ IF lane[l].seen = init_value THEN ~ mayAdd ELSE ~ more
               /\ Goto(l, OtherTable(l))
      <3>1. lane[l].t = 1 /\ tag = "BigSpread" /\ held
        BY <1>1, <2>2, SecondTableIsThere
      <3> QED
        BY <2>2, <3>1 DEF OtherTable, Goto
    <2>3. CASE /\ lane[l].seen = init_value /\ mayAdd
               /\ Goto(l, [lane[l] EXCEPT !.pc = "exchange"])
      BY <2>3 DEF Goto
    <2>4. CASE /\ lane[l].seen # init_value /\ more
               /\ Goto(l, [lane[l] EXCEPT !.pc = "probe", !.trial = @ + 1])
      BY <2>4 DEF Goto
    <2> QED
      BY <2>1, <2>2, <2>3, <2>4
  <1>4. lane'[l] = q /\ \A r \in Lanes : r # l => lane'[r] = lane[r]
    BY <1>2, <1>3
  <1>5. /\ lane[l].n \in 1 .. Flops /\ lane[l].t \in {1, 2} /\ lane[l].trial \in SlotsOf(lane[l].t)
        /\ KeyAt(l) = Keys(lane[l].t)[Slot(l)] /\ Slot(l) = Place(Key(l), lane[l].t, lane[l].trial)
    BY <1>1, KeyFacts
  <1>6. /\ Flops' = Flops /\ UNCHANGED <<tag, held, used, table>> /\ \A t : Keys(t)' = Keys(t)
    BY <1>1 DEF kernel, Flops, Keys
  <1>7. /\ q.n = lane[l].n /\ q.insert_is_on = lane[l].insert_is_on /\ q.pc \in {"exchange", "probe"}
        /\ q.trial \in SlotsOf(q.t) /\ (q.t = 2 => tag = "BigSpread" /\ held)
        /\ \A m \in SlotsOf(q.t) : m < q.trial => Keys(q.t)[Place(Key(l), q.t, m)] \notin {Key(l), init_value}
        /\ LaneType(l)'
    <2>1. /\ TableSize[1] \in Nat \ {0} /\ TableSize[2] \in Nat \ {0}
          /\ lane[l].t = 2 => tag = "BigSpread" /\ held
          /\ \A m \in SlotsOf(lane[l].t) : m < lane[l].trial =>
                Keys(lane[l].t)[Place(Key(l), lane[l].t, m)] \notin {Key(l), init_value}
      BY <1>1, <1>2, SizeAssumption DEF LaneKnows
    <2>2. CASE q = [lane[l] EXCEPT !.pc = "exchange"]
      <3>1. /\ q.n = lane[l].n /\ q.insert_is_on = lane[l].insert_is_on /\ q.pc = "exchange"
            /\ q.t = lane[l].t /\ q.trial = lane[l].trial
        BY <1>2, <2>2 DEF LaneType
      <3>2. LaneType(l)'
        BY <1>2, <1>4, <2>2 DEF LaneType
      <3> QED
        BY <1>5, <2>1, <3>1, <3>2
    <2>3. CASE /\ q = [lane[l] EXCEPT !.pc = "probe", !.trial = @ + 1]
               /\ lane[l].seen # init_value /\ lane[l].trial + 1 < TableSize[lane[l].t]
      <3>1. /\ q.n = lane[l].n /\ q.insert_is_on = lane[l].insert_is_on /\ q.pc = "probe"
            /\ q.t = lane[l].t /\ q.trial = lane[l].trial + 1
        BY <1>2, <2>3 DEF LaneType
      <3>2. LaneType(l)'
        <4>1. q = [pc |-> "probe", n |-> lane[l].n, insert_is_on |-> lane[l].insert_is_on,
                   t |-> lane[l].t, trial |-> lane[l].trial + 1, seen |-> lane[l].seen, new |-> lane[l].new]
          BY <1>2, <2>3 DEF LaneType
        <4>2. lane[l].trial + 1 \in Nat
          BY <1>2 DEF LaneType
        <4> QED
          BY <1>2, <1>4, <4>1, <4>2 DEF LaneType
      <3>3. lane[l].trial \in Nat /\ q.trial \in SlotsOf(q.t)
        BY <1>5, <2>1, <2>3, <3>1 DEF SlotsOf
      <3>4. Keys(q.t)[Place(Key(l), q.t, lane[l].trial)] \notin {Key(l), init_value}
        BY <1>1, <1>2, <1>5, <2>3, <3>1 DEF LaneKnows
      <3>5. \A m \in SlotsOf(q.t) : m < q.trial => m < lane[l].trial \/ m = lane[l].trial
        BY <3>1, <3>3 DEF SlotsOf
      <3> QED
        BY <2>1, <3>1, <3>2, <3>3, <3>4, <3>5
    <2>4. CASE /\ q = [lane[l] EXCEPT !.pc = "probe", !.t = 2, !.trial = 0]
               /\ tag = "BigSpread" /\ held
      <3>1. /\ q.n = lane[l].n /\ q.insert_is_on = lane[l].insert_is_on /\ q.pc = "probe"
            /\ q.t = 2 /\ q.trial = 0
        BY <1>2, <2>4 DEF LaneType
      <3>2. LaneType(l)'
        <4>1. q = [pc |-> "probe", n |-> lane[l].n, insert_is_on |-> lane[l].insert_is_on,
                   t |-> 2, trial |-> 0, seen |-> lane[l].seen, new |-> lane[l].new]
          BY <1>2, <2>4 DEF LaneType
        <4>2. lane[l].trial + 1 \in Nat
          BY <1>2 DEF LaneType
        <4> QED
          BY <1>2, <1>4, <4>1, <4>2 DEF LaneType
      <3>3. 0 \in SlotsOf(2) /\ \A m \in SlotsOf(2) : ~ (m < 0)
        BY <2>1 DEF SlotsOf
      <3> QED
        BY <2>4, <3>1, <3>2, <3>3
    <2> QED
      BY <1>3, <2>2, <2>3, <2>4
  <1>8. LaneKnows(l)'
    <2>1. Key(l)' = Key(l)
      BY <1>1, <1>4, <1>7 DEF kernel, Key
    <2> QED
      BY <1>2, <1>4, <1>5, <1>6, <1>7, <2>1 DEF LaneKnows, Mine
  <1>9. DoneBy(l)' = DoneBy(l)
    BY <1>1, <1>4, <1>6, <1>7 DEF DoneBy, Mine
  <1>10. Counted'
    <2>1. ~ Owes(l)'
      BY <1>4, <1>7 DEF Owes
    <2> QED
      BY <1>1, <1>4, <1>6, <2>1, StillCounted
  <1> QED
    BY <1>1, <1>2, <1>3, <1>7, <1>8, <1>9, <1>10, QuietStep

LEMMA CountKeeps ==
  ASSUME IInv, loads = 1, NEW l \in Lanes, Count(l)
  PROVE  InOrder'
  <1>1. /\ Inserting /\ lane[l].pc = "count" /\ UNCHANGED <<kernel, ph, held, table, tracked, crow>>
        /\ used' = used + 1
    BY DEF Count, At, Inserting
  <1>2. LaneType(l) /\ LaneKnows(l) /\ lane = [r \in Lanes |-> lane[r]] /\ used \in Nat
    BY <1>1 DEF IInv, InOrder, LanesKnow, Counted
  <1>3. PICK q : q = [lane[l] EXCEPT !.pc = "look"]
    OBVIOUS
  <1>4. lane' = [lane EXCEPT ![l] = q] /\ lane'[l] = q /\ \A r \in Lanes : r # l => lane'[r] = lane[r]
    BY <1>2, <1>3 DEF Count, Goto
  <1>5. /\ q.n = lane[l].n /\ q.insert_is_on = lane[l].insert_is_on /\ q.pc = "look"
        /\ q.t = lane[l].t /\ q.trial = lane[l].trial
    BY <1>2, <1>3 DEF LaneType
  <1>6. LaneType(l)'
    BY <1>2, <1>3, <1>4 DEF LaneType
  <1>7. /\ Flops' = Flops /\ UNCHANGED <<tag, held, table, ph>> /\ \A t : Keys(t)' = Keys(t)
        /\ \A r \in Lanes : r # l => Slot(r)' = Slot(r)
    BY <1>1, <1>4 DEF kernel, Flops, Keys, Slot, Key, Hash
  <1>8. LaneKnows(l)'
    <2>1. lane[l].insert_is_on \/ (tag = "BigSpread" /\ used' > MaxFirst)
      <3>1. MaxFirst \in Int
        BY SizeAssumption
      <3>2. lane[l].insert_is_on \/ (tag = "BigSpread" /\ used > MaxFirst)
        BY <1>2 DEF LaneKnows
      <3> QED
        BY <1>1, <1>2, <3>1, <3>2
    <2> QED
      BY <1>1, <1>2, <1>4, <1>5, <1>7, <2>1 DEF LaneKnows, Mine
  <1>9. DoneBy(l)' = DoneBy(l)
    BY <1>1, <1>4, <1>5, <1>7 DEF DoneBy, Mine
  <1>10. Counted'
    <2>1. PICK C \in SUBSET SlotsOf(1) : CountedSlots(C)
      BY <1>1 DEF IInv, InOrder, Counted
    <2>2. /\ \A s \in C : Keys(1)[s] # init_value
          /\ Cardinality(C) = used
          /\ \A r \in Lanes : Owes(r) => Slot(r) \notin C /\ Keys(1)[Slot(r)] # init_value
          /\ \A p, r \in Lanes : Owes(p) /\ Owes(r) /\ Slot(p) = Slot(r) => p = r
      BY <2>1 DEF CountedSlots
    <2>3. Owes(l) /\ lane[l].t = 1 /\ Slot(l) \in SlotsOf(1)
      <3>1. lane[l].t = 1
        BY <1>1, <1>2 DEF LaneKnows
      <3> QED
        BY <1>1, <3>1, KeyFacts DEF Owes
    <2>4. PICK E \in SUBSET SlotsOf(1) : E = C \union {Slot(l)}
      BY <2>3
    <2>5. IsFiniteSet(C) /\ Cardinality(E) = used + 1
      <3>1. IsRow(Row) /\ KeysOnce(Row, 1, Keys(1)) /\ 1 \in {1, 2}
        BY <1>1, InsertFacts DEF Inserting
      <3>2. IsFiniteSet(C)
        BY <2>2, <3>1, OccupiedSlots
      <3>3. Slot(l) \notin C
        BY <2>2, <2>3
      <3> QED
        BY <2>2, <2>4, <3>2, <3>3, FS_AddElement
    <2>6. \A r \in Lanes : Owes(r)' => r # l /\ Owes(r)
      BY <1>4, <1>5 DEF Owes
    <2>7. CountedSlots(E)'
      <3>1. \A s \in E : Keys(1)'[s] # init_value
        BY <1>7, <2>2, <2>3, <2>4
      <3>2. \A r \in Lanes : Owes(r)' => Slot(r)' \notin E /\ Keys(1)'[Slot(r)'] # init_value
        BY <1>7, <2>2, <2>3, <2>4, <2>6
      <3>3. \A p, r \in Lanes : Owes(p)' /\ Owes(r)' /\ Slot(p)' = Slot(r)' => p = r
        BY <1>7, <2>2, <2>6
      <3> QED
        BY <1>1, <2>5, <3>1, <3>2, <3>3 DEF CountedSlots
    <2> QED
      BY <1>1, <1>2, <2>7 DEF Counted
  <1>11. used' \in Nat /\ used' >= used
    BY <1>1, <1>2
  <1> QED
    BY <1>1, <1>2, <1>4, <1>6, <1>8, <1>9, <1>10, <1>11, QuietStep

\* A lane that goes on to its next product: what it has done up to there.
LEMMA NextProductFacts ==
  ASSUME NEW l \in Lanes, LaneType(l), LaneKnows(l), NEW q, q = NextProduct(l)
  PROVE  /\ q.pc = "take" /\ q.n = lane[l].n + bs /\ q.insert_is_on = lane[l].insert_is_on
         /\ q.n \in Nat /\ Mine(l, q.n)
         /\ q \in [pc : {"take", "probe", "second", "exchange", "add", "count", "look", "out"}, n : Nat,
                   insert_is_on : BOOLEAN, t : {1, 2}, trial : Nat,
                   seen : Cols \union {init_value}, new : BOOLEAN]
         /\ \A m : Mine(l, m) => (m < q.n <=> m < lane[l].n \/ m = lane[l].n)
  <1>1. q = [lane[l] EXCEPT !.pc = "take", !.n = lane[l].n + bs]
    BY DEF NextProduct, bs
  <1>2. /\ q.pc = "take" /\ q.n = lane[l].n + bs /\ q.insert_is_on = lane[l].insert_is_on
    BY <1>1 DEF LaneType
  <1>3. bs \in Nat \ {0} /\ lane[l].n \in Nat /\ q.n \in Nat
    <2>1. bs \in Nat \ {0}
      BY Strides
    <2>2. lane[l].n \in Nat
      BY DEF LaneType
    <2> QED
      BY <1>2, <2>1, <2>2
  <1>4. Mine(l, lane[l].n) /\ Mine(l, lane[l].n + bs)
    BY Strides DEF LaneKnows
  <1>5. q \in [pc : {"take", "probe", "second", "exchange", "add", "count", "look", "out"}, n : Nat,
               insert_is_on : BOOLEAN, t : {1, 2}, trial : Nat,
               seen : Cols \union {init_value}, new : BOOLEAN]
    BY <1>1, <1>3 DEF LaneType
  <1>6. ASSUME NEW m, Mine(l, m) PROVE m < q.n <=> m < lane[l].n \/ m = lane[l].n
    <2>1. m \in Nat
      BY <1>6, Strides
    <2>2. ~ (lane[l].n < m /\ m < lane[l].n + bs)
      <3>1. lane[l].n < m => lane[l].n + bs <= m
        BY <1>4, <1>6, Strides
      <3> QED
        BY <1>3, <2>1, <3>1
    <2> QED
      BY <1>2, <1>3, <2>1, <2>2
  <1> QED
    BY <1>2, <1>3, <1>4, <1>5, <1>6

LEMMA LookKeeps ==
  ASSUME IInv, loads = 1, NEW l \in Lanes, Look(l)
  PROVE  InOrder'
  <1>1. /\ Inserting /\ lane[l].pc = "look" /\ UNCHANGED <<kernel, ph, held, table, used, tracked, crow>>
    BY DEF Look, At, Inserting
  <1>2. LaneType(l) /\ LaneKnows(l) /\ lane = [r \in Lanes |-> lane[r]] /\ used \in Nat
    BY <1>1 DEF IInv, InOrder, LanesKnow, Counted
  <1>3. PICK p : p = NextProduct(l)
    OBVIOUS
  <1>4. PICK on \in BOOLEAN : on = (lane[l].insert_is_on /\ used <= MaxFirst)
    OBVIOUS
  <1>5. /\ p.pc = "take" /\ p.n = lane[l].n + bs /\ p.insert_is_on = lane[l].insert_is_on
        /\ p.n \in Nat /\ Mine(l, p.n)
        /\ p \in [pc : {"take", "probe", "second", "exchange", "add", "count", "look", "out"}, n : Nat,
                  insert_is_on : BOOLEAN, t : {1, 2}, trial : Nat,
                  seen : Cols \union {init_value}, new : BOOLEAN]
        /\ \A m : Mine(l, m) => (m < p.n <=> m < lane[l].n \/ m = lane[l].n)
    BY <1>2, <1>3, NextProductFacts
  <1>6. PICK q : q = [p EXCEPT !.insert_is_on = on]
    OBVIOUS
  <1>7. lane' = [lane EXCEPT ![l] = q] /\ lane'[l] = q /\ \A r \in Lanes : r # l => lane'[r] = lane[r]
    <2>1. lane' = [lane EXCEPT ![l] = [p EXCEPT !.insert_is_on = @ /\ used <= MaxFirst]]
      BY <1>3 DEF Look, Goto
    <2>2. [p EXCEPT !.insert_is_on = @ /\ used <= MaxFirst] = q
      BY <1>4, <1>5, <1>6
    <2> QED
      BY <1>2, <2>1, <2>2
  <1>8. q.pc = "take" /\ q.n = p.n /\ q.insert_is_on = on
    BY <1>5, <1>6
  <1>9. LaneType(l)'
    BY <1>5, <1>6, <1>7 DEF LaneType
  <1>10. /\ Flops' = Flops /\ UNCHANGED <<tag, held, used>> /\ Keys(1)' = Keys(1)
    BY <1>1 DEF kernel, Flops, Keys
  <1>11. LaneKnows(l)'
    <2>1. on \/ (tag = "BigSpread" /\ used > MaxFirst)
      <3>1. MaxFirst \in Int
        BY SizeAssumption
      <3>2. tag = "BigSpread" /\ (lane[l].insert_is_on \/ used > MaxFirst)
        BY <1>1, <1>2 DEF LaneKnows
      <3>3. CASE used <= MaxFirst
        BY <1>2, <1>4, <3>1, <3>2, <3>3
      <3>4. CASE ~ (used <= MaxFirst)
        BY <1>2, <3>1, <3>2, <3>4
      <3> QED
        BY <3>3, <3>4
    <2> QED
      BY <1>5, <1>7, <1>8, <1>10, <2>1 DEF LaneKnows, Mine
  <1>12. DoneBy(l)' = DoneBy(l)
    <2>1. DoneBy(l)' = {m \in 1 .. Flops : Mine(l, m) /\ m < p.n}
      BY <1>7, <1>8, <1>10 DEF DoneBy, Mine
    <2>2. DoneBy(l) = {m \in 1 .. Flops : Mine(l, m) /\ (m < lane[l].n \/ m = lane[l].n)}
      BY <1>1 DEF DoneBy
    <2> QED
      BY <1>5, <2>1, <2>2
  <1>13. Counted'
    <2>1. ~ Owes(l)'
      BY <1>7, <1>8 DEF Owes
    <2> QED
      BY <1>1, <1>7, <1>10, <2>1, StillCounted
  <1> QED
    BY <1>1, <1>2, <1>7, <1>9, <1>11, <1>12, <1>13, QuietStep

\* Writing one slot of one table.
LEMMA WriteKey ==
  ASSUME NEW tb, TwoTables(tb),
         NEW u \in {1, 2}, NEW s, NEW k, NEW nt, KeyWritten(tb, u, s, k, nt)
  PROVE  /\ TwoTables(nt)
         /\ Put(tb[u].keys, s, k, nt[u].keys)
         /\ \A t \in {1, 2} : nt[t].vals = tb[t].vals /\ (t # u => nt[t].keys = tb[t].keys)
  <1>1. PICK K : K = tb[u].keys
    OBVIOUS
  <1>2. PICK W : W = tb[u].vals
    OBVIOUS
  <1>3. DOMAIN tb = {1, 2} /\ tb = [t \in {1, 2} |-> tb[t]] /\ tb[u] = [keys |-> K, vals |-> W]
    BY <1>1, <1>2 DEF TwoTables
  <1>4a. PICK c : c = [tb[u] EXCEPT !.keys[s] = k]
    OBVIOUS
  <1>4b. c = [keys |-> [K EXCEPT ![s] = k], vals |-> W]
    BY <1>3, <1>4a
  <1>4c. nt = [tb EXCEPT ![u] = c]
    BY <1>3, <1>4a DEF KeyWritten
  <1>4. nt = [t \in {1, 2} |-> IF t = u THEN [keys |-> [K EXCEPT ![s] = k], vals |-> W] ELSE tb[t]]
    BY <1>3, <1>4b, <1>4c
  <1>5. /\ nt[u] = [keys |-> [K EXCEPT ![s] = k], vals |-> W]
        /\ \A t \in {1, 2} : t # u => nt[t] = tb[t] /\ tb[t] = [keys |-> tb[t].keys, vals |-> tb[t].vals]
    BY <1>4 DEF TwoTables
  <1>6. nt[u].keys = [K EXCEPT ![s] = k] /\ nt[u].vals = W
    BY <1>5
  <1>7. \A t \in {1, 2} : t # u => nt[t].keys = tb[t].keys /\ nt[t].vals = tb[t].vals
    BY <1>5
  <1>8. \A t \in {1, 2} : nt[t] = [keys |-> nt[t].keys, vals |-> nt[t].vals]
    BY <1>5, <1>6, <1>7
  <1>9. nt = [t \in {1, 2} |-> nt[t]]
    BY <1>4
  <1>10. TwoTables(nt)
    BY <1>8, <1>9 DEF TwoTables
  <1> QED
    BY <1>1, <1>2, <1>6, <1>7, <1>10 DEF Put

LEMMA WriteVal ==
  ASSUME NEW tb, TwoTables(tb),
         NEW u \in {1, 2}, NEW s, NEW x, NEW nt, ValAdded(tb, u, s, x, nt)
  PROVE  /\ TwoTables(nt)
         /\ Put(tb[u].vals, s, tb[u].vals[s] + x, nt[u].vals)
         /\ \A t \in {1, 2} : nt[t].keys = tb[t].keys /\ (t # u => nt[t].vals = tb[t].vals)
  <1>1. PICK K : K = tb[u].keys
    OBVIOUS
  <1>2. PICK W : W = tb[u].vals
    OBVIOUS
  <1>3. DOMAIN tb = {1, 2} /\ tb = [t \in {1, 2} |-> tb[t]] /\ tb[u] = [keys |-> K, vals |-> W]
    BY <1>1, <1>2 DEF TwoTables
  <1>4a. PICK c : c = [tb[u] EXCEPT !.vals[s] = @ + x]
    OBVIOUS
  <1>4b. c = [keys |-> K, vals |-> [W EXCEPT ![s] = W[s] + x]]
    BY <1>3, <1>4a
  <1>4c. nt = [tb EXCEPT ![u] = c]
    BY <1>3, <1>4a DEF ValAdded
  <1>4. nt = [t \in {1, 2} |-> IF t = u THEN [keys |-> K, vals |-> [W EXCEPT ![s] = W[s] + x]] ELSE tb[t]]
    BY <1>3, <1>4b, <1>4c
  <1>5. /\ nt[u] = [keys |-> K, vals |-> [W EXCEPT ![s] = W[s] + x]]
        /\ \A t \in {1, 2} : t # u => nt[t] = tb[t] /\ tb[t] = [keys |-> tb[t].keys, vals |-> tb[t].vals]
    BY <1>4 DEF TwoTables
  <1>6. nt[u].keys = K /\ nt[u].vals = [W EXCEPT ![s] = W[s] + x]
    BY <1>5
  <1>7. \A t \in {1, 2} : t # u => nt[t].keys = tb[t].keys /\ nt[t].vals = tb[t].vals
    BY <1>5
  <1>8. \A t \in {1, 2} : nt[t] = [keys |-> nt[t].keys, vals |-> nt[t].vals]
    BY <1>5, <1>6, <1>7
  <1>9. nt = [t \in {1, 2} |-> nt[t]]
    BY <1>4
  <1>10. TwoTables(nt)
    BY <1>8, <1>9 DEF TwoTables
  <1> QED
    BY <1>1, <1>2, <1>6, <1>7, <1>10 DEF Put

LEMMA LostExchangeKeeps ==
  ASSUME IInv, loads = 1, NEW l \in Lanes, Exchange(l), KeyAt(l) # init_value
  PROVE  InOrder'
  <1>1. Inserting /\ lane[l].pc = "exchange" /\ UNCHANGED <<kernel, ph, held, table, used, tracked, crow>>
    BY DEF Exchange, At, Inserting
  <1>2. LaneType(l) /\ LaneKnows(l) /\ lane = [r \in Lanes |-> lane[r]] /\ used \in Nat
    BY <1>1 DEF IInv, InOrder, LanesKnow, Counted
  <1>3. PICK q : q = [lane[l] EXCEPT !.pc = "probe"]
    OBVIOUS
  <1>4. lane' = [lane EXCEPT ![l] = q] /\ lane'[l] = q /\ \A r \in Lanes : r # l => lane'[r] = lane[r]
    BY <1>2, <1>3 DEF Exchange, Goto
  <1>5. /\ q.n = lane[l].n /\ q.insert_is_on = lane[l].insert_is_on /\ q.pc = "probe"
        /\ q.t = lane[l].t /\ q.trial = lane[l].trial
    BY <1>2, <1>3 DEF LaneType
  <1>6. LaneType(l)'
    BY <1>2, <1>3, <1>4 DEF LaneType
  <1>7. /\ Flops' = Flops /\ UNCHANGED <<tag, held, used>> /\ \A t : Keys(t)' = Keys(t)
    BY <1>1 DEF kernel, Flops, Keys
  <1>8. LaneKnows(l)'
    <2>1. Key(l)' = Key(l)
      BY <1>1, <1>4, <1>5 DEF kernel, Key
    <2> QED
      BY <1>1, <1>2, <1>4, <1>5, <1>7, <2>1 DEF LaneKnows, Mine
  <1>9. DoneBy(l)' = DoneBy(l)
    BY <1>1, <1>4, <1>5, <1>7 DEF DoneBy, Mine
  <1>10. Counted'
    <2>1. ~ Owes(l)'
      BY <1>4, <1>5 DEF Owes
    <2> QED
      BY <1>1, <1>4, <1>7, <2>1, StillCounted
  <1> QED
    BY <1>1, <1>2, <1>4, <1>6, <1>8, <1>9, <1>10, QuietStep

LEMMA WonExchangeKeeps ==
  ASSUME IInv, loads = 1, NEW l \in Lanes, Exchange(l), KeyAt(l) = init_value
  PROVE  InOrder'
  <1>1. /\ Inserting /\ ph = "insert" /\ lane[l].pc = "exchange"
        /\ UNCHANGED <<kernel, ph, held, used, tracked, crow>>
        /\ table' = [table EXCEPT ![lane[l].t].keys[Slot(l)] = Key(l)]
    BY DEF Exchange, At, Inserting
  <1>2. LaneType(l) /\ LaneKnows(l) /\ lane = [r \in Lanes |-> lane[r]] /\ used \in Nat
    BY <1>1 DEF IInv, InOrder, LanesKnow, Counted
  <1>3. PICK q : q = [lane[l] EXCEPT !.pc = "add", !.new = TRUE]
    OBVIOUS
  <1>4. lane' = [lane EXCEPT ![l] = q] /\ lane'[l] = q /\ \A r \in Lanes : r # l => lane'[r] = lane[r]
    BY <1>2, <1>3 DEF Exchange, Goto
  <1>5. /\ q.n = lane[l].n /\ q.insert_is_on = lane[l].insert_is_on /\ q.pc = "add" /\ q.new
        /\ q.t = lane[l].t /\ q.trial = lane[l].trial
    BY <1>2, <1>3 DEF LaneType
  <1>6. LaneType(l)'
    BY <1>2, <1>3, <1>4 DEF LaneType
  <1>7. PICK u \in {1, 2} : u = lane[l].t
    BY <1>1, KeyFacts
  <1>8. PICK k : k = Key(l)
    OBVIOUS
  <1>9. PICK s \in SlotsOf(u) : s = Slot(l)
    BY <1>1, <1>7, KeyFacts
  <1>10. /\ lane[l].trial \in SlotsOf(u) /\ k \in ColsIn(Row) /\ k \in Cols /\ k # init_value
         /\ s = Place(k, u, lane[l].trial) /\ Keys(u)[s] = init_value
    BY <1>1, <1>7, <1>8, <1>9, KeyFacts
  <1>11. /\ Fitting /\ TableType /\ IsRow(Row)
         /\ KeysOnce(Row, 1, Keys(1)) /\ KeysOnce(Row, 2, Keys(2))
         /\ Probed(1, Keys(1)) /\ Probed(2, Keys(2)) /\ Working /\ Accounted /\ crow = <<>>
    BY <1>1, InsertFacts
  <1>12. /\ table' = [t \in {1, 2} |-> [keys |-> Keys(t)', vals |-> Vals(t)']]
         /\ Keys(u)' = [Keys(u) EXCEPT ![s] = k]
         /\ \A t \in {1, 2} : Vals(t)' = Vals(t) /\ (t # u => Keys(t)' = Keys(t))
    <2>1. PICK tb : tb = table
      OBVIOUS
    <2>2. PICK nt : nt = table'
      OBVIOUS
    <2>3. TwoTables(tb)
      BY <1>11, <2>1 DEF TableType, Keys, Vals, TwoTables
    <2>4. KeyWritten(tb, u, s, k, nt)
      BY <1>1, <1>7, <1>8, <1>9, <2>1, <2>2 DEF KeyWritten
    <2>5. /\ TwoTables(nt)
          /\ Put(tb[u].keys, s, k, nt[u].keys)
          /\ \A t \in {1, 2} : nt[t].vals = tb[t].vals /\ (t # u => nt[t].keys = tb[t].keys)
      BY <1>7, <2>3, <2>4, WriteKey
    <2> QED
      BY <2>1, <2>2, <2>5 DEF Keys, Vals, TwoTables, Put
  <1>13. PICK K : K = Keys(u)
    OBVIOUS
  <1>14. PICK L : L = Keys(u)' /\ L = [K EXCEPT ![s] = k]
    BY <1>12, <1>13
  <1>15. /\ ~ Has(K, k) /\ L[s] = k /\ KeysOnce(Row, u, L) /\ Probed(u, L)
         /\ \A p \in SlotsOf(u) : p # s => L[p] = K[p]
         /\ DOMAIN K = SlotsOf(u) /\ DOMAIN L = SlotsOf(u)
    <2>1. KeysOnce(Row, u, K) /\ Probed(u, K)
      BY <1>11, <1>13
    <2>2. \A n \in SlotsOf(u) : n < lane[l].trial => K[Place(k, u, n)] \notin {k, init_value}
      BY <1>1, <1>2, <1>7, <1>8, <1>13 DEF LaneKnows
    <2>a. PICK R : R = Row
      OBVIOUS
    <2>b. PICK m \in SlotsOf(u) : m = lane[l].trial
      BY <1>10
    <2>c. /\ IsRow(R) /\ KeysOnce(R, u, K) /\ Probed(u, K) /\ k \in ColsIn(R)
          /\ s = Place(k, u, m) /\ K[s] = init_value /\ Put(K, s, k, L)
          /\ FirstTrial(K, u, k, m)
      BY <1>10, <1>11, <1>13, <1>14, <2>1, <2>2, <2>a, <2>b DEF Put, FirstTrial
    <2>d. /\ ~ Has(K, k) /\ L[s] = k /\ KeysOnce(R, u, L) /\ Probed(u, L)
          /\ \A p \in SlotsOf(u) : p # s => L[p] = K[p]
      BY <2>c, PutKey
    <2>3. /\ ~ Has(K, k) /\ L[s] = k /\ KeysOnce(Row, u, L) /\ Probed(u, L)
          /\ \A p \in SlotsOf(u) : p # s => L[p] = K[p]
      BY <2>a, <2>d
    <2>4. DOMAIN K = SlotsOf(u) /\ DOMAIN L = SlotsOf(u)
      BY <2>1, <2>3 DEF KeysOnce
    <2> QED
      BY <2>3, <2>4
  <1>16. \A t \in {1, 2} : \A p \in SlotsOf(t) : Keys(t)[p] # init_value => Keys(t)'[p] = Keys(t)[p]
    BY <1>10, <1>12, <1>13, <1>14, <1>15
  <1>17. /\ UNCHANGED <<tag, loads, rows, row, held>> /\ Row' = Row /\ Flops' = Flops
         /\ Working' /\ Inserting' /\ Key(l)' = k /\ Slot(l)' = s
    BY <1>1, <1>4, <1>5, <1>8, <1>9, <1>11 DEF kernel, Row, Flops, Working, Inserting, Key, Slot, Hash
  <1>18. Fitting'
    <2>1. Fitting /\ rows' = rows /\ row' = row /\ tag' = tag /\ ph' = ph
      BY <1>1, <1>11, <1>17
    <2> QED
      BY <2>1 DEF Fitting, CSize, ColsOf
  <1>19. TableType'
    <2>1. \A t \in {1, 2} : /\ Keys(t) \in [SlotsOf(t) -> Cols \union {init_value}]
                            /\ Vals(t) \in [SlotsOf(t) -> Int]
      BY <1>11 DEF TableType
    <2>2. Keys(u)' \in [SlotsOf(u) -> Cols \union {init_value}]
      BY <1>10, <1>12, <2>1
    <2> QED
      BY <1>12, <2>1, <2>2 DEF TableType
  <1>20. Clean'
    <2>1. u = 2 => held
      BY <1>1, <1>2, <1>7 DEF LaneKnows
    <2>2. ~ held => Keys(2) = Empty(2)
      BY DEF IInv, InOrder, Clean
    <2> QED
      BY <1>1, <1>12, <1>17, <2>1, <2>2 DEF Clean, Inserting
  <1>21. Tables'
    <2>1. KeysOnce(Row, 1, Keys(1)') /\ KeysOnce(Row, 2, Keys(2)') /\ Probed(1, Keys(1)') /\ Probed(2, Keys(2)')
      <3>1. CASE u = 1
        BY <1>11, <1>12, <1>14, <1>15, <3>1
      <3>2. CASE u = 2
        BY <1>11, <1>12, <1>14, <1>15, <3>2
      <3> QED
        BY <3>1, <3>2
    <2>2. \A t \in {1, 2} : Unused(t) => Unused(t)'
      <3> SUFFICES ASSUME NEW t \in {1, 2}, Unused(t), NEW p \in SlotsOf(t), Keys(t)'[p] = init_value
                   PROVE  Vals(t)'[p] = 0
        BY DEF Unused
      <3>1. Keys(t)[p] = init_value
        BY <1>16
      <3> QED
        BY <1>12, <3>1 DEF Unused
    <2>3. Unused(1) /\ (held => Unused(2))
      BY <1>1 DEF IInv, InOrder, Tables
    <2> QED
      BY <1>17, <2>1, <2>2, <2>3 DEF Tables
  <1>22. LaneKnows(l)'
    <2>1. KeyAt(l)' = k
      <3>1. KeyAt(l)' = Keys(u)'[s]
        BY <1>4, <1>5, <1>7, <1>17 DEF KeyAt, Keys
      <3> QED
        BY <1>14, <1>15, <3>1
    <2> QED
      BY <1>1, <1>2, <1>4, <1>5, <1>17, <2>1 DEF LaneKnows, Mine
  <1>23. LanesKnow'
    <2>1. ASSUME NEW r \in Lanes PROVE LaneType(r)' /\ LaneKnows(r)'
      <3>1. CASE r = l
        BY <1>6, <1>22, <3>1
      <3>2. CASE r # l
        BY <1>1, <1>2, <1>4, <1>16, <3>2, StillKnows
      <3> QED
        BY <3>1, <3>2
    <2>2. lane' = [r \in Lanes |-> lane'[r]]
      BY <1>2, <1>4
    <2> QED
      BY <2>1, <2>2 DEF LanesKnow
  <1>24. Counted'
    <2>1. CASE u = 2
      <3>1. ~ Owes(l)'
        BY <1>4, <1>5, <1>7, <2>1 DEF Owes
      <3> QED
        BY <1>1, <1>4, <1>16, <3>1, StillCounted
    <2>2. CASE u = 1
      <3>1. PICK C \in SUBSET SlotsOf(1) : CountedSlots(C)
        BY <1>1 DEF IInv, InOrder, Counted
      <3>2. /\ \A p \in C : Keys(1)[p] # init_value
            /\ Cardinality(C) = used
            /\ \A r \in Lanes : Owes(r) => Slot(r) \notin C /\ Keys(1)[Slot(r)] # init_value
            /\ \A p, r \in Lanes : Owes(p) /\ Owes(r) /\ Slot(p) = Slot(r) => p = r
        BY <3>1 DEF CountedSlots
      <3>3. \A r \in Lanes : r # l => /\ Owes(r)' <=> Owes(r)
                                      /\ Slot(r)' = Slot(r)
        BY <1>1, <1>4, <1>17 DEF Owes, Slot, Key, Hash, kernel
      <3>4. \A r \in Lanes : Owes(r) => Slot(r) \in SlotsOf(1) /\ r # l /\ Slot(r) # s
        <4> SUFFICES ASSUME NEW r \in Lanes, Owes(r) PROVE Slot(r) \in SlotsOf(1) /\ r # l /\ Slot(r) # s
          OBVIOUS
        <4>1. LaneKnows(r) /\ lane[r].pc \notin {"take", "out"}
          BY <1>1 DEF IInv, InOrder, LanesKnow, Owes
        <4>2. lane[r].t = 1
          BY <4>1 DEF LaneKnows, Owes
        <4>3. Slot(r) \in SlotsOf(1)
          BY <1>1, <4>1, <4>2, KeyFacts
        <4>4. r # l
          BY <1>1 DEF Owes
        <4> QED
          BY <1>10, <2>2, <3>2, <4>3, <4>4
      <3>5. CountedSlots(C)'
        <4>1. \A p \in C : Keys(1)'[p] # init_value
          BY <1>16, <3>2
        <4>2. \A r \in Lanes : Owes(r)' => Slot(r)' \notin C /\ Keys(1)'[Slot(r)'] # init_value
          <5>1. s \notin C /\ Keys(1)'[s] # init_value
            BY <1>10, <1>14, <1>15, <2>2, <3>2
          <5> QED
            BY <1>16, <1>17, <3>2, <3>3, <3>4, <5>1
        <4>3. \A p, r \in Lanes : Owes(p)' /\ Owes(r)' /\ Slot(p)' = Slot(r)' => p = r
          BY <1>17, <3>2, <3>3, <3>4
        <4> QED
          BY <1>1, <3>2, <4>1, <4>2, <4>3 DEF CountedSlots
      <3> QED
        BY <1>1, <1>2, <3>5 DEF Counted
    <2> QED
      BY <2>1, <2>2
  <1>25. Done' = Done
    <2>1. DoneBy(l)' = DoneBy(l)
      BY <1>1, <1>4, <1>5, <1>17 DEF DoneBy, Mine
    <2> QED
      BY <1>1, <1>4, <1>17, <2>1, StillDone
  <1>26. \A j \in ColsIn(Row) : InTables(j)' = InTables(j) /\ (Somewhere(j) => Somewhere(j)')
    <2> SUFFICES ASSUME NEW j \in ColsIn(Row)
                 PROVE  InTables(j)' = InTables(j) /\ (Somewhere(j) => Somewhere(j)')
      OBVIOUS
    <2>1. PICK W : W = Vals(u)
      OBVIOUS
    <2>2. ValueIn(L, W, j) = ValueIn(K, W, j) /\ (Has(K, j) => Has(L, j))
      <3>1. CASE j # k
        <4>1. j # init_value
          BY <1>11, RowFacts
        <4>2. \A p \in DOMAIN L : L[p] = j <=> K[p] = j
          BY <1>10, <1>13, <1>15, <3>1, <4>1
        <4> QED
          BY <1>15, <4>2, SameValue
      <3>2. CASE j = k
        <4>1. W[s] = 0
          <5>1. Unused(1) /\ (held => Unused(2))
            BY <1>1 DEF IInv, InOrder, Tables
          <5>2. u = 2 => held
            BY <1>1, <1>2, <1>7 DEF LaneKnows
          <5>3. Unused(u)
            BY <5>1, <5>2
          <5> QED
            BY <1>10, <2>1, <5>3 DEF Unused
        <4>2. \A p \in DOMAIN L : L[p] = L[s] => p = s
          BY <1>10, <1>15 DEF KeysOnce
        <4>3. Has(L, k) /\ ValueIn(L, W, k) = W[s]
          BY <1>15, <4>2, ValueAt
        <4>4. ValueIn(K, W, k) = 0
          BY <1>15 DEF ValueIn
        <4> QED
          BY <3>2, <4>1, <4>3, <4>4
      <3> QED
        BY <3>1, <3>2
    <2>3. ValueIn(Keys(u)', Vals(u)', j) = ValueIn(Keys(u), Vals(u), j) /\ (Has(Keys(u), j) => Has(Keys(u)', j))
      BY <1>12, <1>13, <1>14, <2>1, <2>2
    <2>4. \A t \in {1, 2} : t # u => /\ ValueIn(Keys(t)', Vals(t)', j) = ValueIn(Keys(t), Vals(t), j)
                                     /\ Has(Keys(t)', j) <=> Has(Keys(t), j)
      BY <1>12
    <2> QED
      BY <2>3, <2>4 DEF InTables, Somewhere
  <1>27. Accounted'
    <2>1. PICK D : D = Done /\ D = Done'
      BY <1>25
    <2>2. crow' = <<>>
      BY <1>1, <1>11
    <2>3. \A j \in ColsIn(Row) : /\ InTables(j) = Sum(Row, j, D)
                                 /\ (\E m \in D : Row[m][1] = j) => Somewhere(j)
      BY <1>11, <2>1 DEF Accounted, InRow
    <2>4. \A j \in ColsIn(Row) : /\ InTables(j)' = Sum(Row, j, D)
                                 /\ (\E m \in D : Row[m][1] = j) => Somewhere(j)'
      BY <1>26, <2>3
    <2> QED
      BY <1>17, <2>1, <2>2, <2>4 DEF Accounted
  <1>28. Listed' /\ RowCorrect'
    BY <1>1, <1>17 DEF Listed, RowCorrect, Inserting
  <1> QED
    BY <1>18, <1>19, <1>20, <1>21, <1>23, <1>24, <1>27, <1>28 DEF InOrder

\* One product is added to its column, in a table and in the sums.
AddedAt(t, W, s, x, X) == \A q \in SlotsOf(t) : X[q] = IF q = s THEN W[s] + x ELSE W[q]

LEMMA AddToColumn ==
  ASSUME NEW R, NEW t \in {1, 2}, NEW K, KeysOnce(R, t, K), NEW s \in SlotsOf(t), NEW k, K[s] = k, k # init_value,
         NEW W, NEW x, NEW X, AddedAt(t, W, s, x, X)
  PROVE  /\ Has(K, k) /\ ValueIn(K, X, k) = ValueIn(K, W, k) + x
         /\ \A j : j # k => ValueIn(K, X, j) = ValueIn(K, W, j)
  <1>1. DOMAIN K = SlotsOf(t) /\ \A q \in DOMAIN K : K[q] = K[s] => q = s
    BY DEF KeysOnce
  <1>2. Has(K, k) /\ ValueIn(K, X, k) = X[s] /\ ValueIn(K, W, k) = W[s]
    BY <1>1, ValueAt
  <1>3. X[s] = W[s] + x
    BY DEF AddedAt
  <1>4. ASSUME NEW j, j # k PROVE ValueIn(K, X, j) = ValueIn(K, W, j)
    <2>1. \A q \in DOMAIN K : K[q] = j => W[q] = X[q]
      BY <1>1, <1>4 DEF AddedAt
    <2> QED
      BY <2>1, SameValue
  <1> QED
    BY <1>2, <1>3, <1>4

OneMore(R, D, n, E) == D \in SUBSET (1 .. Len(R)) /\ n \in (1 .. Len(R)) \ D /\ E = D \union {n}

LEMMA AddToSum ==
  ASSUME NEW R, IsRow(R), NEW D, NEW n, NEW E, OneMore(R, D, n, E)
  PROVE  \A j : Sum(R, j, E) = IF j = R[n][1] THEN Sum(R, j, D) + Val[R[n][2]] ELSE Sum(R, j, D)
  <1>1. D \in SUBSET (1 .. Len(R)) /\ n \in (1 .. Len(R)) \ D /\ E = D \union {n}
    BY DEF OneMore
  <1>2. Sum(R, R[n][1], E) = Sum(R, R[n][1], D) + Val[R[n][2]]
    BY <1>1, SumFacts
  <1>3. ASSUME NEW j, j # R[n][1] PROVE Sum(R, j, E) = Sum(R, j, D)
    <2>1. Sum(R, j, D) \in Int /\ Sum(R, j, E) = Sum(R, j, D) + 0
      BY <1>1, <1>3, SumFacts
    <2> QED
      BY <2>1
  <1> QED
    BY <1>2, <1>3

\* The product the lane adds has not been done by anyone, and then has.
LEMMA OneMoreDone ==
  ASSUME Inserting, UNCHANGED <<kernel, ph>>, NEW l \in Lanes, \A r \in Lanes : r # l => lane'[r] = lane[r],
         LaneKnows(l), lane[l].pc = "add",
         \/ lane'[l].n = lane[l].n /\ lane'[l].pc = "count"
         \/ lane'[l].pc = "take" /\ \A m : Mine(l, m) => (m < lane'[l].n <=> m < lane[l].n \/ m = lane[l].n)
  PROVE  lane[l].n \notin Done /\ Done' = Done \union {lane[l].n} /\ Done \in SUBSET (1 .. Flops)
  <1>1. lane[l].n \in 1 .. Flops /\ Mine(l, lane[l].n) /\ Flops' = Flops
    BY DEF LaneKnows, Flops, kernel
  <1>2. lane[l].n \in Nat
    BY <1>1, Strides
  <1>3. DoneBy(l)' = DoneBy(l) \union {lane[l].n} /\ lane[l].n \notin DoneBy(l)
    <2>1. DoneBy(l) = {m \in 1 .. Flops : Mine(l, m) /\ m < lane[l].n}
      BY DEF DoneBy
    <2>2. DoneBy(l)' = {m \in 1 .. Flops : Mine(l, m) /\ (m < lane[l].n \/ m = lane[l].n)}
      <3>1. CASE lane'[l].n = lane[l].n /\ lane'[l].pc = "count"
        BY <1>1, <3>1 DEF DoneBy, Mine
      <3>2. CASE lane'[l].pc = "take" /\ \A m : Mine(l, m) => (m < lane'[l].n <=> m < lane[l].n \/ m = lane[l].n)
        <4>1. DoneBy(l)' = {m \in 1 .. Flops : Mine(l, m) /\ m < lane'[l].n}
          BY <1>1, <3>2 DEF DoneBy, Mine
        <4> QED
          BY <3>2, <4>1
      <3> QED
        BY <3>1, <3>2
    <2> QED
      BY <1>1, <1>2, <2>1, <2>2
  <1>4. \A r \in Lanes : r # l => DoneBy(r)' = DoneBy(r) /\ lane[l].n \notin DoneBy(r)
    <2> SUFFICES ASSUME NEW r \in Lanes, r # l PROVE DoneBy(r)' = DoneBy(r) /\ lane[l].n \notin DoneBy(r)
      OBVIOUS
    <2>1. lane'[r] = lane[r] /\ ~ Mine(r, lane[l].n)
      BY <1>1, Strides
    <2> QED
      BY <1>1, <2>1 DEF DoneBy, Mine
  <1>5. Done = UNION {DoneBy(r) : r \in Lanes} /\ Done' = UNION {DoneBy(r)' : r \in Lanes}
    <2>1. /\ tag # "LP" /\ ph = "insert" /\ tag' = tag /\ ph' = ph
      BY DEF Inserting, kernel
    <2> QED
      BY <2>1 DEF Done
  <1>6. \A r \in Lanes : DoneBy(r) \in SUBSET (1 .. Flops)
    BY DEF DoneBy
  <1> QED
    BY <1>3, <1>4, <1>5, <1>6

LEMMA AtomicAddKeeps ==
  ASSUME IInv, loads = 1, NEW l \in Lanes, AtomicAdd(l)
  PROVE  InOrder'
  <1>1. /\ Inserting /\ ph = "insert" /\ lane[l].pc = "add"
        /\ UNCHANGED <<kernel, ph, held, used, tracked, crow>>
        /\ table' = [table EXCEPT ![lane[l].t].vals[Slot(l)] = @ + Product(l)]
    BY DEF AtomicAdd, At, Inserting
  <1>2. LaneType(l) /\ LaneKnows(l) /\ lane = [r \in Lanes |-> lane[r]] /\ used \in Nat
    BY <1>1 DEF IInv, InOrder, LanesKnow, Counted
  <1>3. PICK q :
          /\ lane' = [lane EXCEPT ![l] = q]
          /\ \/ /\ tag = "BigSpread" /\ lane[l].new /\ lane[l].t = 1
                /\ q = [lane[l] EXCEPT !.pc = "count"]
             \/ q = NextProduct(l)
    BY DEF AtomicAdd, Goto
  <1>4. lane'[l] = q /\ \A r \in Lanes : r # l => lane'[r] = lane[r]
    BY <1>2, <1>3
  <1>5. PICK u \in {1, 2} : u = lane[l].t
    BY <1>1, KeyFacts
  <1>6. PICK k : k = Key(l)
    OBVIOUS
  <1>7. PICK s \in SlotsOf(u) : s = Slot(l)
    BY <1>1, <1>5, KeyFacts
  <1>8. PICK x \in Int : x = Product(l)
    BY <1>1, KeyFacts
  <1>9. PICK n \in 1 .. Flops : n = lane[l].n
    BY <1>1, KeyFacts
  <1>10. /\ k \in ColsIn(Row) /\ k # init_value /\ k = Row[n][1] /\ x = Val[Row[n][2]]
         /\ Keys(u)[s] = k
    <2>1. KeyAt(l) = Key(l)
      BY <1>1, <1>2 DEF LaneKnows
    <2> QED
      BY <1>1, <1>5, <1>6, <1>7, <1>8, <1>9, <2>1, KeyFacts
  <1>11. /\ Fitting /\ TableType /\ IsRow(Row) /\ Flops = Len(Row)
         /\ KeysOnce(Row, 1, Keys(1)) /\ KeysOnce(Row, 2, Keys(2))
         /\ Probed(1, Keys(1)) /\ Probed(2, Keys(2)) /\ Working /\ Accounted /\ crow = <<>>
    BY <1>1, InsertFacts
  <1>12. /\ table' = [t \in {1, 2} |-> [keys |-> Keys(t)', vals |-> Vals(t)']]
         /\ Vals(u)' = [Vals(u) EXCEPT ![s] = Vals(u)[s] + x]
         /\ \A t \in {1, 2} : Keys(t)' = Keys(t) /\ (t # u => Vals(t)' = Vals(t))
    <2>1. PICK tb : tb = table
      OBVIOUS
    <2>2. PICK nt : nt = table'
      OBVIOUS
    <2>3. TwoTables(tb)
      BY <1>11, <2>1 DEF TableType, Keys, Vals, TwoTables
    <2>4. ValAdded(tb, u, s, x, nt)
      BY <1>1, <1>5, <1>7, <1>8, <2>1, <2>2 DEF ValAdded
    <2>5. /\ TwoTables(nt)
          /\ Put(tb[u].vals, s, tb[u].vals[s] + x, nt[u].vals)
          /\ \A t \in {1, 2} : nt[t].keys = tb[t].keys /\ (t # u => nt[t].vals = tb[t].vals)
      BY <1>5, <2>3, <2>4, WriteVal
    <2> QED
      BY <2>1, <2>2, <2>5 DEF Keys, Vals, TwoTables, Put
  <1>13. /\ UNCHANGED <<tag, loads, rows, row, held>> /\ Row' = Row /\ Flops' = Flops
         /\ Working' /\ Inserting' /\ \A t \in {1, 2} : Keys(t)' = Keys(t)
    BY <1>1, <1>11, <1>12 DEF kernel, Row, Flops, Working, Inserting
  <1>14. /\ LaneType(l)' /\ q.insert_is_on = lane[l].insert_is_on /\ Mine(l, q.n)
         /\ \/ q.pc = "count" /\ q.n = lane[l].n /\ q.t = 1 /\ q.t = lane[l].t /\ q.trial = lane[l].trial
               /\ tag = "BigSpread" /\ lane[l].new
            \/ q.pc = "take" /\ \A m : Mine(l, m) => (m < q.n <=> m < lane[l].n \/ m = lane[l].n)
    <2>1. CASE /\ tag = "BigSpread" /\ lane[l].new /\ lane[l].t = 1
               /\ q = [lane[l] EXCEPT !.pc = "count"]
      <3>1. /\ q.pc = "count" /\ q.n = lane[l].n /\ q.t = 1 /\ q.t = lane[l].t /\ q.trial = lane[l].trial
            /\ q.insert_is_on = lane[l].insert_is_on
        BY <1>2, <2>1 DEF LaneType
      <3>2. LaneType(l)'
        BY <1>2, <1>4, <2>1 DEF LaneType
      <3> QED
        BY <1>2, <2>1, <3>1, <3>2 DEF LaneKnows
    <2>2. CASE q = NextProduct(l)
      <3>1. /\ q.pc = "take" /\ q.insert_is_on = lane[l].insert_is_on /\ Mine(l, q.n)
            /\ q \in [pc : {"take", "probe", "second", "exchange", "add", "count", "look", "out"}, n : Nat,
                      insert_is_on : BOOLEAN, t : {1, 2}, trial : Nat,
                      seen : Cols \union {init_value}, new : BOOLEAN]
            /\ \A m : Mine(l, m) => (m < q.n <=> m < lane[l].n \/ m = lane[l].n)
        BY <1>2, <2>2, NextProductFacts
      <3>2. LaneType(l)'
        BY <1>4, <3>1 DEF LaneType
      <3> QED
        BY <3>1, <3>2
    <2> QED
      BY <1>3, <2>1, <2>2
  <1>15. LaneKnows(l)'
    <2>1. CASE q.pc = "count"
      BY <1>1, <1>2, <1>4, <1>13, <1>14, <2>1 DEF LaneKnows, Mine
    <2>2. CASE q.pc = "take"
      BY <1>1, <1>2, <1>4, <1>13, <1>14, <2>2 DEF LaneKnows, Mine
    <2> QED
      BY <1>14, <2>1, <2>2
  <1>16. Fitting'
    <2>1. Fitting /\ rows' = rows /\ row' = row /\ tag' = tag /\ ph' = ph
      BY <1>1, <1>11, <1>13
    <2> QED
      BY <2>1 DEF Fitting, CSize, ColsOf
  <1>17. TableType'
    <2>1. \A t \in {1, 2} : /\ Keys(t) \in [SlotsOf(t) -> Cols \union {init_value}]
                            /\ Vals(t) \in [SlotsOf(t) -> Int]
      BY <1>11 DEF TableType
    <2>2. Vals(u)' \in [SlotsOf(u) -> Int]
      <3>1. Vals(u)[s] + x \in Int
        BY <2>1
      <3> QED
        BY <1>12, <2>1, <3>1
    <2> QED
      BY <1>12, <2>1, <2>2 DEF TableType
  <1>18. Clean'
    <2>1. Clean
      BY DEF IInv, InOrder
    <2> QED
      BY <1>1, <1>13, <2>1 DEF Clean
  <1>19. Tables'
    <2>1. \A t \in {1, 2} : Unused(t) => Unused(t)'
      <3> SUFFICES ASSUME NEW t \in {1, 2}, Unused(t), NEW p \in SlotsOf(t), Keys(t)'[p] = init_value
                   PROVE  Vals(t)'[p] = 0
        BY DEF Unused
      <3>1. Vals(t)[p] = 0 /\ Keys(t)[p] = init_value
        BY <1>12 DEF Unused
      <3>2. CASE t # u
        BY <1>12, <3>1, <3>2
      <3>3. CASE t = u
        <4>1. p # s /\ DOMAIN Vals(u) = SlotsOf(u)
          BY <1>10, <1>11, <3>1, <3>3 DEF TableType
        <4> QED
          BY <1>12, <3>1, <3>3, <4>1
      <3> QED
        BY <3>2, <3>3
    <2>2. Unused(1) /\ (held => Unused(2))
      BY <1>1 DEF IInv, InOrder, Tables
    <2> QED
      BY <1>11, <1>13, <2>1, <2>2 DEF Tables
  <1>20. LanesKnow'
    <2>1. ASSUME NEW r \in Lanes PROVE LaneType(r)' /\ LaneKnows(r)'
      <3>1. CASE r = l
        BY <1>14, <1>15, <3>1
      <3>2. CASE r # l
        BY <1>1, <1>2, <1>4, <1>13, <3>2, StillKnows
      <3> QED
        BY <3>1, <3>2
    <2>2. lane' = [r \in Lanes |-> lane'[r]]
      BY <1>2, <1>3
    <2> QED
      BY <2>1, <2>2 DEF LanesKnow
  <1>21. Counted'
    <2>1. Owes(l)' => Owes(l) /\ Slot(l)' = Slot(l)
      <3>1. CASE q.pc = "count"
        <4>1. Slot(l)' = Slot(l)
          BY <1>1, <1>4, <1>13, <1>14, <3>1, Zenon DEF Slot, Key, Hash
        <4> QED
          BY <1>1, <1>14, <3>1, <4>1 DEF Owes
      <3>2. CASE q.pc = "take"
        BY <1>4, <3>2 DEF Owes
      <3> QED
        BY <1>14, <3>1, <3>2
    <2> QED
      BY <1>1, <1>4, <1>13, <2>1, StillCounted
  <1>22. PICK D \in SUBSET (1 .. Flops) : D = Done
    <2>1. Done \in SUBSET (1 .. Flops)
      BY <1>1, <1>2, <1>4, <1>14, OneMoreDone
    <2> QED
      BY <2>1
  <1>23. n \notin D /\ Done' = D \union {n}
    BY <1>1, <1>2, <1>4, <1>9, <1>14, <1>22, OneMoreDone
  <1>24. \A j \in ColsIn(Row) : /\ InTables(j)' = IF j = k THEN InTables(j) + x ELSE InTables(j)
                                /\ Somewhere(j)' <=> Somewhere(j)
    <2>1. AddedAt(u, Vals(u), s, x, Vals(u)')
      <3>1. DOMAIN Vals(u) = SlotsOf(u)
        BY <1>11 DEF TableType
      <3> QED
        BY <1>12, <3>1 DEF AddedAt
    <2>2. KeysOnce(Row, u, Keys(u))
      BY <1>11
    <2>3. /\ ValueIn(Keys(u), Vals(u)', k) = ValueIn(Keys(u), Vals(u), k) + x
          /\ \A j : j # k => ValueIn(Keys(u), Vals(u)', j) = ValueIn(Keys(u), Vals(u), j)
      <3>1. PICK R, K, W, X : R = Row /\ K = Keys(u) /\ W = Vals(u) /\ X = Vals(u)'
        OBVIOUS
      <3>2. KeysOnce(R, u, K) /\ K[s] = k /\ k # init_value /\ AddedAt(u, W, s, x, X)
        BY <1>10, <2>1, <2>2, <3>1
      <3>3. /\ ValueIn(K, X, k) = ValueIn(K, W, k) + x
            /\ \A j : j # k => ValueIn(K, X, j) = ValueIn(K, W, j)
        BY <1>7, <3>2, AddToColumn
      <3> QED
        BY <3>1, <3>3
    <2>4. \A t \in {1, 2} : \A j : ValueIn(Keys(t), Vals(t), j) \in Int
      <3> SUFFICES ASSUME NEW t \in {1, 2}, NEW j PROVE ValueIn(Keys(t), Vals(t), j) \in Int
        OBVIOUS
      <3>1. DOMAIN Keys(t) = SlotsOf(t) /\ Vals(t) \in [SlotsOf(t) -> Int]
        BY <1>11 DEF TableType
      <3> QED
        BY <3>1 DEF ValueIn, Has
    <2>5. CASE u = 1
      BY <1>12, <2>3, <2>4, <2>5 DEF InTables, Somewhere
    <2>6. CASE u = 2
      BY <1>12, <2>3, <2>4, <2>6 DEF InTables, Somewhere
    <2> QED
      BY <2>5, <2>6
  <1>25. Accounted'
    <2>1. crow' = <<>>
      BY <1>1, <1>11
    <2>2. \A j \in ColsIn(Row) : /\ InTables(j) = Sum(Row, j, D)
                                 /\ (\E m \in D : Row[m][1] = j) => Somewhere(j)
      BY <1>11, <1>22 DEF Accounted, InRow
    <2>3. /\ Sum(Row, k, D \union {n}) = Sum(Row, k, D) + x
          /\ \A j : j # k => Sum(Row, j, D \union {n}) = Sum(Row, j, D)
      <3>1. PICK R : R = Row
        OBVIOUS
      <3>2. PICK E : E = D \union {n}
        OBVIOUS
      <3>3. IsRow(R) /\ OneMore(R, D, n, E)
        BY <1>11, <1>22, <1>23, <3>1, <3>2 DEF OneMore
      <3>4. \A j : Sum(R, j, E) = IF j = R[n][1] THEN Sum(R, j, D) + Val[R[n][2]] ELSE Sum(R, j, D)
        BY <3>3, AddToSum
      <3> QED
        BY <1>10, <3>1, <3>2, <3>4
    <2>4. Somewhere(k)
      <3>1. Has(Keys(u), k)
        BY <1>10, <1>11 DEF TableType, Has
      <3> QED
        BY <3>1 DEF Somewhere
    <2>5. \A j \in ColsIn(Row) : /\ InTables(j)' = Sum(Row, j, D \union {n})
                                 /\ (\E m \in D \union {n} : Row[m][1] = j) => Somewhere(j)'
      BY <1>10, <1>24, <2>2, <2>3, <2>4
    <2>6. PICK E : E = D \union {n}
      OBVIOUS
    <2>7. Done' = E /\ crow' = <<>> /\ crow' \in Seq(ColsIn(Row) \X Int) /\ DOMAIN crow' = {}
      BY <1>23, <2>1, <2>6
    <2>8. \A j \in ColsIn(Row) : /\ InTables(j)' = Sum(Row, j, E)
                                 /\ (\E m \in E : Row[m][1] = j) => Somewhere(j)'
      BY <2>5, <2>6
    <2> QED
      BY <1>13, <2>7, <2>8 DEF Accounted
  <1>26. Listed' /\ RowCorrect'
    BY <1>1, <1>13 DEF Listed, RowCorrect, Inserting
  <1> QED
    BY <1>16, <1>17, <1>18, <1>19, <1>20, <1>21, <1>25, <1>26 DEF InOrder

LEMMA LaneKeeps ==
  ASSUME IInv, loads = 1, NEW l \in Lanes, Lane(l)
  PROVE  InOrder'
  <1>1. CASE Take(l)
    BY <1>1, TakeKeeps
  <1>2. CASE Probe(l)
    BY <1>2, ProbeKeeps
  <1>3. CASE SecondLook(l)
    BY <1>3, SecondLookKeeps
  <1>4. CASE Exchange(l)
    <2>1. CASE KeyAt(l) = init_value
      BY <1>4, <2>1, WonExchangeKeeps
    <2>2. CASE KeyAt(l) # init_value
      BY <1>4, <2>2, LostExchangeKeeps
    <2> QED
      BY <2>1, <2>2
  <1>5. CASE AtomicAdd(l)
    BY <1>5, AtomicAddKeeps
  <1>6. CASE Count(l)
    BY <1>6, CountKeeps
  <1>7. CASE Look(l)
    BY <1>7, LookKeeps
  <1> QED
    BY <1>1, <1>2, <1>3, <1>4, <1>5, <1>6, <1>7 DEF Lane

-----------------------------------------------------------------------------
(***************************************************************************)
(* The steps of the host.                                                  *)
(***************************************************************************)
BothWritten(tb, s, k, new, x, nt) ==
  nt = [tb EXCEPT ![2].keys[s] = k, ![2].vals[s] = IF new THEN x ELSE @ + x]

LEMMA WriteBoth ==
  ASSUME NEW tb, TwoTables(tb), NEW s, NEW k, NEW new \in BOOLEAN, NEW x, NEW nt, BothWritten(tb, s, k, new, x, nt)
  PROVE  /\ TwoTables(nt) /\ nt[1].keys = tb[1].keys /\ nt[1].vals = tb[1].vals
         /\ Put(tb[2].keys, s, k, nt[2].keys)
         /\ Put(tb[2].vals, s, IF new THEN x ELSE tb[2].vals[s] + x, nt[2].vals)
  <1>1. PICK K, W, a : K = tb[2].keys /\ W = tb[2].vals /\ a = tb[1]
    OBVIOUS
  <1>2. /\ DOMAIN tb = {1, 2} /\ tb = [t \in {1, 2} |-> tb[t]] /\ tb[2] = [keys |-> K, vals |-> W]
        /\ a = [keys |-> a.keys, vals |-> a.vals]
    BY <1>1 DEF TwoTables
  <1>3. PICK b : b = [tb[2] EXCEPT !.keys[s] = k]
    OBVIOUS
  <1>4. b = [keys |-> [K EXCEPT ![s] = k], vals |-> W]
    BY <1>2, <1>3
  <1>5. PICK c : c = [b EXCEPT !.vals[s] = IF new THEN x ELSE @ + x]
    OBVIOUS
  <1>6. c = [keys |-> [K EXCEPT ![s] = k], vals |-> [W EXCEPT ![s] = IF new THEN x ELSE W[s] + x]]
    BY <1>4, <1>5
  <1>7. nt = [tb EXCEPT ![2] = c]
    BY <1>2, <1>3, <1>5 DEF BothWritten
  <1>8. nt = [t \in {1, 2} |-> IF t = 2 THEN c ELSE a]
    BY <1>1, <1>2, <1>7
  <1>9. nt[1] = a /\ nt[2] = c /\ nt = [t \in {1, 2} |-> nt[t]]
    BY <1>8
  <1>10. c = [keys |-> c.keys, vals |-> c.vals]
    BY <1>6
  <1>11. TwoTables(nt)
    <2>1. \A t \in {1, 2} : nt[t] = [keys |-> nt[t].keys, vals |-> nt[t].vals]
      BY <1>2, <1>9, <1>10
    <2> QED
      BY <1>9, <2>1 DEF TwoTables
  <1>12. nt[2].keys = [K EXCEPT ![s] = k] /\ nt[2].vals = [W EXCEPT ![s] = IF new THEN x ELSE W[s] + x]
    BY <1>6, <1>9
  <1> QED
    BY <1>1, <1>9, <1>11, <1>12 DEF Put

\* The search ends at the column, or at an empty slot that gets it.
HostInserts(R, K, W, k, x, m, s, L, X) ==
  /\ IsRow(R) /\ KeysOnce(R, 2, K) /\ Probed(2, K) /\ k \in ColsIn(R)
  /\ W \in [SlotsOf(2) -> Int] /\ x \in Int /\ m \in SlotsOf(2) /\ s = Place(k, 2, m)
  /\ K[s] \in {k, init_value} /\ FirstTrial(K, 2, k, m)
  /\ Put(K, s, k, L) /\ Put(W, s, IF K[s] = init_value THEN x ELSE W[s] + x, X)

LEMMA HostInsert ==
  ASSUME NEW R, NEW K, NEW W, NEW k, NEW x, NEW m, NEW s, NEW L, NEW X,
         HostInserts(R, K, W, k, x, m, s, L, X)
  PROVE  /\ s \in SlotsOf(2) /\ KeysOnce(R, 2, L) /\ Probed(2, L) /\ L[s] = k
         /\ X \in [SlotsOf(2) -> Int]
         /\ \A q \in SlotsOf(2) : q # s => L[q] = K[q]
         /\ ValueIn(L, X, k) = ValueIn(K, W, k) + x
         /\ \A j : j # k /\ j # init_value => ValueIn(L, X, j) = ValueIn(K, W, j) /\ (Has(L, j) <=> Has(K, j))
  <1>0. /\ IsRow(R) /\ KeysOnce(R, 2, K) /\ Probed(2, K) /\ k \in ColsIn(R)
        /\ W \in [SlotsOf(2) -> Int] /\ x \in Int /\ m \in SlotsOf(2) /\ s = Place(k, 2, m)
        /\ K[s] \in {k, init_value} /\ FirstTrial(K, 2, k, m)
        /\ Put(K, s, k, L) /\ Put(W, s, IF K[s] = init_value THEN x ELSE W[s] + x, X)
    BY DEF HostInserts
  <1>1. k \in Nat /\ k # init_value /\ 2 \in {1, 2}
    BY <1>0, RowFacts
  <1>2. s \in SlotsOf(2) /\ DOMAIN K = SlotsOf(2) /\ DOMAIN W = SlotsOf(2)
    BY <1>0, <1>1, PlaceFacts DEF KeysOnce
  <1>3. W[s] \in Int /\ \A q \in SlotsOf(2) : q # s => X[q] = W[q]
    BY <1>0, <1>2 DEF Put
  <1>4. X \in [SlotsOf(2) -> Int] /\ X[s] = IF K[s] = init_value THEN x ELSE W[s] + x
    BY <1>0, <1>2, <1>3 DEF Put
  <1>5. /\ KeysOnce(R, 2, L) /\ Probed(2, L) /\ L[s] = k /\ DOMAIN L = SlotsOf(2)
        /\ \A q \in SlotsOf(2) : q # s => L[q] = K[q]
        /\ K[s] = init_value => ~ Has(K, k)
    <2>1. CASE K[s] = init_value
      <3>1. K[s] = init_value
        BY <1>0, <2>1
      <3>2. /\ ~ Has(K, k) /\ L[s] = k /\ KeysOnce(R, 2, L) /\ Probed(2, L)
            /\ \A q \in SlotsOf(2) : q # s => L[q] = K[q]
        BY <1>0, <1>1, <3>1, PutKey
      <3> QED
        BY <1>0, <3>2 DEF KeysOnce
    <2>2. CASE K[s] # init_value
      <3>1. L = K
        <4>1. K[s] = k
          BY <1>0, <2>2
        <4>2. K = [q \in SlotsOf(2) |-> K[q]]
          BY <1>0 DEF KeysOnce
        <4>3. L = [q \in SlotsOf(2) |-> IF q = s THEN k ELSE K[q]]
          BY <1>0, <1>2 DEF Put
        <4>4. \A q \in SlotsOf(2) : (IF q = s THEN k ELSE K[q]) = K[q]
          BY <1>0, <4>1
        <4> QED
          BY <1>0, <4>2, <4>3, <4>4
      <3> QED
        BY <1>0, <1>1, <1>2, <2>2, <3>1
    <2> QED
      BY <1>0, <2>1, <2>2
  <1>6. Has(L, k) /\ ValueIn(L, X, k) = X[s]
    <2>1. \A q \in DOMAIN L : L[q] = L[s] => q = s
      BY <1>0, <1>1, <1>2, <1>5 DEF KeysOnce
    <2> QED
      BY <1>0, <1>2, <1>5, <2>1, ValueAt
  <1>7. ValueIn(L, X, k) = ValueIn(K, W, k) + x
    <2>1. CASE K[s] = init_value
      <3>1. ValueIn(K, W, k) = 0
        BY <1>0, <1>5, <2>1 DEF ValueIn
      <3> QED
        BY <1>0, <1>4, <1>6, <2>1, <3>1
    <2>2. CASE K[s] # init_value
      <3>1. K[s] = k /\ \A q \in DOMAIN K : K[q] = K[s] => q = s
        BY <1>0, <1>1, <1>2, <2>2 DEF KeysOnce
      <3>2. ValueIn(K, W, k) = W[s]
        BY <1>0, <1>2, <3>1, ValueAt
      <3> QED
        BY <1>0, <1>4, <1>6, <2>2, <3>2
    <2> QED
      BY <1>0, <2>1, <2>2
  <1>8. ASSUME NEW j, j # k, j # init_value
        PROVE  ValueIn(L, X, j) = ValueIn(K, W, j) /\ (Has(L, j) <=> Has(K, j))
    <2>1. \A q \in DOMAIN L : L[q] = j <=> K[q] = j
      BY <1>0, <1>5, <1>8
    <2>2. \A q \in DOMAIN L : L[q] = j => X[q] = W[q]
      BY <1>0, <1>3, <1>5, <1>8
    <2> QED
      BY <1>0, <1>2, <1>5, <2>1, <2>2, SameValue
  <1> QED
    BY <1>0, <1>2, <1>4, <1>5, <1>7, <1>8

LEMMA InsertProbingKeeps ==
  ASSUME IInv, loads = 1, InsertProbing
  PROVE  InOrder'
  <1>1. /\ tag = "LP" /\ ph = "insert" /\ lane[0].n <= Flops
        /\ UNCHANGED <<kernel, ph, held, used, crow>> /\ lane' = [lane EXCEPT ![0].n = @ + 1]
    BY DEF InsertProbing
  <1>2. /\ Fitting /\ TableType /\ row \in DOMAIN rows /\ IsRow(Row) /\ Flops = Len(Row) /\ Flops \in Nat
        /\ KeysOnce(Row, 1, Keys(1)) /\ KeysOnce(Row, 2, Keys(2))
        /\ Probed(1, Keys(1)) /\ Probed(2, Keys(2)) /\ Working /\ Accounted /\ crow = <<>>
    BY <1>1, InsertFacts
  <1>3. Listed /\ Clean /\ Chunks
    BY DEF IInv, InOrder
  <1>4. /\ lane = [l \in Lanes |-> lane[l]] /\ LaneType(0) /\ lane[0].n # 0 /\ 0 \in Lanes
        /\ tracked \in Seq(SlotsOf(2))
        /\ \A i, j \in DOMAIN tracked : tracked[i] = tracked[j] => i = j
        /\ \A s \in SlotsOf(2) : Keys(2)[s] # init_value <=> \E i \in DOMAIN tracked : tracked[i] = s
    BY <1>1, <1>3, Strides DEF Listed
  <1>5. PICK n \in 1 .. Flops : n = lane[0].n
    BY <1>1, <1>2, <1>4 DEF LaneType
  <1>6. PICK R : R = Row
    OBVIOUS
  <1>7. PICK k \in ColsIn(R) : k = Key(0) /\ k = R[n][1]
    BY <1>2, <1>5, <1>6, RowFacts DEF Key, Row
  <1>8. PICK x \in Int : x = Product(0) /\ x = Val[R[n][2]]
    BY <1>2, <1>5, <1>6, RowFacts DEF Product, Row
  <1>9. PICK K : K = Keys(2) /\ KeysOnce(R, 2, K) /\ Probed(2, K)
    BY <1>2, <1>6
  <1>10. PICK W \in [SlotsOf(2) -> Int] : W = Vals(2)
    BY <1>2 DEF TableType
  <1>11. PICK m \in SlotsOf(2) :
           /\ ProbeEnds(k, 2) = Place(k, 2, m) /\ K[Place(k, 2, m)] \in {k, init_value}
           /\ FirstTrial(K, 2, k, m)
    <2>1. Cardinality(ColsIn(R)) <= TableSize[2]
      BY <1>1, <1>2, <1>6, TheRow DEF Fitting
    <2>2. K = table[2].keys /\ IsRow(R)
      BY <1>2, <1>6, <1>9 DEF Keys
    <2>3. \E i \in SlotsOf(2) :
           /\ ProbeEnds(k, 2) = Place(k, 2, i)
           /\ K[Place(k, 2, i)] \in {k, init_value}
           /\ \A j \in SlotsOf(2) : j < i => K[Place(k, 2, j)] \notin {k, init_value}
      BY <1>9, <2>1, <2>2, HostProbe
    <2> QED
      BY <2>3 DEF FirstTrial
  <1>12. PICK s : s = ProbeEnds(k, 2) /\ s = Place(k, 2, m)
    BY <1>11
  <1>13. PICK new \in BOOLEAN : new <=> K[s] = init_value
    OBVIOUS
  <1>14. /\ table' = [table EXCEPT ![2].keys[s] = k, ![2].vals[s] = IF new THEN x ELSE @ + x]
         /\ tracked' = IF new THEN Append(tracked, s) ELSE tracked
    BY <1>7, <1>8, <1>9, <1>12, <1>13 DEF InsertProbing, Keys
  <1>15. /\ table' = [t \in {1, 2} |-> [keys |-> Keys(t)', vals |-> Vals(t)']]
         /\ Keys(1)' = Keys(1) /\ Vals(1)' = Vals(1)
         /\ Put(K, s, k, Keys(2)') /\ Put(W, s, IF new THEN x ELSE W[s] + x, Vals(2)')
    <2>1. PICK tb, nt : tb = table /\ nt = table'
      OBVIOUS
    <2>2. TwoTables(tb)
      BY <1>2, <2>1 DEF TableType, Keys, Vals, TwoTables
    <2>3. BothWritten(tb, s, k, new, x, nt)
      BY <1>14, <2>1 DEF BothWritten
    <2>4. /\ TwoTables(nt) /\ nt[1].keys = tb[1].keys /\ nt[1].vals = tb[1].vals
          /\ Put(tb[2].keys, s, k, nt[2].keys)
          /\ Put(tb[2].vals, s, IF new THEN x ELSE tb[2].vals[s] + x, nt[2].vals)
      BY <2>2, <2>3, WriteBoth
    <2> QED
      BY <1>9, <1>10, <2>1, <2>4 DEF Keys, Vals, TwoTables
  <1>16. PICK L, X : L = Keys(2)' /\ X = Vals(2)'
    OBVIOUS
  <1>17. /\ s \in SlotsOf(2) /\ KeysOnce(R, 2, L) /\ Probed(2, L) /\ L[s] = k
         /\ X \in [SlotsOf(2) -> Int]
         /\ \A q \in SlotsOf(2) : q # s => L[q] = K[q]
         /\ ValueIn(L, X, k) = ValueIn(K, W, k) + x
         /\ \A j : j # k /\ j # init_value => ValueIn(L, X, j) = ValueIn(K, W, j) /\ (Has(L, j) <=> Has(K, j))
    <2>1. HostInserts(R, K, W, k, x, m, s, L, X)
      BY <1>2, <1>6, <1>7, <1>8, <1>9, <1>10, <1>11, <1>12, <1>13, <1>15, <1>16 DEF HostInserts
    <2> QED
      BY <2>1, HostInsert
  <1>18. k \in Nat /\ k # init_value /\ k \in Cols
    BY <1>2, <1>6, RowFacts
  <1>19. /\ UNCHANGED <<tag, loads, rows, row, held>> /\ Row' = R /\ Flops' = Flops
         /\ Working' /\ ~ Inserting' /\ ph' = "insert" /\ tag' = "LP"
    BY <1>1, <1>2, <1>6 DEF kernel, Row, Flops, Working, Inserting
  <1>20. Fitting'
    <2>1. Fitting /\ rows' = rows /\ row' = row /\ tag' = tag /\ ph' = ph
      BY <1>1, <1>2, <1>19
    <2> QED
      BY <2>1 DEF Fitting, CSize, ColsOf
  <1>21. TableType'
    <2>1. \A t \in {1, 2} : /\ Keys(t) \in [SlotsOf(t) -> Cols \union {init_value}]
                            /\ Vals(t) \in [SlotsOf(t) -> Int]
      BY <1>2 DEF TableType
    <2>2. L \in [SlotsOf(2) -> Cols \union {init_value}]
      <3>1. ColsIn(R) \subseteq Cols
        BY <1>2, <1>6, RowFacts
      <3> QED
        BY <1>17, <3>1 DEF KeysOnce
    <2> QED
      BY <1>15, <1>16, <1>17, <2>1, <2>2 DEF TableType
  <1>22. Clean'
    <2>1. held
      BY <1>1, <1>3 DEF Chunks, NeedsChunk
    <2> QED
      BY <1>1, <1>3, <1>15, <1>19, <2>1 DEF Clean
  <1>23. Tables'
    BY <1>2, <1>6, <1>15, <1>16, <1>17, <1>19 DEF Tables
  <1>24. /\ lane' = [l \in Lanes |-> lane'[l]] /\ LaneType(0)' /\ lane'[0].n = n + 1
    <2>1. PICK c : c = [lane[0] EXCEPT !.n = @ + 1]
      OBVIOUS
    <2>2. lane' = [lane EXCEPT ![0] = c]
      BY <1>1, <1>4, <2>1
    <2>3. c.n = n + 1 /\ c.n \in Nat
      BY <1>4, <1>5, <2>1 DEF LaneType
    <2>4. c = [pc |-> lane[0].pc, n |-> c.n, insert_is_on |-> lane[0].insert_is_on, t |-> lane[0].t,
               trial |-> lane[0].trial, seen |-> lane[0].seen, new |-> lane[0].new]
      BY <1>4, <2>1 DEF LaneType
    <2>5. lane'[0] = c /\ lane' = [l \in Lanes |-> lane'[l]]
      BY <1>4, <2>2
    <2> QED
      BY <1>4, <2>3, <2>4, <2>5 DEF LaneType
  <1>25. Listed'
    <2>1. \A q \in SlotsOf(2) : L[q] # init_value <=> q = s \/ K[q] # init_value
      BY <1>17, <1>18
    <2>2. CASE new
      <3>1. \A i \in DOMAIN tracked : tracked[i] # s
        BY <1>4, <1>9, <1>13, <1>17, <2>2
      <3>2. PICK z \in Nat : z = Len(tracked) /\ DOMAIN tracked = 1 .. z
        BY <1>4
      <3>3. /\ tracked' \in Seq(SlotsOf(2)) /\ DOMAIN tracked' = 1 .. z + 1 /\ tracked'[z + 1] = s
            /\ \A i \in 1 .. z : tracked'[i] = tracked[i]
        BY <1>4, <1>14, <1>17, <2>2, <3>2
      <3>4. \A i, j \in DOMAIN tracked' : tracked'[i] = tracked'[j] => i = j
        <4> SUFFICES ASSUME NEW i \in 1 .. z + 1, NEW j \in 1 .. z + 1, tracked'[i] = tracked'[j] PROVE i = j
          BY <3>3
        <4>1. (i \in 1 .. z \/ i = z + 1) /\ (j \in 1 .. z \/ j = z + 1)
          OBVIOUS
        <4>2. CASE i \in 1 .. z /\ j \in 1 .. z
          BY <1>4, <3>2, <3>3, <4>2
        <4>3. CASE i = z + 1 /\ j \in 1 .. z
          BY <3>1, <3>2, <3>3, <4>3
        <4>4. CASE i \in 1 .. z /\ j = z + 1
          BY <3>1, <3>2, <3>3, <4>4
        <4> QED
          BY <4>1, <4>2, <4>3, <4>4
      <3>5. \A q \in SlotsOf(2) : L[q] # init_value <=> \E i \in DOMAIN tracked' : tracked'[i] = q
        <4>1. \A q : (\E i \in DOMAIN tracked' : tracked'[i] = q) <=> q = s \/ \E i \in DOMAIN tracked : tracked[i] = q
          <5>1. \A i : i \in 1 .. z + 1 <=> i \in 1 .. z \/ i = z + 1
            OBVIOUS
          <5> QED
            BY <3>2, <3>3, <5>1
        <4> QED
          BY <1>4, <1>9, <2>1, <4>1
      <3> QED
        BY <1>16, <1>24, <3>3, <3>4, <3>5 DEF Listed
    <2>3. CASE ~ new
      <3>1. tracked' = tracked /\ K[s] # init_value
        BY <1>13, <1>14, <2>3
      <3>2. \A q \in SlotsOf(2) : L[q] # init_value <=> \E i \in DOMAIN tracked' : tracked'[i] = q
        BY <1>4, <1>9, <2>1, <3>1
      <3> QED
        BY <1>4, <1>16, <1>24, <3>1, <3>2 DEF Listed
    <2> QED
      BY <2>2, <2>3
  <1>26. PICK D, E : /\ D = Done /\ E = Done' /\ OneMore(R, D, n, E)
    <2>1. Done = {m1 \in 1 .. Flops : m1 < n} /\ Done' = {m1 \in 1 .. Flops : m1 < n + 1}
      BY <1>1, <1>5, <1>19, <1>24 DEF Done
    <2>2. \A m1 \in 1 .. Flops : m1 < n + 1 <=> m1 < n \/ m1 = n
      BY <1>2
    <2>3. ~ (n < n)
      BY <1>2
    <2>4. PICK D, E : D = Done /\ E = Done'
      OBVIOUS
    <2>5. D \in SUBSET (1 .. Len(R)) /\ n \in (1 .. Len(R)) \ D /\ 1 .. Flops = 1 .. Len(R)
      BY <1>2, <1>6, <2>1, <2>3, <2>4
    <2>6. E = D \union {n}
      BY <2>1, <2>2, <2>4
    <2> QED
      BY <2>4, <2>5, <2>6 DEF OneMore
  <1>27. \A j \in ColsIn(R) : /\ InTables(j)' = IF j = k THEN InTables(j) + x ELSE InTables(j)
                              /\ Somewhere(j) => Somewhere(j)'
    <2> SUFFICES ASSUME NEW j \in ColsIn(R)
                 PROVE  /\ InTables(j)' = IF j = k THEN InTables(j) + x ELSE InTables(j)
                        /\ Somewhere(j) => Somewhere(j)'
      OBVIOUS
    <2>1. j # init_value
      BY <1>2, <1>6, RowFacts
    <2>2. /\ ValueIn(Keys(1), Vals(1), j) \in Int /\ ValueIn(K, W, j) \in Int
      <3>1. DOMAIN Keys(1) = SlotsOf(1) /\ Vals(1) \in [SlotsOf(1) -> Int] /\ DOMAIN K = SlotsOf(2)
        BY <1>2, <1>9 DEF TableType
      <3> QED
        BY <3>1 DEF ValueIn, Has
    <2>3. /\ InTables(j) = ValueIn(Keys(1), Vals(1), j) + ValueIn(K, W, j)
          /\ InTables(j)' = ValueIn(Keys(1), Vals(1), j) + ValueIn(L, X, j)
      BY <1>9, <1>10, <1>15, <1>16 DEF InTables
    <2>4. Has(K, j) => Has(L, j)
      <3>1. Has(L, k)
        BY <1>17 DEF Has, KeysOnce
      <3> QED
        BY <1>17, <2>1, <3>1
    <2>5. Somewhere(j) => Somewhere(j)'
      BY <1>9, <1>15, <1>16, <2>4 DEF Somewhere
    <2> QED
      BY <1>17, <2>1, <2>2, <2>3, <2>5
  <1>28. Accounted'
    <2>1. \A j \in ColsIn(R) : /\ InTables(j) = Sum(R, j, D)
                               /\ (\E m1 \in D : R[m1][1] = j) => Somewhere(j)
      BY <1>2, <1>6, <1>26 DEF Accounted, InRow
    <2>2. \A j : Sum(R, j, E) = IF j = R[n][1] THEN Sum(R, j, D) + Val[R[n][2]] ELSE Sum(R, j, D)
      BY <1>2, <1>6, <1>26, AddToSum
    <2>3. Somewhere(k)'
      BY <1>16, <1>17 DEF Somewhere, Has, KeysOnce
    <2>4. \A j \in ColsIn(R) : /\ InTables(j)' = Sum(R, j, E)
                               /\ (\E m1 \in E : R[m1][1] = j) => Somewhere(j)'
      <3>1. E = D \union {n}
        BY <1>26 DEF OneMore
      <3> QED
        BY <1>7, <1>8, <1>27, <2>1, <2>2, <2>3, <3>1
    <2>5. crow' = <<>> /\ crow' \in Seq(ColsIn(R) \X Int) /\ DOMAIN crow' = {}
      BY <1>1, <1>2
    <2> QED
      BY <1>19, <1>26, <2>4, <2>5 DEF Accounted
  <1>29. LanesKnow' /\ Counted' /\ RowCorrect'
    BY <1>19 DEF LanesKnow, Counted, RowCorrect
  <1> QED
    BY <1>20, <1>21, <1>22, <1>23, <1>25, <1>28, <1>29 DEF InOrder

-----------------------------------------------------------------------------
(***************************************************************************)
(* The steps between barriers.                                             *)
(***************************************************************************)
\* When every lane is out, or the host at the end, every product is done.
LEMMA AllDone ==
  ASSUME IInv, loads = 1, ph = "insert",
         IF tag = "LP" THEN lane[0].n > Flops ELSE \A l \in Lanes : lane[l].pc = "out"
  PROVE  Done = 1 .. Flops
  <1>1. Flops \in Nat
    BY InsertFacts
  <1>2. CASE tag = "LP"
    <2>1. LaneType(0) /\ lane[0].n > Flops
      BY <1>2 DEF IInv, InOrder, Listed
    <2>2. lane[0].n \in Nat
      BY <2>1 DEF LaneType
    <2>3. Done = {m \in 1 .. Flops : m < lane[0].n}
      BY <1>2 DEF Done
    <2> QED
      BY <1>1, <2>1, <2>2, <2>3
  <1>3. CASE tag # "LP"
    <2>1. \A l \in Lanes : LaneType(l) /\ LaneKnows(l) /\ lane[l].pc = "out"
      BY <1>3 DEF IInv, InOrder, LanesKnow, Inserting
    <2>2. \A l \in Lanes : lane[l].n \in Nat /\ lane[l].n > Flops
      BY <2>1 DEF LaneType, LaneKnows
    <2>3. ASSUME NEW m \in 1 .. Flops PROVE \E l \in Lanes : m \in DoneBy(l)
      <3>0. m \in Nat \ {0}
        BY <1>1
      <3>1. PICK l \in Lanes : Mine(l, m)
        BY <3>0, Strides
      <3>2. m < lane[l].n
        BY <1>1, <2>2
      <3> QED
        BY <3>1, <3>2 DEF DoneBy
    <2>4. \A l \in Lanes : DoneBy(l) \in SUBSET (1 .. Flops)
      BY DEF DoneBy
    <2>5. Done = UNION {DoneBy(l) : l \in Lanes}
      BY <1>3 DEF Done
    <2> QED
      BY <2>3, <2>4, <2>5
  <1> QED
    BY <1>2, <1>3

LEMMA InsertDoneKeeps ==
  ASSUME IInv, loads = 1, InsertDone
  PROVE  InOrder'
  <1>1. /\ ph = "insert" /\ ph' \in {"merge", "write"}
        /\ UNCHANGED <<kernel, held, table, used, tracked, crow, lane>>
        /\ IF tag = "LP" THEN lane[0].n > Flops ELSE \A l \in Lanes : lane[l].pc = "out"
    BY DEF InsertDone
  <1>2. InOrder /\ Fitting /\ TableType /\ Clean /\ Tables /\ Accounted
    BY DEF IInv, InOrder
  <1>3. /\ UNCHANGED <<tag, loads, rows, row, held, table, crow, tracked, lane>>
        /\ Row' = Row /\ Flops' = Flops
        /\ \A t : Keys(t)' = Keys(t) /\ Vals(t)' = Vals(t)
        /\ Working /\ Working' /\ ~ Inserting'
    BY <1>1 DEF kernel, Row, Flops, Keys, Vals, Working, Inserting
  <1>4. Fitting'
    <2>1. Fitting /\ rows' = rows /\ row' = row /\ tag' = tag /\ row \in DOMAIN rows
      BY <1>1, <1>2, <1>3, InsertFacts
    <2> QED
      BY <2>1 DEF Fitting, CSize, ColsOf
  <1>5. TableType'
    BY <1>2, <1>3 DEF TableType
  <1>6. Clean'
    BY <1>1, <1>2, <1>3 DEF Clean
  <1>7. Tables'
    BY <1>1, <1>2, <1>3 DEF Tables
  <1>8. LanesKnow' /\ Counted' /\ RowCorrect'
    BY <1>1, <1>3 DEF LanesKnow, Counted, RowCorrect
  <1>9. Listed'
    <2>1. Listed
      BY <1>2 DEF InOrder
    <2> QED
      BY <1>1, <1>3, <2>1 DEF Listed, LaneType
  <1>10. PICK D : D = Done /\ D = Done'
    <2>1. Done = 1 .. Flops
      BY <1>1, AllDone
    <2>2. Done' = 1 .. Flops
      BY <1>1, <1>3 DEF Done
    <2> QED
      BY <2>1, <2>2
  <1>11. Accounted'
    <2>1. \A k : InTables(k)' = InTables(k) /\ (Somewhere(k)' <=> Somewhere(k)) /\ (InRow(k)' <=> InRow(k))
      BY <1>3 DEF InTables, Somewhere, InRow
    <2>2. crow = <<>> /\ crow' = <<>>
      BY <1>1, <1>2, <1>3 DEF Accounted
    <2> QED
      BY <1>2, <1>3, <1>10, <2>1, <2>2 DEF Accounted
  <1> QED
    BY <1>4, <1>5, <1>6, <1>7, <1>8, <1>9, <1>11 DEF InOrder

\* The facts of the merge.
LEMMA MergeFacts ==
  ASSUME IInv, loads = 1, ph \in {"merge", "write"}
  PROVE  /\ Fitting /\ TableType /\ Clean /\ Chunks /\ row \in DOMAIN rows /\ IsRow(Row) /\ Flops = Len(Row)
         /\ KeysOnce(Row, 1, Keys(1)) /\ KeysOnce(Row, 2, Keys(2)) /\ Probed(1, Keys(1))
         /\ Working /\ Done = 1 .. Flops
         /\ crow \in Seq(ColsIn(Row) \X Int) /\ (tag = "LP" => crow = <<>>)
         /\ \A k \in ColsIn(Row) : ~ InRow(k) => InTables(k) = Sum(Row, k, Done) /\ Somewhere(k)
         /\ \A i \in DOMAIN crow : /\ crow[i][2] = Sum(Row, crow[i][1], Done)
                                   /\ ~ Somewhere(crow[i][1])
         /\ \A i, j \in DOMAIN crow : crow[i][1] = crow[j][1] => i = j
  <1>1. InOrder /\ Chunks
    BY DEF IInv
  <1>2. Fitting /\ TableType /\ Clean /\ Tables /\ Accounted
    BY <1>1 DEF InOrder
  <1>3. row \in DOMAIN rows /\ rows \in Problems
    BY <1>2 DEF Fitting
  <1>4. Working
    BY DEF Working
  <1>5. IsRow(Row) /\ Flops = Len(Row)
    BY <1>3, TheRow
  <1>6. Done = 1 .. Flops
    BY DEF Done
  <1>7. \A k \in ColsIn(Row) : \E m \in Done : Row[m][1] = k
    BY <1>5, <1>6, RowFacts DEF ColsIn
  <1> QED
    BY <1>1, <1>2, <1>3, <1>4, <1>5, <1>6, <1>7 DEF Tables, Accounted

LEMMA ReleaseChunkKeeps ==
  ASSUME IInv, loads = 1, ReleaseChunk
  PROVE  InOrder'
  <1>1. /\ ph = "merge" /\ ph' = "write" /\ Unmerged = {}
        /\ UNCHANGED <<kernel, table, used, tracked, crow, lane>>
    BY DEF ReleaseChunk
  <1>2. InOrder /\ Fitting /\ TableType /\ Clean /\ Tables /\ Accounted /\ row \in DOMAIN rows /\ Chunks
    BY <1>1, MergeFacts DEF IInv, InOrder
  <1>3. /\ UNCHANGED <<tag, loads, rows, row, table, crow, tracked, lane>>
        /\ Row' = Row /\ Flops' = Flops
        /\ \A t : Keys(t)' = Keys(t) /\ Vals(t)' = Vals(t)
        /\ Working /\ Working' /\ ~ Inserting' /\ tag = "BigSpread"
    BY <1>1, <1>2 DEF kernel, Row, Flops, Keys, Vals, Working, Inserting, Chunks
  <1>4. Fitting'
    BY <1>2, <1>3 DEF Fitting, CSize, ColsOf
  <1>5. TableType'
    BY <1>2, <1>3 DEF TableType
  <1>6. Clean'
    <2>1. \A s \in SlotsOf(2) : Keys(2)[s] = init_value
      BY <1>1 DEF Unmerged, Keys
    <2>2. Keys(2) = [s \in SlotsOf(2) |-> Keys(2)[s]]
      BY <1>2 DEF TableType
    <2>3. Keys(2) = Empty(2)
      BY <2>1, <2>2 DEF Empty
    <2> QED
      BY <1>3, <2>3 DEF Clean
  <1>7. Tables'
    BY <1>1, <1>2, <1>3 DEF Tables
  <1>8. LanesKnow' /\ Counted' /\ RowCorrect' /\ Listed'
    BY <1>1, <1>3 DEF LanesKnow, Counted, RowCorrect, Listed
  <1>9. PICK D : D = Done /\ D = Done'
    BY <1>1, <1>3 DEF Done
  <1>10. Accounted'
    <2>1. \A k : InTables(k)' = InTables(k) /\ (Somewhere(k)' <=> Somewhere(k)) /\ (InRow(k)' <=> InRow(k))
      BY <1>3 DEF InTables, Somewhere, InRow
    <2> QED
      BY <1>1, <1>2, <1>3, <1>9, <2>1 DEF Accounted
  <1> QED
    BY <1>4, <1>5, <1>6, <1>7, <1>8, <1>10 DEF InOrder

MergeWritten(tb, at, v, s, nt) ==
  nt = [tb EXCEPT ![1].vals = [q \in SlotsOf(1) |-> IF q \in at THEN @[q] + v ELSE @[q]],
                  ![2].keys[s] = init_value]

LEMMA WriteMerge ==
  ASSUME NEW tb, TwoTables(tb), NEW at, NEW v, NEW s, NEW nt, MergeWritten(tb, at, v, s, nt)
  PROVE  /\ TwoTables(nt) /\ nt[1].keys = tb[1].keys /\ nt[2].vals = tb[2].vals
         /\ Put(tb[2].keys, s, init_value, nt[2].keys)
         /\ nt[1].vals = [q \in SlotsOf(1) |-> IF q \in at THEN tb[1].vals[q] + v ELSE tb[1].vals[q]]
  <1>1. PICK K, W, L, X : K = tb[1].keys /\ W = tb[1].vals /\ L = tb[2].keys /\ X = tb[2].vals
    OBVIOUS
  <1>2. /\ DOMAIN tb = {1, 2} /\ tb = [t \in {1, 2} |-> tb[t]]
        /\ tb[1] = [keys |-> K, vals |-> W] /\ tb[2] = [keys |-> L, vals |-> X]
    BY <1>1 DEF TwoTables
  <1>3. PICK Y : Y = [q \in SlotsOf(1) |-> IF q \in at THEN W[q] + v ELSE W[q]]
    OBVIOUS
  <1>4. PICK b, c : b = [keys |-> K, vals |-> Y] /\ c = [keys |-> [L EXCEPT ![s] = init_value], vals |-> X]
    OBVIOUS
  <1>5. nt = [t \in {1, 2} |-> IF t = 2 THEN c ELSE b]
    <2>1. [tb[1] EXCEPT !.vals = Y] = b
      BY <1>2, <1>4
    <2>2. [tb[2] EXCEPT !.keys[s] = init_value] = c
      BY <1>2, <1>4
    <2>3. nt = [tb EXCEPT ![1].vals = Y, ![2].keys[s] = init_value]
      <3>1. tb[1].vals = W
        BY <1>1
      <3> QED
        BY <1>3, <3>1 DEF MergeWritten
    <2>4. PICK mid : mid = [tb EXCEPT ![1].vals = Y]
      OBVIOUS
    <2>5. mid = [tb EXCEPT ![1] = b]
      BY <1>2, <2>1, <2>4
    <2>6. mid = [t \in {1, 2} |-> IF t = 2 THEN tb[2] ELSE b]
      <3>1. PICK a : a = tb[2]
        OBVIOUS
      <3>2. DOMAIN tb = {1, 2} /\ tb = [t \in {1, 2} |-> tb[t]] /\ tb[2] = a
        BY <1>2, <3>1
      <3>3. [tb EXCEPT ![1] = b] = [t \in {1, 2} |-> IF t = 1 THEN b ELSE a]
        BY <3>2
      <3>4. \A t \in {1, 2} : (IF t = 1 THEN b ELSE a) = (IF t = 2 THEN a ELSE b)
        OBVIOUS
      <3> QED
        BY <2>5, <3>1, <3>3, <3>4
    <2>7. nt = [mid EXCEPT ![2].keys[s] = init_value]
      BY <2>3, <2>4
    <2>8. nt = [mid EXCEPT ![2] = c]
      BY <2>2, <2>6, <2>7
    <2> QED
      BY <2>6, <2>8
  <1>6. nt[1] = b /\ nt[2] = c /\ nt = [t \in {1, 2} |-> nt[t]]
    BY <1>5
  <1>7. b = [keys |-> b.keys, vals |-> b.vals] /\ c = [keys |-> c.keys, vals |-> c.vals]
    BY <1>4
  <1>8. TwoTables(nt)
    <2>1. \A t \in {1, 2} : nt[t] = [keys |-> nt[t].keys, vals |-> nt[t].vals]
      BY <1>6, <1>7
    <2> QED
      BY <1>6, <2>1 DEF TwoTables
  <1>9. nt[1].keys = K /\ nt[1].vals = Y /\ nt[2].keys = [L EXCEPT ![s] = init_value] /\ nt[2].vals = X
    BY <1>4, <1>6
  <1> QED
    BY <1>1, <1>3, <1>8, <1>9 DEF Put

\* The slot is emptied; the other columns of the table stay.
LEMMA RemoveKey ==
  ASSUME NEW R, IsRow(R), NEW t \in {1, 2}, NEW K, KeysOnce(R, t, K), NEW s \in SlotsOf(t),
         NEW k, k = K[s], k # init_value, NEW L, Put(K, s, init_value, L), NEW W
  PROVE  /\ KeysOnce(R, t, L) /\ L[s] = init_value /\ \A q \in SlotsOf(t) : q # s => L[q] = K[q]
         /\ k \in ColsIn(R) /\ Has(K, k) /\ ValueIn(K, W, k) = W[s]
         /\ ~ Has(L, k) /\ ValueIn(L, W, k) = 0
         /\ \A j : j # k /\ j # init_value => (Has(L, j) <=> Has(K, j)) /\ ValueIn(L, W, j) = ValueIn(K, W, j)
  <1>1. DOMAIN K = SlotsOf(t) /\ k \in ColsIn(R) /\ \A q \in DOMAIN K : K[q] = K[s] => q = s
    BY DEF KeysOnce
  <1>2. DOMAIN L = SlotsOf(t) /\ L[s] = init_value /\ \A q \in SlotsOf(t) : q # s => L[q] = K[q]
    BY <1>1 DEF Put
  <1>3. KeysOnce(R, t, L)
    <2>1. L \in [SlotsOf(t) -> ColsIn(R) \union {init_value}]
      BY DEF KeysOnce, Put
    <2> QED
      BY <1>2, <2>1 DEF KeysOnce
  <1>4. Has(K, k) /\ ValueIn(K, W, k) = W[s]
    BY <1>1, ValueAt
  <1>5. ~ Has(L, k) /\ ValueIn(L, W, k) = 0
    BY <1>1, <1>2 DEF Has, ValueIn
  <1>6. ASSUME NEW j, j # k, j # init_value PROVE (Has(L, j) <=> Has(K, j)) /\ ValueIn(L, W, j) = ValueIn(K, W, j)
    <2>1. \A q \in DOMAIN L : L[q] = j <=> K[q] = j
      BY <1>2, <1>6
    <2> QED
      BY <1>1, <1>2, <2>1, SameValue
  <1> QED
    BY <1>1, <1>2, <1>3, <1>4, <1>5, <1>6

LEMMA MergeSlotKeeps ==
  ASSUME IInv, loads = 1, NEW s \in SlotsOf(2), MergeSlot(s)
  PROVE  InOrder'
  <1>1. /\ ph = "merge" /\ ph' = "merge" /\ Keys(2)[s] # init_value
        /\ UNCHANGED <<kernel, ph, held, used, tracked, lane>>
    BY DEF MergeSlot, Unmerged, Keys
  <1>2. /\ Fitting /\ TableType /\ Clean /\ Chunks /\ row \in DOMAIN rows /\ IsRow(Row) /\ Flops = Len(Row)
        /\ KeysOnce(Row, 1, Keys(1)) /\ KeysOnce(Row, 2, Keys(2)) /\ Probed(1, Keys(1))
        /\ Working /\ Done = 1 .. Flops
        /\ crow \in Seq(ColsIn(Row) \X Int)
        /\ \A k \in ColsIn(Row) : ~ InRow(k) => InTables(k) = Sum(Row, k, Done) /\ Somewhere(k)
        /\ \A i \in DOMAIN crow : /\ crow[i][2] = Sum(Row, crow[i][1], Done)
                                  /\ ~ Somewhere(crow[i][1])
        /\ \A i, j \in DOMAIN crow : crow[i][1] = crow[j][1] => i = j
    BY <1>1, MergeFacts
  <1>3. tag = "BigSpread" /\ held
    BY <1>1, <1>2 DEF Chunks
  <1>4. PICK R, K, W : R = Row /\ K = Keys(1) /\ W = Vals(1)
    OBVIOUS
  <1>5. PICK L, X : L = Keys(2) /\ X = Vals(2)
    OBVIOUS
  <1>6. /\ IsRow(R) /\ KeysOnce(R, 1, K) /\ Probed(1, K) /\ KeysOnce(R, 2, L)
        /\ W \in [SlotsOf(1) -> Int] /\ X \in [SlotsOf(2) -> Int]
        /\ K = table[1].keys /\ L = table[2].keys /\ X = table[2].vals
    BY <1>2, <1>4, <1>5 DEF TableType, Keys, Vals
  <1>7. PICK k \in ColsIn(R) : k = L[s] /\ k # init_value
    BY <1>1, <1>5, <1>6 DEF KeysOnce
  <1>8. PICK v \in Int : v = X[s]
    BY <1>6
  <1>9. PICK at : at = {q \in SlotsOf(1) : K[q] = k}
    OBVIOUS
  <1>10. /\ table' = [table EXCEPT
              ![1].vals = [q \in SlotsOf(1) |-> IF q \in at THEN @[q] + v ELSE @[q]],
              ![2].keys[s] = init_value]
         /\ crow' = IF at = {} THEN Append(crow, <<k, v>>) ELSE crow
    <2>1. FirstUntilEmpty(k, Hash(k, 1), TableSize[1] - 1) \union FirstUntilEmpty(k, 0, Hash(k, 1) - 1) = at
      BY <1>6, <1>9, MergeSearch
    <2>2. k = table[2].keys[s] /\ v = table[2].vals[s]
      BY <1>6, <1>7, <1>8
    <2> QED
      BY <2>1, <2>2 DEF MergeSlot
  <1>11. PICK M, Y : M = Keys(2)' /\ Y = Vals(1)'
    OBVIOUS
  <1>12. /\ table' = [t \in {1, 2} |-> [keys |-> Keys(t)', vals |-> Vals(t)']]
         /\ Keys(1)' = K /\ Vals(2)' = X /\ Put(L, s, init_value, M)
         /\ Y = [q \in SlotsOf(1) |-> IF q \in at THEN W[q] + v ELSE W[q]]
    <2>1. PICK tb, nt : tb = table /\ nt = table'
      OBVIOUS
    <2>2. TwoTables(tb)
      BY <1>2, <2>1 DEF TableType, Keys, Vals, TwoTables
    <2>3. MergeWritten(tb, at, v, s, nt)
      BY <1>10, <2>1 DEF MergeWritten
    <2>4. /\ TwoTables(nt) /\ nt[1].keys = tb[1].keys /\ nt[2].vals = tb[2].vals
          /\ Put(tb[2].keys, s, init_value, nt[2].keys)
          /\ nt[1].vals = [q \in SlotsOf(1) |-> IF q \in at THEN tb[1].vals[q] + v ELSE tb[1].vals[q]]
      BY <2>2, <2>3, WriteMerge
    <2> QED
      BY <1>4, <1>5, <1>11, <2>1, <2>4 DEF Keys, Vals, TwoTables
  <1>13. /\ KeysOnce(R, 2, M) /\ M[s] = init_value /\ \A q \in SlotsOf(2) : q # s => M[q] = L[q]
         /\ Has(L, k) /\ ValueIn(L, X, k) = v
         /\ ~ Has(M, k) /\ ValueIn(M, X, k) = 0
         /\ \A j : j # k /\ j # init_value => (Has(M, j) <=> Has(L, j)) /\ ValueIn(M, X, j) = ValueIn(L, X, j)
    <2>1. 2 \in {1, 2} /\ IsRow(R) /\ KeysOnce(R, 2, L) /\ k = L[s] /\ k # init_value /\ Put(L, s, init_value, M)
      BY <1>6, <1>7, <1>12
    <2> QED
      BY <1>8, <2>1, RemoveKey
  <1>14. /\ ~ Has(K, k) => at = {} /\ Y = W
         /\ Has(K, k) => at # {} /\ ValueIn(K, Y, k) = ValueIn(K, W, k) + v
         /\ \A j : j # k => ValueIn(K, Y, j) = ValueIn(K, W, j)
         /\ Y \in [SlotsOf(1) -> Int]
    <2>1. DOMAIN K = SlotsOf(1)
      BY <1>6 DEF KeysOnce
    <2>2. Y \in [SlotsOf(1) -> Int]
      <3>1. \A q \in SlotsOf(1) : W[q] \in Int /\ W[q] + v \in Int
        BY <1>6
      <3> QED
        BY <1>12, <3>1
    <2>3. CASE ~ Has(K, k)
      <3>1. at = {}
        BY <1>9, <2>1, <2>3 DEF Has
      <3>2. Y = W
        BY <1>6, <1>12, <3>1
      <3> QED
        BY <2>2, <2>3, <3>1, <3>2
    <2>4. CASE Has(K, k)
      <3>1. PICK q \in SlotsOf(1) : K[q] = k
        BY <2>1, <2>4 DEF Has
      <3>2. \A p \in SlotsOf(1) : p \in at <=> p = q
        BY <1>6, <1>7, <1>9, <3>1 DEF KeysOnce
      <3>3. AddedAt(1, W, q, v, Y)
        BY <1>12, <3>2 DEF AddedAt
      <3>4. /\ ValueIn(K, Y, k) = ValueIn(K, W, k) + v
            /\ \A j : j # k => ValueIn(K, Y, j) = ValueIn(K, W, j)
        <4>1. 1 \in {1, 2} /\ KeysOnce(R, 1, K) /\ k # init_value
          BY <1>6, <1>7
        <4> QED
          BY <3>1, <3>3, <4>1, AddToColumn
      <3> QED
        BY <2>2, <2>4, <3>1, <3>2, <3>4
    <2> QED
      BY <2>3, <2>4
  <1>15. /\ UNCHANGED <<tag, loads, rows, row, held>> /\ Row' = R /\ Flops' = Flops
         /\ Working' /\ ~ Inserting'
    BY <1>1, <1>2, <1>4 DEF kernel, Row, Flops, Working, Inserting
  <1>16. Fitting'
    <2>1. Fitting /\ rows' = rows /\ row' = row /\ tag' = tag /\ ph' = ph
      BY <1>1, <1>2, <1>15
    <2> QED
      BY <2>1 DEF Fitting, CSize, ColsOf
  <1>17. TableType'
    <2>1. K \in [SlotsOf(1) -> Cols \union {init_value}]
      BY <1>2, <1>4 DEF TableType
    <2>2. M \in [SlotsOf(2) -> Cols \union {init_value}]
      <3>1. ColsIn(R) \subseteq Cols
        BY <1>6, RowFacts
      <3> QED
        BY <1>13, <3>1 DEF KeysOnce
    <2> QED
      BY <1>6, <1>11, <1>12, <1>14, <2>1, <2>2 DEF TableType
  <1>18. Clean'
    BY <1>1, <1>3, <1>15 DEF Clean
  <1>19. Tables'
    BY <1>1, <1>6, <1>11, <1>12, <1>13, <1>15 DEF Tables
  <1>20. LanesKnow' /\ Counted' /\ RowCorrect' /\ Listed'
    BY <1>1, <1>3, <1>15 DEF LanesKnow, Counted, RowCorrect, Listed
  <1>21. PICK D : D = Done /\ D = Done'
    BY <1>1, <1>15 DEF Done
  <1>22. \A j : /\ InTables(j) = ValueIn(K, W, j) + ValueIn(L, X, j)
                /\ InTables(j)' = ValueIn(K, Y, j) + ValueIn(M, X, j)
                /\ Somewhere(j) <=> Has(K, j) \/ Has(L, j)
                /\ Somewhere(j)' <=> Has(K, j) \/ Has(M, j)
    BY <1>4, <1>5, <1>11, <1>12 DEF InTables, Somewhere
  <1>23. ~ InRow(k) /\ InTables(k) = Sum(R, k, D)
    <2>1. Somewhere(k)
      BY <1>13, <1>22
    <2> QED
      BY <1>2, <1>4, <1>21, <2>1 DEF InRow
  <1>24. \A j : ValueIn(K, W, j) \in Int
    <2>1. DOMAIN K = SlotsOf(1)
      BY <1>6 DEF KeysOnce
    <2> QED
      BY <1>6, <2>1 DEF ValueIn, Has
  <1>25. \A j \in ColsIn(R) : j # k => /\ InTables(j)' = InTables(j)
                                       /\ Somewhere(j)' <=> Somewhere(j)
    <2>1. init_value \notin ColsIn(R)
      BY <1>6, RowFacts
    <2> QED
      BY <1>13, <1>14, <1>22, <2>1
  <1>26. CASE Has(K, k)
    <2>1. crow' = crow
      BY <1>10, <1>14, <1>26
    <2>2. \A j : InRow(j)' <=> InRow(j)
      BY <2>1 DEF InRow
    <2>3. InTables(k)' = Sum(R, k, D) /\ Somewhere(k)'
      BY <1>8, <1>13, <1>14, <1>22, <1>23, <1>24, <1>26
    <2>4. \A j \in ColsIn(R) : ~ InRow(j)' => InTables(j)' = Sum(R, j, D) /\ Somewhere(j)'
      BY <1>2, <1>4, <1>21, <1>25, <2>2, <2>3
    <2>5. \A i \in DOMAIN crow : crow[i][1] # k /\ crow[i][1] \in ColsIn(R)
      BY <1>2, <1>4, <1>23 DEF InRow
    <2>6. \A i \in DOMAIN crow : /\ crow[i][2] = Sum(R, crow[i][1], D)
                                 /\ \A j : j = crow[i][1] => ~ Somewhere(j)'
      <3> SUFFICES ASSUME NEW i \in DOMAIN crow, NEW j, j = crow[i][1]
                   PROVE  crow[i][2] = Sum(R, crow[i][1], D) /\ ~ Somewhere(j)'
        OBVIOUS
      <3>1. crow[i][2] = Sum(R, crow[i][1], D) /\ ~ Somewhere(j)
        BY <1>2, <1>4, <1>21
      <3> QED
        BY <1>25, <2>5, <3>1
    <2>7. Accounted'
      BY <1>1, <1>2, <1>3, <1>4, <1>15, <1>21, <2>1, <2>4, <2>6 DEF Accounted
    <2> QED
      BY <1>16, <1>17, <1>18, <1>19, <1>20, <2>7 DEF InOrder
  <1>27. CASE ~ Has(K, k)
    <2>1. PICK c : c = <<k, v>>
      OBVIOUS
    <2>2. c \in ColsIn(R) \X Int /\ c[1] = k /\ c[2] = v /\ crow' = Append(crow, c)
      BY <1>10, <1>14, <1>27, <2>1
    <2>3. PICK z \in Nat : z = Len(crow) /\ DOMAIN crow = 1 .. z
      BY <1>2
    <2>4. /\ crow' \in Seq(ColsIn(R) \X Int) /\ DOMAIN crow' = 1 .. z + 1 /\ crow'[z + 1] = c
          /\ \A i \in 1 .. z : crow'[i] = crow[i]
      BY <1>2, <1>4, <2>2, <2>3
    <2>5. \A i : i \in 1 .. z + 1 <=> i \in 1 .. z \/ i = z + 1
      OBVIOUS
    <2>6. v = Sum(R, k, D) /\ ~ Somewhere(k)'
      <3>1. ValueIn(K, W, k) = 0
        BY <1>27 DEF ValueIn
      <3> QED
        BY <1>8, <1>13, <1>22, <1>23, <1>27, <3>1
    <2>7. \A i \in 1 .. z : crow[i][1] # k /\ crow[i][1] \in ColsIn(R)
      BY <1>2, <1>4, <1>23, <2>3 DEF InRow
    <2>8. \A i \in DOMAIN crow' : /\ crow'[i][2] = Sum(R, crow'[i][1], D)
                                  /\ \A j : j = crow'[i][1] => ~ Somewhere(j)'
      <3> SUFFICES ASSUME NEW i \in 1 .. z + 1, NEW j, j = crow'[i][1]
                   PROVE  crow'[i][2] = Sum(R, j, D) /\ ~ Somewhere(j)'
        BY <2>4
      <3>1. CASE i \in 1 .. z
        <4>1. j = crow[i][1] /\ j \in ColsIn(R) /\ j # k
          BY <2>4, <2>7, <3>1
        <4>2. crow[i][2] = Sum(R, j, D) /\ ~ Somewhere(j)
          BY <1>2, <1>4, <1>21, <2>3, <3>1, <4>1
        <4> QED
          BY <1>25, <2>4, <3>1, <4>1, <4>2
      <3>2. CASE i = z + 1
        <4>1. j = k /\ crow'[i][2] = v
          BY <2>2, <2>4, <3>2
        <4> QED
          BY <2>6, <4>1
      <3> QED
        BY <2>5, <3>1, <3>2
    <2>9. \A i, j \in DOMAIN crow' : crow'[i][1] = crow'[j][1] => i = j
      <3> SUFFICES ASSUME NEW i \in 1 .. z + 1, NEW j \in 1 .. z + 1, crow'[i][1] = crow'[j][1] PROVE i = j
        BY <2>4
      <3>1. (i \in 1 .. z \/ i = z + 1) /\ (j \in 1 .. z \/ j = z + 1)
        BY <2>5
      <3>2. CASE i \in 1 .. z /\ j \in 1 .. z
        <4>1. crow'[i] = crow[i] /\ crow'[j] = crow[j] /\ i \in DOMAIN crow /\ j \in DOMAIN crow
          BY <2>3, <2>4, <3>2
        <4> QED
          BY <1>2, <4>1
      <3>3. CASE i = z + 1 /\ j \in 1 .. z
        BY <2>2, <2>4, <2>7, <3>3
      <3>4. CASE i \in 1 .. z /\ j = z + 1
        BY <2>2, <2>4, <2>7, <3>4
      <3> QED
        BY <3>1, <3>2, <3>3, <3>4
    <2>10. \A j \in ColsIn(R) : ~ InRow(j)' => InTables(j)' = Sum(R, j, D) /\ Somewhere(j)'
      <3>1. InRow(k)'
        BY <2>2, <2>4, <2>5 DEF InRow
      <3>2. \A j : InRow(j) => InRow(j)'
        BY <2>3, <2>4, <2>5 DEF InRow
      <3> QED
        BY <1>2, <1>4, <1>21, <1>25, <3>1, <3>2
    <2>11. Accounted'
      BY <1>1, <1>3, <1>15, <1>21, <2>4, <2>8, <2>9, <2>10 DEF Accounted
    <2> QED
      BY <1>16, <1>17, <1>18, <1>19, <1>20, <2>11 DEF InOrder
  <1> QED
    BY <1>26, <1>27

-----------------------------------------------------------------------------
(***************************************************************************)
(* The row of C is written.                                                *)
(***************************************************************************)
LEMMA RowCorrectIs ==
  RowCorrect <=>
    (ph = "written" /\ loads = 1 =>
       /\ Len(crow) = CSize(row)
       /\ \A k \in ColsOf(row) : \E n \in DOMAIN crow : crow[n] = <<k, RowSum(Row, k, 1 .. Flops)>>)
  BY Zenon DEF RowCorrect, RowSum, Row, MapThenSumSet, MapThenFoldSet

LEMMA RowCorrectNext ==
  (RowCorrect <=>
    (ph = "written" /\ loads = 1 =>
       /\ Len(crow) = CSize(row)
       /\ \A k \in ColsOf(row) : \E n \in DOMAIN crow : crow[n] = <<k, RowSum(Row, k, 1 .. Flops)>>))'
  BY RowCorrectIs, PTL

\* A row that has each of its columns once has as many entries as columns.
LEMMA CompleteRow ==
  ASSUME NEW R, IsRow(R), NEW C \in Seq(ColsIn(R) \X Int),
         \A i, j \in DOMAIN C : C[i][1] = C[j][1] => i = j,
         \A k \in ColsIn(R) : \E i \in DOMAIN C : C[i][1] = k
  PROVE  Len(C) = Cardinality(ColsIn(R))
  <1>1. PICK z \in Nat : z = Len(C) /\ DOMAIN C = 1 .. z
    OBVIOUS
  <1>2. PICK I : I = 1 .. z
    OBVIOUS
  <1>3. PICK f : f = [i \in I |-> C[i][1]]
    OBVIOUS
  <1>4. PICK T : T = {f[i] : i \in I}
    OBVIOUS
  <1>5. IsFiniteSet(I) /\ Cardinality(I) = z
    <2>1. 1 \in Int /\ z \in Int
      OBVIOUS
    <2>2. IsFiniteSet(I) /\ Cardinality(I) = IF 1 > z THEN 0 ELSE z - 1 + 1
      BY <1>2, <2>1, FS_Interval
    <2> QED
      BY <2>2
  <1>6. \A i \in I : f[i] = C[i][1]
    BY <1>3
  <1>7. \A i, j \in I : f[i] = f[j] => i = j
    <2> SUFFICES ASSUME NEW i \in I, NEW j \in I, f[i] = f[j] PROVE i = j
      OBVIOUS
    <2>1. C[i][1] = C[j][1] /\ i \in DOMAIN C /\ j \in DOMAIN C
      BY <1>1, <1>2, <1>6
    <2> QED
      BY <2>1
  <1>8. Cardinality(T) = z
    <2>1. IsFiniteSet(I) /\ Cardinality(T) = Cardinality(I)
      <3>1. IsFiniteSet(I)
        BY <1>5
      <3> QED
        BY <1>4, <1>7, <3>1, ImageSize
    <2> QED
      BY <1>5, <2>1
  <1>9. T = ColsIn(R)
    <2>1. \A i \in I : f[i] \in ColsIn(R)
      BY <1>1, <1>2, <1>6
    <2>2. \A k \in ColsIn(R) : \E i \in I : f[i] = k
      BY <1>1, <1>2, <1>6
    <2> QED
      BY <1>4, <2>1, <2>2
  <1> QED
    BY <1>1, <1>8, <1>9

\* What is enough for a written row.
LEMMA Written ==
  ASSUME IInv, loads = 1, ph = "write", UNCHANGED kernel, ph' = "written", NEW R, R = Row,
         NEW C \in Seq(ColsIn(R) \X Int), crow' = C,
         \A i, j \in DOMAIN C : C[i][1] = C[j][1] => i = j,
         \A k \in ColsIn(R) : \E i \in DOMAIN C : C[i] = <<k, Sum(R, k, Done)>>,
         TableType', Keys(2)' = Empty(2), tag = "LP" => Keys(1)' = Empty(1)
  PROVE  InOrder'
  <1>1. /\ Fitting /\ row \in DOMAIN rows /\ IsRow(R) /\ Flops = Len(R) /\ Done = 1 .. Flops
    BY MergeFacts
  <1>2. /\ UNCHANGED <<tag, loads, rows, row>> /\ Row' = R /\ Flops' = Flops
        /\ CSize(row)' = CSize(row) /\ ColsOf(row)' = ColsOf(row)
    BY DEF kernel, Row, Flops, CSize, ColsOf
  <1>3. Fitting'
    <2>1. rows' = rows /\ row' = row /\ tag' = tag /\ row \in DOMAIN rows
      BY <1>1, <1>2
    <2>2. \A r : CSize(r)' = CSize(r)
      BY <2>1 DEF CSize, ColsOf
    <2>3. /\ rows \in Problems /\ row \in Nat \ {0}
          /\ tag = "Spread" => \A r \in DOMAIN rows : CSize(r) < TableSize[1]
          /\ tag # "Spread" => \A r \in DOMAIN rows : CSize(r) <= TableSize[2]
      BY <1>1 DEF Fitting
    <2> QED
      BY <2>1, <2>2, <2>3 DEF Fitting
  <1>4. RowCorrect'
    <2>1. ColsOf(row) = ColsIn(R) /\ CSize(row) = Cardinality(ColsIn(R))
      BY <1>1, TheRow DEF Fitting
    <2>2. Len(C) = Cardinality(ColsIn(R))
      <3>1. \A k \in ColsIn(R) : \E i \in DOMAIN C : C[i][1] = k
        OBVIOUS
      <3> QED
        BY <1>1, <3>1, CompleteRow
    <2>3. \A k : RowSum(R, k, 1 .. Flops) = Sum(R, k, Done)
      BY <1>1, SumIsMapThenSum
    <2>4. \A k \in ColsIn(R) : \E i \in DOMAIN C : C[i] = <<k, RowSum(R, k, 1 .. Flops)>>
      BY <2>3
    <2>5. /\ Len(crow') = CSize(row)'
          /\ \A k \in ColsOf(row)' : \E n \in DOMAIN crow' : crow'[n] = <<k, RowSum(Row', k, 1 .. Flops')>>
      BY <1>2, <2>1, <2>2, <2>4
    <2> QED
      BY <2>5, RowCorrectNext
  <1>5. Clean'
    BY <1>2 DEF Clean
  <1> QED
    BY <1>3, <1>4, <1>5
       DEF InOrder, Tables, LanesKnow, Counted, Listed, Accounted, Working, Inserting

\* The slots of the first table that hold a column, one after the other.
From(full, n) == CHOOSE s \in full : Cardinality({q \in full : q < s}) = n - 1

LEMMA FromFacts ==
  ASSUME NEW full \in SUBSET Nat, IsFiniteSet(full)
  PROVE  /\ Cardinality(full) \in Nat
         /\ \A n \in 1 .. Cardinality(full) : From(full, n) \in full
         /\ \A m, n \in 1 .. Cardinality(full) : From(full, m) = From(full, n) => m = n
         /\ \A s \in full : \E n \in 1 .. Cardinality(full) : From(full, n) = s
  <1>1. PICK N \in Nat : N = Cardinality(full)
    BY CountBelowFacts
  <1>2. /\ \A u \in full : CountBelow(full, u) \in 0 .. N - 1
        /\ \A u, v \in full : CountBelow(full, u) = CountBelow(full, v) => u = v
        /\ \A k \in 0 .. N - 1 : \E u \in full : CountBelow(full, u) = k
    BY <1>1, CountBelowFacts
  <1>3. \A n : From(full, n) = CHOOSE s \in full : CountBelow(full, s) = n - 1
    BY DEF From, CountBelow
  <1>4. \A n \in 1 .. N : From(full, n) \in full /\ CountBelow(full, From(full, n)) = n - 1
    <2> SUFFICES ASSUME NEW n \in 1 .. N PROVE From(full, n) \in full /\ CountBelow(full, From(full, n)) = n - 1
      OBVIOUS
    <2>1. n - 1 \in 0 .. N - 1
      OBVIOUS
    <2>2. \E u \in full : CountBelow(full, u) = n - 1
      BY <1>2, <2>1
    <2> QED
      BY <1>3, <2>2
  <1>5. \A m, n \in 1 .. N : From(full, m) = From(full, n) => m = n
    <2> SUFFICES ASSUME NEW m \in 1 .. N, NEW n \in 1 .. N, From(full, m) = From(full, n) PROVE m = n
      OBVIOUS
    <2>1. m - 1 = n - 1
      BY <1>4
    <2> QED
      BY <2>1
  <1>6. \A s \in full : \E n \in 1 .. N : From(full, n) = s
    <2> SUFFICES ASSUME NEW s \in full PROVE \E n \in 1 .. N : From(full, n) = s
      OBVIOUS
    <2>1. PICK b \in 0 .. N - 1 : b = CountBelow(full, s)
      BY <1>2
    <2>2. b + 1 \in 1 .. N /\ (b + 1) - 1 = b
      OBVIOUS
    <2>3. From(full, b + 1) \in full /\ CountBelow(full, From(full, b + 1)) = b
      BY <1>4, <2>2
    <2>4. From(full, b + 1) = s
      BY <1>2, <2>1, <2>3
    <2> QED
      BY <2>2, <2>4
  <1> QED
    BY <1>1, <1>4, <1>5, <1>6

LEMMA WriteFirstKeeps ==
  ASSUME IInv, loads = 1, WriteFirst
  PROVE  InOrder'
  <1>1. ph = "write" /\ tag # "LP" /\ ph' = "written" /\ UNCHANGED <<kernel, held, table, used, tracked, lane>>
    BY DEF WriteFirst
  <1>2. /\ TableType /\ Clean /\ Chunks /\ row \in DOMAIN rows /\ IsRow(Row) /\ Flops = Len(Row)
        /\ KeysOnce(Row, 1, Keys(1))
        /\ crow \in Seq(ColsIn(Row) \X Int)
        /\ \A k \in ColsIn(Row) : ~ InRow(k) => InTables(k) = Sum(Row, k, Done) /\ Somewhere(k)
        /\ \A i \in DOMAIN crow : /\ crow[i][2] = Sum(Row, crow[i][1], Done)
                                  /\ ~ Somewhere(crow[i][1])
        /\ \A i, j \in DOMAIN crow : crow[i][1] = crow[j][1] => i = j
    BY <1>1, MergeFacts
  <1>3. PICK R, K, W : R = Row /\ K = Keys(1) /\ W = Vals(1)
    OBVIOUS
  <1>4. /\ IsRow(R) /\ KeysOnce(R, 1, K) /\ DOMAIN K = SlotsOf(1)
        /\ W \in [SlotsOf(1) -> Int] /\ Keys(2) = Empty(2)
    <2>1. Keys(2) = Empty(2)
      BY <1>1, <1>2 DEF Clean, Chunks
    <2>2. W \in [SlotsOf(1) -> Int]
      BY <1>2, <1>3 DEF TableType
    <2> QED
      BY <1>2, <1>3, <2>1, <2>2 DEF KeysOnce
  <1>5. PICK full : full = {s \in SlotsOf(1) : K[s] # init_value}
    OBVIOUS
  <1>6. full \in SUBSET Nat /\ IsFiniteSet(full)
    <2>1. 1 \in {1, 2} /\ full \in SUBSET SlotsOf(1) /\ \A s \in full : K[s] # init_value
      BY <1>5
    <2>2. IsFiniteSet(full)
      BY <1>4, <2>1, OccupiedSlots
    <2>3. SlotsOf(1) \subseteq Nat
      BY SizeAssumption DEF SlotsOf
    <2> QED
      BY <2>1, <2>2, <2>3
  <1>7. PICK N \in Nat : N = Cardinality(full)
    BY <1>6, FromFacts
  <1>8. /\ \A n \in 1 .. N : From(full, n) \in full
        /\ \A m, n \in 1 .. N : From(full, m) = From(full, n) => m = n
        /\ \A s \in full : \E n \in 1 .. N : From(full, n) = s
    BY <1>6, <1>7, FromFacts
  <1>9. PICK B : B = [n \in 1 .. N |-> <<K[From(full, n)], W[From(full, n)]>>]
    OBVIOUS
  <1>10. crow' = crow \o B
    BY <1>1, <1>3, <1>5, <1>7, <1>9 DEF WriteFirst, Keys, Vals, From
  <1>11. /\ B \in Seq(ColsIn(R) \X Int) /\ DOMAIN B = 1 .. N
         /\ \A n \in 1 .. N : B[n][1] = K[From(full, n)] /\ B[n][2] = W[From(full, n)]
    <2>1. \A n \in 1 .. N : K[From(full, n)] \in ColsIn(R) /\ W[From(full, n)] \in Int
      BY <1>4, <1>5, <1>8 DEF KeysOnce
    <2> QED
      BY <1>9, <2>1
  <1>12. PICK z \in Nat : z = Len(crow) /\ DOMAIN crow = 1 .. z
    BY <1>2
  <1>13. PICK C : C = crow \o B
    OBVIOUS
  <1>14. /\ C \in Seq(ColsIn(R) \X Int) /\ DOMAIN C = 1 .. z + N
         /\ \A i \in 1 .. z : C[i] = crow[i]
         /\ \A n \in 1 .. N : C[z + n] = B[n]
    <2>1. Len(B) = N
      BY <1>11
    <2>2. PICK S : S = ColsIn(R) \X Int
      OBVIOUS
    <2>3. B \in Seq(S) /\ crow \in Seq(S)
      BY <1>2, <1>3, <1>11, <2>2
    <2>4. C \in Seq(S) /\ Len(C) = z + N
      BY <1>12, <1>13, <2>1, <2>3
    <2>5. DOMAIN C = 1 .. z + N
      BY <2>4
    <2>6. \A i \in 1 .. z : C[i] = crow[i]
      BY <1>12, <1>13, <2>1, <2>3
    <2>7. ASSUME NEW n \in 1 .. N PROVE C[z + n] = B[n]
      <3>1. z + n \in 1 .. z + N /\ z + n > z /\ (z + n) - z = n
        OBVIOUS
      <3> QED
        BY <1>12, <1>13, <2>1, <2>3, <3>1
    <2> QED
      BY <2>2, <2>4, <2>5, <2>6, <2>7
  <1>15. \A i \in 1 .. z + N : i \in 1 .. z \/ \E n \in 1 .. N : i = z + n
    <2> SUFFICES ASSUME NEW i \in 1 .. z + N, i \notin 1 .. z PROVE \E n \in 1 .. N : i = z + n
      OBVIOUS
    <2>1. i - z \in 1 .. N /\ i = z + (i - z)
      OBVIOUS
    <2> QED
      BY <2>1
  <1>16. \A i \in 1 .. z : \A n \in 1 .. N : crow[i][1] # B[n][1]
    <2> SUFFICES ASSUME NEW i \in 1 .. z, NEW n \in 1 .. N, crow[i][1] = B[n][1] PROVE FALSE
      OBVIOUS
    <2>1. ~ Somewhere(crow[i][1])
      BY <1>2, <1>12
    <2>2. From(full, n) \in DOMAIN K /\ K[From(full, n)] = crow[i][1]
      BY <1>4, <1>5, <1>8, <1>11
    <2> QED
      BY <1>3, <2>1, <2>2 DEF Somewhere, Has
  <1>17. \A m, n \in 1 .. N : B[m][1] = B[n][1] => m = n
    <2> SUFFICES ASSUME NEW m \in 1 .. N, NEW n \in 1 .. N, B[m][1] = B[n][1] PROVE m = n
      OBVIOUS
    <2>1. K[From(full, m)] = K[From(full, n)] /\ From(full, m) \in full /\ From(full, n) \in full
      BY <1>8, <1>11
    <2>2. From(full, m) = From(full, n)
      BY <1>4, <1>5, <2>1 DEF KeysOnce
    <2> QED
      BY <1>8, <2>2
  <1>18. \A i, j \in DOMAIN C : C[i][1] = C[j][1] => i = j
    <2> SUFFICES ASSUME NEW i \in 1 .. z + N, NEW j \in 1 .. z + N, C[i][1] = C[j][1] PROVE i = j
      BY <1>14
    <2>1. CASE i \in 1 .. z /\ j \in 1 .. z
      <3>1. C[i] = crow[i] /\ C[j] = crow[j] /\ i \in DOMAIN crow /\ j \in DOMAIN crow
        BY <1>12, <1>14, <2>1
      <3> QED
        BY <1>2, <3>1
    <2>2. CASE i \in 1 .. z /\ \E n \in 1 .. N : j = z + n
      <3>1. PICK n \in 1 .. N : j = z + n
        BY <2>2
      <3>2. C[i] = crow[i] /\ C[j] = B[n]
        BY <1>14, <2>2, <3>1
      <3>3. crow[i][1] # B[n][1]
        BY <1>16, <2>2
      <3> QED
        BY <3>2, <3>3
    <2>3. CASE j \in 1 .. z /\ \E n \in 1 .. N : i = z + n
      <3>1. PICK n \in 1 .. N : i = z + n
        BY <2>3
      <3> QED
        <4>1. C[j] = crow[j] /\ C[i] = B[n]
          BY <1>14, <2>3, <3>1
        <4>2. crow[j][1] # B[n][1]
          BY <1>16, <2>3
        <4> QED
          BY <4>1, <4>2
    <2>4. CASE (\E m \in 1 .. N : i = z + m) /\ (\E n \in 1 .. N : j = z + n)
      <3>1. PICK m \in 1 .. N : i = z + m
        BY <2>4
      <3>2. PICK n \in 1 .. N : j = z + n
        BY <2>4
      <3> QED
        <4>1. C[i] = B[m] /\ C[j] = B[n]
          BY <1>14, <3>1, <3>2
        <4>2. m = n
          BY <1>17, <4>1
        <4> QED
          BY <3>1, <3>2, <4>2
    <2> QED
      BY <1>15, <2>1, <2>2, <2>3, <2>4
  <1>19. \A k \in ColsIn(R) : \E i \in DOMAIN C : C[i] = <<k, Sum(R, k, Done)>>
    <2> SUFFICES ASSUME NEW k \in ColsIn(R) PROVE \E i \in DOMAIN C : C[i] = <<k, Sum(R, k, Done)>>
      OBVIOUS
    <2>1. CASE InRow(k)
      <3>1. PICK i \in 1 .. z : crow[i][1] = k
        BY <1>12, <2>1 DEF InRow
      <3>2. crow[i] \in ColsIn(R) \X Int /\ crow[i][2] = Sum(R, k, Done)
        BY <1>2, <1>3, <1>12, <3>1
      <3>3. crow[i] = <<k, Sum(R, k, Done)>>
        BY <3>1, <3>2
      <3> QED
        BY <1>14, <3>3
    <2>2. CASE ~ InRow(k)
      <3>1. InTables(k) = Sum(R, k, Done) /\ Somewhere(k) /\ k # init_value
        BY <1>2, <1>3, <1>4, <2>2, RowFacts
      <3>2. ~ Has(Keys(2), k) /\ ValueIn(Keys(2), Vals(2), k) = 0
        BY <1>4, <3>1, EmptyTable
      <3>3. PICK s \in SlotsOf(1) : K[s] = k
        BY <1>3, <1>4, <3>1, <3>2 DEF Somewhere, Has
      <3>4. \A q \in DOMAIN K : K[q] = K[s] => q = s
        BY <1>4, <3>1, <3>3 DEF KeysOnce
      <3>5. ValueIn(K, W, k) = W[s] /\ W[s] \in Int
        BY <1>4, <3>3, <3>4, ValueAt
      <3>6. W[s] = Sum(R, k, Done)
        BY <1>3, <3>1, <3>2, <3>5 DEF InTables
      <3>7. PICK n \in 1 .. N : From(full, n) = s
        BY <1>5, <1>8, <3>1, <3>3
      <3>8. B[n] = <<k, Sum(R, k, Done)>>
        BY <1>9, <3>3, <3>6, <3>7
      <3>9. z + n \in 1 .. z + N
        OBVIOUS
      <3> QED
        BY <1>14, <3>8, <3>9
    <2> QED
      BY <2>1, <2>2
  <1>20. TableType' /\ Keys(2)' = Empty(2)
    <2>1. \A t : Keys(t)' = Keys(t) /\ Vals(t)' = Vals(t)
      BY <1>1 DEF Keys, Vals
    <2> QED
      BY <1>1, <1>2, <1>4, <2>1 DEF TableType
  <1> QED
    BY <1>1, <1>3, <1>10, <1>13, <1>14, <1>18, <1>19, <1>20, Written

LEMMA WriteTrackedKeeps ==
  ASSUME IInv, loads = 1, WriteTracked
  PROVE  InOrder'
  <1>1. ph = "write" /\ tag = "LP" /\ ph' = "written" /\ UNCHANGED <<kernel, held, used, tracked, lane>>
    BY DEF WriteTracked
  <1>2. /\ TableType /\ Clean /\ row \in DOMAIN rows /\ IsRow(Row) /\ Flops = Len(Row)
        /\ KeysOnce(Row, 2, Keys(2)) /\ crow = <<>>
        /\ \A k \in ColsIn(Row) : ~ InRow(k) => InTables(k) = Sum(Row, k, Done) /\ Somewhere(k)
    BY <1>1, MergeFacts
  <1>3. PICK R, K, W : R = Row /\ K = Keys(2) /\ W = Vals(2)
    OBVIOUS
  <1>4. /\ IsRow(R) /\ KeysOnce(R, 2, K) /\ DOMAIN K = SlotsOf(2)
        /\ W \in [SlotsOf(2) -> Int] /\ Keys(1) = Empty(1)
    BY <1>1, <1>2, <1>3 DEF KeysOnce, TableType, Clean
  <1>5. /\ tracked \in Seq(SlotsOf(2))
        /\ \A i, j \in DOMAIN tracked : tracked[i] = tracked[j] => i = j
        /\ \A s \in SlotsOf(2) : K[s] # init_value <=> \E i \in DOMAIN tracked : tracked[i] = s
    <2>1. Listed
      BY DEF IInv, InOrder
    <2> QED
      BY <1>1, <1>3, <2>1 DEF Listed
  <1>6. PICK z \in Nat : DOMAIN tracked = 1 .. z /\ \A i \in 1 .. z : tracked[i] \in SlotsOf(2)
    BY <1>5
  <1>7. PICK C : C = [n \in 1 .. z |-> <<K[tracked[n]], W[tracked[n]]>>]
    OBVIOUS
  <1>8. crow' = C
    BY <1>1, <1>3, <1>6, <1>7 DEF WriteTracked, Keys, Vals
  <1>9. \A n \in 1 .. z : K[tracked[n]] \in ColsIn(R) /\ W[tracked[n]] \in Int /\ K[tracked[n]] # init_value
    <2> SUFFICES ASSUME NEW n \in 1 .. z
                 PROVE K[tracked[n]] \in ColsIn(R) /\ W[tracked[n]] \in Int /\ K[tracked[n]] # init_value
      OBVIOUS
    <2>1. PICK s \in SlotsOf(2) : s = tracked[n]
      BY <1>6
    <2>2. K[s] # init_value
      <3>1. n \in DOMAIN tracked /\ tracked[n] = s
        BY <1>6, <2>1
      <3> QED
        BY <1>5, <3>1
    <2>3. K[s] \in ColsIn(R) /\ W[s] \in Int
      BY <1>4, <2>2 DEF KeysOnce
    <2> QED
      BY <2>1, <2>2, <2>3
  <1>10. C \in Seq(ColsIn(R) \X Int) /\ DOMAIN C = 1 .. z /\ \A n \in 1 .. z : C[n][1] = K[tracked[n]]
    BY <1>7, <1>9
  <1>11. \A i, j \in DOMAIN C : C[i][1] = C[j][1] => i = j
    <2> SUFFICES ASSUME NEW i \in 1 .. z, NEW j \in 1 .. z, C[i][1] = C[j][1] PROVE i = j
      BY <1>10
    <2>1. tracked[i] = tracked[j]
      BY <1>4, <1>6, <1>9, <1>10 DEF KeysOnce
    <2> QED
      BY <1>5, <1>6, <2>1
  <1>12. \A k \in ColsIn(R) : \E i \in DOMAIN C : C[i] = <<k, Sum(R, k, Done)>>
    <2> SUFFICES ASSUME NEW k \in ColsIn(R) PROVE \E i \in DOMAIN C : C[i] = <<k, Sum(R, k, Done)>>
      OBVIOUS
    <2>1. ~ InRow(k)
      BY <1>2 DEF InRow
    <2>2. InTables(k) = Sum(R, k, Done) /\ Somewhere(k) /\ k # init_value
      BY <1>2, <1>3, <1>4, <2>1, RowFacts
    <2>3. ~ Has(Keys(1), k) /\ ValueIn(Keys(1), Vals(1), k) = 0
      BY <1>4, <2>2, EmptyTable
    <2>4. PICK s \in SlotsOf(2) : K[s] = k
      BY <1>3, <1>4, <2>2, <2>3 DEF Somewhere, Has
    <2>5. \A q \in DOMAIN K : K[q] = K[s] => q = s
      BY <1>4, <2>2, <2>4 DEF KeysOnce
    <2>6. ValueIn(K, W, k) = W[s] /\ W[s] \in Int
      BY <1>4, <2>4, <2>5, ValueAt
    <2>7. W[s] = Sum(R, k, Done)
      BY <1>3, <2>2, <2>3, <2>6 DEF InTables
    <2>8. PICK n \in 1 .. z : tracked[n] = s
      BY <1>5, <1>6, <2>2, <2>4
    <2>9. C[n] = <<k, Sum(R, k, Done)>>
      BY <1>7, <2>4, <2>7, <2>8
    <2> QED
      BY <1>10, <2>9
  <1>13. /\ table' = [t \in {1, 2} |-> [keys |-> Keys(t)', vals |-> Vals(t)']]
         /\ Keys(1)' = Keys(1) /\ Vals(1)' = Vals(1) /\ Keys(2)' = Empty(2) /\ Vals(2)' = W
    <2>1. PICK tb : tb = table
      OBVIOUS
    <2>2. TwoTables(tb) /\ tb[2].keys = K /\ tb[2].vals = W
      BY <1>2, <1>3, <2>1 DEF TableType, Keys, Vals, TwoTables
    <2>3. PICK a, E : a = tb[1] /\ E = Empty(2)
      OBVIOUS
    <2>4. table' = [tb EXCEPT ![2].keys = E]
      <3>1. table' = [tb EXCEPT ![2].keys = [s \in SlotsOf(2) |->
                        IF \E n \in DOMAIN tracked : tracked[n] = s THEN init_value ELSE @[s]]]
        BY <1>1, <2>1 DEF WriteTracked
      <3>2. [s \in SlotsOf(2) |-> IF \E n \in DOMAIN tracked : tracked[n] = s THEN init_value ELSE K[s]] = E
        <4>1. \A s \in SlotsOf(2) : (IF \E n \in DOMAIN tracked : tracked[n] = s THEN init_value ELSE K[s]) = init_value
          BY <1>5
        <4> QED
          BY <2>3, <4>1 DEF Empty
      <3> QED
        BY <2>2, <3>1, <3>2
    <2>5. DOMAIN tb = {1, 2} /\ tb = [t \in {1, 2} |-> tb[t]] /\ tb[2] = [keys |-> K, vals |-> W]
          /\ a = [keys |-> a.keys, vals |-> a.vals]
      BY <2>2, <2>3 DEF TwoTables
    <2>6. PICK c : c = [keys |-> E, vals |-> W]
      OBVIOUS
    <2>7. table' = [tb EXCEPT ![2] = c]
      <3>1. [tb[2] EXCEPT !.keys = E] = c
        BY <2>5, <2>6
      <3> QED
        BY <2>4, <2>5, <3>1
    <2>8. table' = [t \in {1, 2} |-> IF t = 2 THEN c ELSE a]
      BY <2>3, <2>5, <2>7
    <2>9. table'[1] = a /\ table'[2] = c /\ table' = [t \in {1, 2} |-> table'[t]]
      BY <2>8
    <2>10. c.keys = E /\ c.vals = W
      BY <2>6
    <2>11. \A t \in {1, 2} : table'[t] = [keys |-> table'[t].keys, vals |-> table'[t].vals]
      BY <2>5, <2>6, <2>9, <2>10
    <2> QED
      BY <2>1, <2>3, <2>9, <2>10, <2>11 DEF Keys, Vals
  <1>14. TableType'
    <2>1. \A t \in {1, 2} : /\ Keys(t) \in [SlotsOf(t) -> Cols \union {init_value}]
                            /\ Vals(t) \in [SlotsOf(t) -> Int]
      BY <1>2 DEF TableType
    <2>2. Empty(2) \in [SlotsOf(2) -> Cols \union {init_value}]
      BY DEF Empty
    <2> QED
      BY <1>4, <1>13, <2>1, <2>2 DEF TableType
  <1> QED
    <2>1. /\ tag = "LP" /\ ph = "write" /\ UNCHANGED kernel /\ ph' = "written" /\ R = Row /\ crow' = C
          /\ TableType' /\ Keys(2)' = Empty(2) /\ Keys(1)' = Empty(1)
      BY <1>1, <1>3, <1>4, <1>8, <1>13, <1>14
    <2>2. C \in Seq(ColsIn(R) \X Int)
      BY <1>10
    <2>3. IInv /\ loads = 1
      OBVIOUS
    <2> QED
      BY <1>11, <1>12, <2>1, <2>2, <2>3, Written

\* A step that changes nothing.
LEMMA StutterKeeps ==
  ASSUME IInv, loads = 1, UNCHANGED vars
  PROVE  InOrder'
  <1>1. InOrder
    BY DEF IInv
  <1>2. /\ UNCHANGED <<tag, loads, rows, row, ph, held, table, used, tracked, crow, lane, kernel>>
    BY DEF vars, kernel
  <1>3. CASE Inserting
    <2>1. 0 \in Lanes
      BY Strides
    <2>2. /\ lane = [l \in Lanes |-> lane[l]] /\ used \in Nat /\ used >= used
      BY <1>1, <1>3 DEF InOrder, LanesKnow, Counted
    <2>3. PICK q : q = lane[0]
      OBVIOUS
    <2>4. lane' = [lane EXCEPT ![0] = q]
      BY <1>2, <2>2, <2>3
    <2>5. \A t : Keys(t)' = Keys(t)
      BY <1>2 DEF Keys
    <2>6. LaneType(0)' /\ LaneKnows(0)'
      BY <1>2, <1>3, <2>1, <2>2, <2>5, StillKnows
    <2>7. DoneBy(0)' = DoneBy(0)
      BY <1>2 DEF DoneBy, Mine, Flops
    <2>8. Owes(0)' => Owes(0) /\ Slot(0)' = Slot(0)
      BY <1>2 DEF Owes, Slot, Key, Hash
    <2>9. Counted'
      BY <1>2, <1>3, <2>1, <2>5, <2>8, StillCounted
    <2> QED
      BY <1>2, <1>3, <2>1, <2>2, <2>4, <2>6, <2>7, <2>9, QuietStep
  <1>4. CASE ~ Inserting
    <2>1. /\ Row' = Row /\ Flops' = Flops
          /\ \A t : Keys(t)' = Keys(t) /\ Vals(t)' = Vals(t)
          /\ Working' = Working /\ ~ Inserting'
      BY <1>2, <1>4 DEF Row, Flops, Keys, Vals, Working, Inserting
    <2>2. Fitting'
      <3>1. \A r : CSize(r)' = CSize(r)
        BY <1>2 DEF CSize, ColsOf
      <3> QED
        BY <1>1, <1>2, <3>1 DEF InOrder, Fitting
    <2>3. TableType' /\ Clean'
      BY <1>1, <1>2, <2>1 DEF InOrder, TableType, Clean
    <2>4. Tables' /\ LanesKnow' /\ Counted'
      BY <1>1, <1>2, <2>1 DEF InOrder, Tables, LanesKnow, Counted
    <2>5. Listed'
      <3>1. Listed
        BY <1>1 DEF InOrder
      <3> QED
        BY <1>2, <2>1, <3>1 DEF Listed, LaneType
    <2>6. PICK D : D = Done /\ D = Done'
      <3>1. Done' = Done
        BY <1>2, <1>4, <2>1 DEF Done, Inserting
      <3> QED
        BY <3>1
    <2>7. Accounted'
      <3>1. \A k : InTables(k)' = InTables(k) /\ (Somewhere(k)' <=> Somewhere(k)) /\ (InRow(k)' <=> InRow(k))
        BY <1>2, <2>1 DEF InTables, Somewhere, InRow
      <3>2. Accounted
        BY <1>1 DEF InOrder
      <3> QED
        BY <1>2, <2>1, <2>6, <3>1, <3>2 DEF Accounted
    <2>8. RowCorrect'
      <3>1. CSize(row)' = CSize(row) /\ ColsOf(row)' = ColsOf(row)
        BY <1>2 DEF CSize, ColsOf
      <3>2. ph = "written" =>
              /\ Len(crow) = CSize(row)
              /\ \A k \in ColsOf(row) : \E n \in DOMAIN crow : crow[n] = <<k, RowSum(Row, k, 1 .. Flops)>>
        <4>1. RowCorrect
          BY <1>1 DEF InOrder
        <4> QED
          BY <4>1, RowCorrectIs
      <3> QED
        BY <1>2, <2>1, <3>1, <3>2, RowCorrectNext
    <2> QED
      BY <2>2, <2>3, <2>4, <2>5, <2>7, <2>8 DEF InOrder
  <1> QED
    BY <1>3, <1>4

LEMMA IInvNext ==
  ASSUME IInv, [Next]_vars
  PROVE  IInv'
  <1>1. Chunks'
    BY ChunksNext DEF IInv
  <1>2. loads' = loads
    BY Zenon DEF Next, vars, kernel, SkipRow, StartRow, Lane, Take, Probe, SecondLook, Exchange, AtomicAdd, Count, Look,
           InsertProbing, InsertDone, MergeSlot, ReleaseChunk, WriteFirst, WriteTracked, NextRow, Terminated
  <1>3. ASSUME loads = 1 PROVE InOrder'
    <2>1. InOrder
      BY <1>3 DEF IInv
    <2>2. CASE UNCHANGED vars
      BY <1>3, <2>2, StutterKeeps
    <2>3. CASE SkipRow
      BY <2>1, <2>3, IdleInOrder DEF SkipRow
    <2>4. CASE StartRow
      BY <1>3, <2>4, StartRowInOrder
    <2>5. CASE \E l \in Lanes : Lane(l)
      BY <1>3, <2>5, LaneKeeps
    <2>6. CASE InsertProbing
      BY <1>3, <2>6, InsertProbingKeeps
    <2>7. CASE InsertDone
      BY <1>3, <2>7, InsertDoneKeeps
    <2>8. CASE \E s \in SlotsOf(2) : MergeSlot(s)
      BY <1>3, <2>8, MergeSlotKeeps
    <2>9. CASE ReleaseChunk
      BY <1>3, <2>9, ReleaseChunkKeeps
    <2>10. CASE WriteFirst
      BY <1>3, <2>10, WriteFirstKeeps
    <2>11. CASE WriteTracked
      BY <1>3, <2>11, WriteTrackedKeeps
    <2>12. CASE NextRow
      BY <2>1, <2>12, IdleInOrder DEF NextRow
    <2>13. CASE Terminated
      BY <1>3, <2>13, StutterKeeps DEF Terminated
    <2> QED
      BY <2>2, <2>3, <2>4, <2>5, <2>6, <2>7, <2>8, <2>9, <2>10, <2>11, <2>12, <2>13 DEF Next
  <1> QED
    BY <1>1, <1>2, <1>3 DEF IInv

LEMMA IInvInit == Init => IInv
  BY ChunksInit, InOrderInit DEF IInv

\* The invariant holds in every state: Chunks in every build, InOrder in the one that
\* loads keys[trial] once per trial (kkmem.hpp:551-837).
THEOREM Invariance == Spec => []IInv
  BY IInvInit, IInvNext, PTL DEF Spec

LEMMA RowCorrectFromIInv == IInv => RowCorrect
  <1>1. CASE loads = 1
    BY <1>1 DEF IInv, InOrder
  <1>2. CASE loads # 1
    BY <1>2, RowCorrectIs
  <1> QED
    BY <1>1, <1>2

\* Whatever the interleaving of the lanes, the sizes of the tables and the cut off: a
\* written row of C has each of its columns once, with the sum of its products
\* (kkmem.hpp:680-830), in a build that loads keys[trial] once per trial.
THEOREM RowsAreCorrect == Spec => []RowCorrect
  BY Invariance, RowCorrectFromIInv, PTL

-----------------------------------------------------------------------------
(***************************************************************************)
(* The refinement: the start of a row takes the chunk when it needs one,   *)
(* its release or the end of the host's rows returns it.  In between all   *)
(* changes are the team's own work.                                        *)
(***************************************************************************)
LEMMA InitLends == Init => Lending!Init
  <1> SUFFICES ASSUME Init PROVE Lending!Init
    OBVIOUS
  <1>1. held = FALSE /\ table[2].keys = Empty(2)
    BY DEF Init
  <1>2. lentTo = [u \in {1} |-> 0] /\ soiledChunks = {}
    BY <1>1 DEF lentTo, soiledChunks
  <1> QED
    BY <1>2 DEF Lending!Init

LEMMA NextLends ==
  ASSUME IInv, IInv', [Next]_vars
  PROVE  Lending!Next \/ UNCHANGED <<lentTo, soiledChunks>>
  <1>1. Chunks /\ Chunks' /\ loads' = loads /\ held \in BOOLEAN /\ held' \in BOOLEAN
    <2>1. loads' = loads
      BY Zenon DEF Next, vars, kernel, SkipRow, StartRow, Lane, Take, Probe, SecondLook, Exchange, AtomicAdd, Count, Look,
             InsertProbing, InsertDone, MergeSlot, ReleaseChunk, WriteFirst, WriteTracked, NextRow, Terminated
    <2> QED
      BY <2>1 DEF IInv, Chunks
  <1>2. /\ soiledChunks \in {{}, {1}} /\ soiledChunks' \in {{}, {1}}
        /\ loads = 1 /\ Keys(2) = Empty(2) => soiledChunks = {}
        /\ loads = 1 /\ Keys(2)' = Empty(2) => soiledChunks' = {}
        /\ loads # 1 => soiledChunks = {} /\ soiledChunks' = {}
    BY <1>1 DEF soiledChunks, Keys
  <1>3. /\ ~ held => lentTo = [u \in {1} |-> 0]
        /\ held => lentTo = [u \in {1} |-> 1]
        /\ ~ held' => lentTo' = [u \in {1} |-> 0]
        /\ held' => lentTo' = [u \in {1} |-> 1]
    BY DEF lentTo
  <1>4. loads = 1 => InOrder /\ InOrder' /\ Clean /\ Clean' /\ TableType
    BY <1>1 DEF IInv, InOrder
  <1>5. ~ held => soiledChunks = {}
    BY <1>2, <1>4 DEF Clean
  <1>6. ~ held' => soiledChunks' = {}
    BY <1>2, <1>4 DEF Clean
  <1>7. CASE ~ held /\ ~ held'
    BY <1>3, <1>5, <1>6, <1>7
  <1>8. CASE held /\ held'
    <2>1. lentTo[1] = 1 /\ UNCHANGED lentTo
      BY <1>3, <1>8
    <2>2. soiledChunks' \in {soiledChunks \union {1}, soiledChunks \ {1}}
      BY <1>2
    <2>3. Lending!Work(1)
      BY <2>1, <2>2 DEF Lending!Work
    <2> QED
      BY <2>3 DEF Lending!Next
  <1>9. CASE ~ held /\ held'
    <2>1. StartRow
      BY <1>9, Zenon DEF Next, vars, kernel, SkipRow, StartRow, Lane, Take, Probe, SecondLook, Exchange, AtomicAdd, Count, Look,
             InsertProbing, InsertDone, MergeSlot, ReleaseChunk, WriteFirst, WriteTracked, NextRow, Terminated
    <2>2. soiledChunks' = {}
      <3>1. CASE loads = 1
        <4>1. TableType /\ Clean /\ ph = "row"
          BY <1>4, <2>1, <3>1 DEF StartRow
        <4>2. Keys(2)' = Empty(2)
          BY <2>1, <4>1, StartRowTables
        <4> QED
          BY <1>2, <3>1, <4>2
      <3>2. CASE loads # 1
        BY <1>2, <3>2
      <3> QED
        BY <3>1, <3>2
    <2>3. lentTo[1] = 0 /\ lentTo' = [lentTo EXCEPT ![1] = 1]
      BY <1>3, <1>9
    <2>4. 1 \in {1} \ soiledChunks /\ UNCHANGED soiledChunks /\ \A u \in {1} : lentTo[u] # 1
      BY <1>5, <1>9, <2>2, <2>3
    <2>5. Lending!Take(1)
      BY <2>3, <2>4 DEF Lending!Take
    <2> QED
      BY <2>5 DEF Lending!Next
  <1>10. CASE held /\ ~ held'
    <2>1. ReleaseChunk \/ NextRow \/ StartRow
      BY <1>10, Zenon DEF Next, vars, kernel, SkipRow, StartRow, Lane, Take, Probe, SecondLook, Exchange, AtomicAdd, Count, Look,
             InsertProbing, InsertDone, MergeSlot, ReleaseChunk, WriteFirst, WriteTracked, NextRow, Terminated
    <2>2. ~ StartRow
      BY <1>1, <1>10 DEF StartRow, Chunks, NeedsChunk
    <2>3. table' = table
      BY <2>1, <2>2 DEF ReleaseChunk, NextRow
    <2>4. soiledChunks = {}
      BY <1>1, <1>6, <1>10, <2>3 DEF soiledChunks
    <2>5. lentTo[1] = 1 /\ lentTo' = [lentTo EXCEPT ![1] = 0] /\ UNCHANGED soiledChunks
      BY <1>3, <1>6, <1>10, <2>4
    <2>6. Lending!Return(1)
      BY <2>4, <2>5 DEF Lending!Return
    <2> QED
      BY <2>6 DEF Lending!Next
  <1> QED
    BY <1>1, <1>7, <1>8, <1>9, <1>10

\* The team uses the second table only while it has a chunk, and the chunk goes back
\* with all its keys at -1 (kkmem.hpp:589-608, 780-823).
THEOREM ChunksGoBackClean == Spec => ReturnsCleanChunk
  <1>1. IInv /\ IInv' /\ [Next]_vars => [Lending!Next]_<<lentTo, soiledChunks>>
    BY NextLends
  <1> QED
    BY <1>1, InitLends, Invariance, PTL DEF Spec, ReturnsCleanChunk, Lending!Spec
=============================================================================

------------------------ MODULE SpgemmNumeric_proofs ------------------------
(***************************************************************************)
(* Proofs about the numeric kernel with hash maps, for all rows, values,   *)
(* sizes of the maps and ways in which the lanes advance: every row of C   *)
(* is exact, a lane that looks for a key that is in the map finds it, and  *)
(* the chunk goes back clean.                                              *)
(*                                                                         *)
(* The first part is about the fields of the two maps and the lanes, one   *)
(* step of a lane at a time; the second gives the inductive invariant of   *)
(* the thread and shows that every step keeps it.                          *)
(***************************************************************************)
EXTENDS SpgemmNumeric, FiniteSetTheorems, WellFoundedInduction, TLAPS

\* A set of numbers that is not empty has a least, and one up to n a greatest.
LEMMA LeastOf ==
  ASSUME NEW S \in SUBSET Nat, S # {}
  PROVE  \E b \in S : \A c \in S : b <= c
  <1> DEFINE R == OpToRel(<, Nat)
  <1>1. \E b \in S : \A c \in S : ~ (<<c, b>> \in R)
    <2>1. IsWellFoundedOn(R, Nat)
      BY NatLessThanWellFounded, Zenon
    <2> HIDE DEF R
    <2> QED
      BY <2>1, WFMin
  <1>2. \A b, c \in Nat : <<c, b>> \in R <=> c < b
    BY DEF OpToRel
  <1> HIDE DEF R
  <1>3. PICK b \in S : \A c \in S : ~ (<<c, b>> \in R)
    BY <1>1
  <1>4. \A c \in S : b \in Nat /\ c \in Nat /\ ~ (c < b)
    BY <1>2, <1>3
  <1> QED
    BY <1>4

\* A function that is injective on a set gives as many values as the set has members.
LEMMA ImageSize ==
  ASSUME NEW S, IsFiniteSet(S), NEW f, \A x, y \in S : f[x] = f[y] => x = y
  PROVE  IsFiniteSet({f[x] : x \in S}) /\ Cardinality({f[x] : x \in S}) = Cardinality(S)
  <1> DEFINE T == {f[x] : x \in S}
             g == [x \in S |-> f[x]]
  <1>1. g \in Surjection(S, T) /\ g \in Injection(S, T)
    BY DEF Surjection, Injection, IsInjective
  <1> HIDE DEF T, g
  <1>2. IsFiniteSet(T) /\ Cardinality(T) = Cardinality(S)
    BY <1>1, FS_Surjection
  <1> QED
    BY <1>2 DEF T

(***************************************************************************)
(* Sums over finite sets, as the community modules define them: a member   *)
(* is chosen, its value is added to the sum of the others.                 *)
(***************************************************************************)
Chosen(s) == CHOOSE x \in s : TRUE

Adds(g, F, S) == g = [s \in SUBSET S |-> IF s = {} THEN 0 ELSE F[Chosen(s)] + g[s \ {Chosen(s)}]]

\* The rule has at most one solution: solutions on two sets agree where both are
\* defined, when the values they add up do.
LEMMA AddsAgree ==
  ASSUME NEW S, NEW T, NEW F, NEW G, NEW g, NEW h, Adds(g, F, S), Adds(h, G, T),
         NEW s, IsFiniteSet(s), s \subseteq S, s \subseteq T, \A x \in s : F[x] = G[x]
  PROVE  g[s] = h[s]
  <1> DEFINE Bad == {r \in SUBSET s : g[r] # h[r]}
             Sizes == {Cardinality(r) : r \in Bad}
  <1>1. SUFFICES ASSUME g[s] # h[s] PROVE FALSE
    OBVIOUS
  <1>2. \A r \in SUBSET s : IsFiniteSet(r) /\ Cardinality(r) \in Nat
    BY FS_Subset, FS_CardinalityType
  <1>3. Sizes \in SUBSET Nat /\ Sizes # {}
    BY <1>1, <1>2
  <1>4. \E b \in Sizes : \A c \in Sizes : b <= c
    <2> HIDE DEF Sizes
    <2> QED
      BY <1>3, LeastOf
  <1>5. PICK r \in Bad : \A q \in Bad : Cardinality(r) <= Cardinality(q)
    BY <1>4
  <1>6. r \in SUBSET s /\ g[r] # h[r]
    OBVIOUS
  <1>7. r # {}
    BY <1>6 DEF Adds
  <1>8. PICK x \in r : x = Chosen(r)
    BY <1>7 DEF Chosen
  <1>9. g[r] = F[x] + g[r \ {x}] /\ h[r] = G[x] + h[r \ {x}] /\ F[x] = G[x]
    BY <1>6, <1>7, <1>8 DEF Adds
  <1>10. r \ {x} \in SUBSET s /\ Cardinality(r \ {x}) = Cardinality(r) - 1 /\ Cardinality(r) \in Nat
    BY <1>2, <1>6, FS_RemoveElement
  <1>11. r \ {x} \notin Bad
    <2> HIDE DEF Bad
    <2> QED
      BY <1>5, <1>10
  <1> QED
    BY <1>6, <1>9, <1>10, <1>11

\* It has a solution: on the sets of one member more, given those of the smaller sets.
LEMMA AddsExists ==
  ASSUME NEW S, IsFiniteSet(S), NEW F
  PROVE  \E g : Adds(g, F, S)
  <1> DEFINE Bad == {r \in SUBSET S : ~ \E g : Adds(g, F, r)}
             Sizes == {Cardinality(r) : r \in Bad}
  <1>1. SUFFICES ASSUME ~ \E g : Adds(g, F, S) PROVE FALSE
    OBVIOUS
  <1>2. \A r \in SUBSET S : IsFiniteSet(r) /\ Cardinality(r) \in Nat
    BY FS_Subset, FS_CardinalityType
  <1>3. Sizes \in SUBSET Nat /\ Sizes # {}
    BY <1>1, <1>2
  <1>4. \E b \in Sizes : \A c \in Sizes : b <= c
    <2> HIDE DEF Sizes
    <2> QED
      BY <1>3, LeastOf
  <1>5. PICK r \in Bad : \A q \in Bad : Cardinality(r) <= Cardinality(q)
    BY <1>4
  <1>6. r \in SUBSET S /\ ~ \E g : Adds(g, F, r)
    OBVIOUS
  <1>7. \A q \in SUBSET r : q # r => \E g : Adds(g, F, q)
    <2> SUFFICES ASSUME NEW q \in SUBSET r, q # r PROVE \E g : Adds(g, F, q)
      OBVIOUS
    <2>1. Cardinality(q) < Cardinality(r)
      BY <1>2, <1>6, FS_Subset
    <2>2. q \notin Bad
      <3> HIDE DEF Bad
      <3> QED
        BY <1>2, <1>5, <1>6, <2>1
    <2> QED
      BY <1>6, <2>2
  <1> DEFINE sol(q) == CHOOSE g : Adds(g, F, q)
             val == [q \in SUBSET r |-> sol(q)[q]]
             g1 == [q \in SUBSET r |-> IF q = {} THEN 0
                                       ELSE F[Chosen(q)] + val[q \ {Chosen(q)}]]
  <1>8. \A q \in SUBSET r : q # r => Adds(sol(q), F, q)
    BY <1>7
  <1>9. ASSUME NEW q \in SUBSET r, q # r PROVE val[q] = g1[q]
    <2>1. PICK h : h = sol(q) /\ Adds(h, F, q)
      BY <1>8, <1>9
    <2>2. val[q] = h[q]
      BY <2>1
    <2>3. CASE q = {}
      BY <2>1, <2>2, <2>3 DEF Adds
    <2>4. CASE q # {}
      <3>1. PICK x \in q : x = Chosen(q)
        BY <2>4 DEF Chosen
      <3>2. PICK p \in SUBSET q : p = q \ {x}
        OBVIOUS
      <3>3. p \in SUBSET r /\ p # r
        BY <3>1, <3>2
      <3>4. PICK f : f = sol(p) /\ Adds(f, F, p)
        BY <1>8, <3>3
      <3>5. f[p] = h[p]
        <4>1. IsFiniteSet(p)
          BY <1>2, <1>6, <3>3
        <4> QED
          BY <2>1, <3>4, <4>1, AddsAgree
      <3>6. h[q] = F[x] + h[p]
        BY <2>1, <2>4, <3>1, <3>2 DEF Adds
      <3>7. g1[q] = F[x] + val[p] /\ val[p] = f[p]
        BY <2>4, <3>1, <3>2, <3>3, <3>4
      <3> QED
        BY <2>2, <3>5, <3>6, <3>7
    <2> QED
      BY <2>3, <2>4
  <1>10. Adds(g1, F, r)
    <2>1. \A q \in SUBSET r : q # {} => /\ q \ {Chosen(q)} \in SUBSET r
                                        /\ q \ {Chosen(q)} # r
      BY DEF Chosen
    <2>2. \A q \in SUBSET r : q # {} => val[q \ {Chosen(q)}] = g1[q \ {Chosen(q)}]
      <3> HIDE DEF val, g1
      <3> QED
        BY <1>9, <2>1
    <2>3. g1 = [q \in SUBSET r |-> IF q = {} THEN 0 ELSE F[Chosen(q)] + g1[q \ {Chosen(q)}]]
      <3>1. PICK v : v = val
        OBVIOUS
      <3>2. PICK g : g = g1
        OBVIOUS
      <3>3. g = [q \in SUBSET r |-> IF q = {} THEN 0 ELSE F[Chosen(q)] + v[q \ {Chosen(q)}]]
        BY <3>1, <3>2
      <3>4. \A q \in SUBSET r : q # {} => v[q \ {Chosen(q)}] = g[q \ {Chosen(q)}]
        BY <2>2, <3>1, <3>2
      <3>5. g = [q \in SUBSET r |-> IF q = {} THEN 0 ELSE F[Chosen(q)] + g[q \ {Chosen(q)}]]
        BY <3>3, <3>4
      <3> HIDE DEF g1
      <3> QED
        BY <3>2, <3>5
    <2> HIDE DEF g1
    <2> QED
      BY <2>3 DEF Adds
  <1> HIDE DEF g1
  <1> QED
    BY <1>6, <1>10

\* The sum of F over S.
Total(F, S) == (CHOOSE g : Adds(g, F, S))[S]

LEMMA TotalSolves ==
  ASSUME NEW S, IsFiniteSet(S), NEW F, NEW T, IsFiniteSet(T), S \subseteq T,
         NEW G, \A x \in S : F[x] = G[x], NEW g, Adds(g, G, T)
  PROVE  Total(F, S) = g[S]
  <1>1. PICK h : h = (CHOOSE f : Adds(f, F, S))
    OBVIOUS
  <1>2. Adds(h, F, S)
    BY <1>1, AddsExists
  <1>3. h[S] = g[S]
    BY <1>2, AddsAgree
  <1> QED
    BY <1>1, <1>3 DEF Total

LEMMA TotalEmpty ==
  ASSUME NEW F
  PROVE  Total(F, {}) = 0
  <1>1. IsFiniteSet({})
    BY FS_EmptySet
  <1>2. PICK g : Adds(g, F, {})
    BY <1>1, AddsExists
  <1>3. Total(F, {}) = g[{}]
    BY <1>1, <1>2, TotalSolves
  <1> QED
    BY <1>2, <1>3 DEF Adds

\* Any member may be the one that is added last.
LEMMA TotalInsert ==
  ASSUME NEW S, IsFiniteSet(S), NEW F, \A x \in S : F[x] \in Int, NEW a \in S
  PROVE  /\ Total(F, S) \in Int /\ Total(F, S \ {a}) \in Int
         /\ Total(F, S) = F[a] + Total(F, S \ {a})
  <1>1. PICK g : Adds(g, F, S)
    BY AddsExists
  <1>2. \A r \in SUBSET S : IsFiniteSet(r) /\ Cardinality(r) \in Nat
    BY FS_Subset, FS_CardinalityType
  <1>3. \A r \in SUBSET S : Total(F, r) = g[r]
    BY <1>1, <1>2, TotalSolves
  <1>4. \A r \in SUBSET S : r # {} => /\ Chosen(r) \in r
                                      /\ g[r] = F[Chosen(r)] + g[r \ {Chosen(r)}]
    BY <1>1 DEF Adds, Chosen
  <1>5. g[{}] = 0
    BY <1>1 DEF Adds
  <1> DEFINE Good(r) == g[r] \in Int /\ \A x \in r : g[r] = F[x] + g[r \ {x}]
             Bad == {r \in SUBSET S : ~ Good(r)}
             Sizes == {Cardinality(r) : r \in Bad}
  <1>6. \A r \in SUBSET S : Good(r)
    <2>1. SUFFICES ASSUME NEW q \in SUBSET S, ~ Good(q) PROVE FALSE
      OBVIOUS
    <2>2. Sizes \in SUBSET Nat /\ Sizes # {}
      <3> HIDE DEF Good
      <3> QED
        BY <1>2, <2>1
    <2>3. \E b \in Sizes : \A c \in Sizes : b <= c
      <3> HIDE DEF Sizes
      <3> QED
        BY <2>2, LeastOf
    <2>4. PICK r \in Bad : \A p \in Bad : Cardinality(r) <= Cardinality(p)
      <3> HIDE DEF Bad
      <3> QED
        BY <2>3
    <2>5. r \in SUBSET S /\ ~ Good(r)
      <3> HIDE DEF Good
      <3> QED
        OBVIOUS
    <2>6. \A x \in r : Good(r \ {x})
      <3> SUFFICES ASSUME NEW x \in r PROVE Good(r \ {x})
        OBVIOUS
      <3>1. r \ {x} \in SUBSET S /\ Cardinality(r \ {x}) = Cardinality(r) - 1 /\ Cardinality(r) \in Nat
        BY <1>2, <2>5, FS_RemoveElement
      <3>2. r \ {x} \notin Bad
        <4> HIDE DEF Bad
        <4> QED
          BY <2>4, <3>1
      <3> HIDE DEF Good
      <3> QED
        BY <3>1, <3>2
    <2>7. r # {}
      BY <1>5, <2>5
    <2>8. PICK y \in r : y = Chosen(r)
      BY <1>4, <2>5, <2>7
    <2>9. g[r] = F[y] + g[r \ {y}] /\ g[r \ {y}] \in Int /\ F[y] \in Int
      BY <1>4, <2>5, <2>6, <2>7, <2>8
    <2>10. ASSUME NEW x \in r, x # y PROVE g[r] = F[x] + g[r \ {x}]
      <3>1. g[r \ {y}] = F[x] + g[(r \ {y}) \ {x}] /\ g[r \ {x}] = F[y] + g[(r \ {x}) \ {y}]
        <4>1. x \in r \ {y} /\ y \in r \ {x}
          BY <2>10
        <4> QED
          BY <2>6, <4>1
      <3>2. PICK p \in SUBSET r : p = (r \ {y}) \ {x}
        OBVIOUS
      <3>3. p = (r \ {x}) \ {y}
        BY <3>2
      <3>4. g[p] \in Int
        <4>1. Cardinality(p) < Cardinality(r)
          BY <1>2, <2>5, <3>2, FS_Subset
        <4>2. p \notin Bad
          <5> HIDE DEF Bad
          <5> QED
            BY <1>2, <2>4, <2>5, <3>2, <4>1
        <4> QED
          BY <2>5, <4>2
      <3>5. F[x] \in Int /\ F[y] \in Int
        BY <2>5
      <3>6. g[r \ {y}] = F[x] + g[p] /\ g[r \ {x}] = F[y] + g[p]
        BY <3>1, <3>2, <3>3
      <3> HIDE DEF Bad, Good
      <3> QED
        BY <2>9, <3>4, <3>5, <3>6
    <2>11. Good(r)
      <3>1. g[r] \in Int
        BY <2>9
      <3>2. \A x \in r : g[r] = F[x] + g[r \ {x}]
        BY <2>8, <2>9, <2>10
      <3> QED
        BY <3>1, <3>2
    <2> HIDE DEF Good
    <2> QED
      BY <2>5, <2>11
  <1>7. S \in SUBSET S /\ S \ {a} \in SUBSET S
    OBVIOUS
  <1>8. g[S] \in Int /\ g[S \ {a}] \in Int /\ g[S] = F[a] + g[S \ {a}]
    BY <1>6, <1>7
  <1> QED
    BY <1>3, <1>7, <1>8

-----------------------------------------------------------------------------

-----------------------------------------------------------------------------
\* the fields of two maps
UsedOf(m) == [l \in Level |-> m[l].used]
KeysOf(m) == [l \in Level |-> m[l].keys]
ValuesOf(m) == [l \in Level |-> m[l].values]
HeadsOf(m) == [l \in Level |-> m[l].begins]
LinksOf(m) == [l \in Level |-> m[l].nexts]
AreMaps(m) == m = [l \in Level |-> [begins |-> m[l].begins, nexts |-> m[l].nexts, keys |-> m[l].keys,
                                    values |-> m[l].values, used |-> m[l].used]]

Used == UsedOf(map)
Keys == KeysOf(map)
Values == ValuesOf(map)
Heads == HeadsOf(map)
Links == LinksOf(map)

Row == rows[row]
Multi == exec = "multicore"

\* the columns that the lanes insert now, and the entries of A multiplied before
Inserting == IF ph = "lanes" THEN Row[Entry] ELSE {}
Before == {e \in DOMAIN Row : IF Multi THEN e < Entry ELSE e > Entry}

(***************************************************************************)
(* The slots of a level, from its counter us[l] and the lanes L.           *)
(***************************************************************************)
Taken(us, l) == {s \in SlotsOf(l) : s < us[l]}
OwnerIn(L, l, s, pcs) == \E j \in Cols : L[j].lvl = l /\ L[j].my = s /\ L[j].pc \in pcs

Unwritten == {"write"}
Unpushed == {"write", "link", "exchange"}
Owning == {"write", "link", "exchange", "track", "next"}
After == {"link", "exchange", "track", "next", "done"}

Old(us, L, l) == {s \in Taken(us, l) : \A j \in Cols : ~ (L[j].lvl = l /\ L[j].my = s)}
Filled(us, L, l) == {s \in Taken(us, l) : ~ OwnerIn(L, l, s, Unwritten)}
Pushed(us, L, l) == {s \in Taken(us, l) : ~ OwnerIn(L, l, s, Unpushed)}

\* some slot of the level has key k
In(us, ks, L, l, k) == \E s \in Filled(us, L, l) : ks[l][s] = k

(***************************************************************************)
(* The keys of the slots are columns of the row, each in one slot of one   *)
(* level; the second level is only used when the first is full.            *)
(***************************************************************************)
KeysOK(x, C, hd, us, ks, L) ==
  /\ \A l \in Level : \A s \in Filled(us, L, l) : ks[l][s] \in C
  /\ \A l, u \in Level : \A s \in Filled(us, L, l), q \in Filled(us, L, u) :
       ks[l][s] = ks[u][q] => l = u /\ s = q
  /\ \A s \in SlotsOf(2) : s >= us[2] => ks[2][s] = Nil
  /\ us[2] <= KeySize[2]
  /\ x = "multicore" => us[1] = 0
  /\ x # "multicore" /\ us[2] > 0 => us[1] >= KeySize[1]
  /\ us[2] > 0 => hd

\* what lane k knows
LaneOK(x, I, hd, us, ks, vs, L, k) ==
  /\ L[k].pc = "idle" <=> k \notin I
  /\ L[k].pc \in Owning => L[k].my # Nil
  /\ L[k].my # Nil => L[k].my \in Taken(us, L[k].lvl) /\ L[k].pc \in Owning \union {"done"}
  /\ L[k].my # Nil /\ L[k].pc # "write" => ks[L[k].lvl][L[k].my] = k
  /\ L[k].pc = "link" => x = "independent"
  /\ L[k].pc = "check" => L[k].lvl = 1
  /\ L[k].pc = "track" => L[k].lvl = 2
  /\ L[k].lvl = 2 => hd /\ us[1] >= KeySize[1] /\ ~ In(us, ks, L, 1, k)
  /\ L[k].pc \in {"check", "reserve", "write"} => ~ In(us, ks, L, L[k].lvl, k)
  /\ L[k].pc = "write" => ~ In(us, ks, L, 1, k) /\ ~ In(us, ks, L, 2, k)
  /\ L[k].pc = "store" => /\ L[k].at \in Old(us, L, L[k].lvl)
                          /\ ks[L[k].lvl][L[k].at] = k
                          /\ L[k].tmp = vs[L[k].lvl][L[k].at]
  /\ x = "multicore" => L[k].pc \in {"idle", "hash", "done"} /\ L[k].lvl = 1 /\ L[k].my = Nil

OneOwner(L) == \A j, k \in Cols : L[j].my = L[k].my /\ L[j].lvl = L[k].lvl /\ L[j].my # Nil => j = k

\* the entries of A whose product for column k is in a slot
Done(R, D, e, L, k) == {d \in D : k \in R[d]} \union {d \in {e} : L[k].pc \in After}

SumsOK(R, D, e, us, ks, vs, L) ==
  /\ \A l \in Level : \A s \in Filled(us, L, l) : vs[l][s] = Total(Val, Done(R, D, e, L, ks[l][s]))
  /\ \A k \in Cols : Done(R, D, e, L, k) # {} => In(us, ks, L, 1, k) \/ In(us, ks, L, 2, k)

\* what is in the slots
Core(x, C, I, R, D, e, hd, us, ks, vs, L) ==
  /\ KeysOK(x, C, hd, us, ks, L)
  /\ \A k \in Cols : LaneOK(x, I, hd, us, ks, vs, L, k)
  /\ OneOwner(L)
  /\ SumsOK(R, D, e, us, ks, vs, L)

\* what a lane must not overtake without independent scheduling
InStep(x, L) ==
  x = "lockstep" =>
    \A j, k \in Cols : L[j].pc \in {"track", "next"} => Stage(L[k]) >= 10 * L[j].lvl + 8

(***************************************************************************)
(* The lists of a level.  r ranks its pushed slots P in the order in which *)
(* they became heads, n is the next rank, c gives their hashes.  Latest: g *)
(* is the slot of hash h that was pushed last before rank b, or Nil.       *)
(* Reaches: g is such a slot, and none of the slots O that were there when *)
(* the lanes began is between.                                             *)
(***************************************************************************)
Class(ks, l) == [s \in SlotsOf(l) |-> Hash(ks[l][s], HashSize[l])]

Ranked(P, r, n) == /\ \A y \in P : r[y] < n
                   /\ \A y, z \in P : r[y] = r[z] => y = z
OfClass(P, c, r, h, b, g) == g = Nil \/ (g \in P /\ c[g] = h /\ r[g] < b)
Reaches(P, O, c, r, h, b, g) ==
  /\ OfClass(P, c, r, h, b, g)
  /\ \A w \in O : c[w] = h /\ r[w] < b => g # Nil /\ r[w] <= r[g]
Latest(P, c, r, h, b, g) == Reaches(P, P, c, r, h, b, g)

Pending(L, l, y) == OwnerIn(L, l, y, {"track", "next"})
SoughtAt(P, O, c, r, n, h, K, k, g) ==
  /\ OfClass(P, c, r, h, n, g)
  /\ \A w \in O : K[w] = k => g # Nil /\ r[w] <= r[g]

LaneListed(x, l, P, O, c, N, K, L, r, n, j) ==
  L[j].lvl = l =>
    /\ L[j].pc = "walk" => SoughtAt(P, O, c, r, n, Hash(j, HashSize[l]), K, j, L[j].at)
    /\ L[j].pc \in {"track", "next"} =>
         /\ Latest(P, c, r, Hash(j, HashSize[l]), r[L[j].my], L[j].tmp)
         /\ x = "independent" => Reaches(P, O, c, r, Hash(j, HashSize[l]), r[L[j].my], N[L[j].my])
    /\ L[j].pc = "exchange" /\ x = "independent" =>
         Reaches(P, O, c, r, Hash(j, HashSize[l]), n, N[L[j].my])

Chains(x, l, P, O, c, B, N, K, L, r, n) ==
  /\ Ranked(P, r, n)
  /\ \A h \in 0 .. HashSize[l] - 1 : Latest(P, c, r, h, n, B[h])
  /\ \A y \in P : ~ Pending(L, l, y) => Latest(P, c, r, c[y], r[y], N[y])
  /\ \A j \in Cols : LaneListed(x, l, P, O, c, N, K, L, r, n, j)

ListsOK(x, us, ks, hs, ns, L, l) ==
  \E n \in Nat, r \in [SlotsOf(l) -> Nat] :
    Chains(x, l, Pushed(us, L, l), Old(us, L, l), Class(ks, l), hs[l], ns[l], ks[l], L, r, n)

\* a head of the second level that is set is tracked, or will be
DirtyOK(d, hs, L) ==
  \A h \in 0 .. HashSize[2] - 1 : hs[2][h] # Nil =>
    \/ \E n \in DOMAIN d : d[n] = h
    \/ \E j \in Cols : L[j].lvl = 2 /\ L[j].pc = "track" /\ Hash(j, HashSize[2]) = h

FieldsOK(us, ks, vs, hs, ns) ==
  /\ us \in [Level -> Nat]
  /\ \A l \in Level :
       /\ ks[l] \in [SlotsOf(l) -> Cols \union {Nil}]
       /\ vs[l] \in [SlotsOf(l) -> Int]
       /\ hs[l] \in [0 .. HashSize[l] - 1 -> SlotsOf(l) \union {Nil}]
       /\ ns[l] \in [SlotsOf(l) -> SlotsOf(l) \union {Nil}]
Pcs == {"idle", "done"} \union DOMAIN Order
Slots == SlotsOf(1) \union SlotsOf(2) \union {Nil}
LaneType(L) == L \in [Cols -> [pc : Pcs, lvl : Level, at : Slots, my : Slots, tmp : Int]]

\* what holds while the entries of a row are multiplied
Working(x, C, I, R, D, e, hd, d, us, ks, vs, hs, ns, L) ==
  /\ FieldsOK(us, ks, vs, hs, ns) /\ LaneType(L) /\ d \in Seq(0 .. HashSize[2] - 1)
  /\ Core(x, C, I, R, D, e, hd, us, ks, vs, L)
  /\ ListsOK(x, us, ks, hs, ns, L, 1)
  /\ ListsOK(x, us, ks, hs, ns, L, 2)
  /\ DirtyOK(d, hs, L)
  /\ InStep(x, L)
  /\ ~ hd => hs[2] = Unlinked(2)

(***************************************************************************)
(* The inductive invariant.                                                *)
(***************************************************************************)
Fitting == /\ rows \in Problems
           /\ \A r \in DOMAIN rows : CSize(r) <= KeySize[2]
Shape ==
  /\ exec \in Execs /\ Fitting /\ row \in 1 .. Len(rows) + 1
  /\ ph \in {"row", "entries", "lanes", "reset", "copy", "written"}
  /\ ii \in Nat /\ held \in BOOLEAN /\ dirty \in Seq(0 .. HashSize[2] - 1)
  /\ AreMaps(map) /\ FieldsOK(Used, Keys, Values, Heads, Links)
  /\ LaneType(lane)

Phases ==
  /\ ph # "row" => row <= Len(rows)
  /\ ph # "lanes" => lane = [k \in Cols |-> Idle]
  /\ ph \in {"entries", "lanes"} => ii <= Len(Row)
  /\ ph = "lanes" => ii # 0
  /\ ph \in {"reset", "copy"} => ii = 0
  /\ ph = "copy" => ~ Multi
  /\ ph \in {"entries", "lanes", "reset"} => (held <=> Multi \/ CSize(row) > KeySize[1])
  /\ ph \in {"row", "copy", "written"} /\ held => Multi

Inserted(hd) ==
  Core(exec, ColsOf(row), Inserting, Row, Before, Entry, hd, Used, Keys, Values, lane)

\* the device has given its chunk back when it copies
Clean ==
  /\ ~ held \/ ph \in {"row", "reset", "copy", "written"} => Heads[2] = Unlinked(2)

IInv ==
  /\ Shape
  /\ Phases
  /\ ph = "reset" => Inserted(held)
  /\ ph = "copy" => Inserted(TRUE)
  /\ ph \in {"entries", "lanes"} =>
       Working(exec, ColsOf(row), Inserting, Row, Before, Entry, held, dirty, Used, Keys, Values, Heads, Links, lane)
  /\ Clean
  /\ RowCorrect
-----------------------------------------------------------------------------
LEMMA Sizes ==
  /\ Nil \notin Nat /\ Nil \in Int
  /\ \A l \in Level : /\ KeySize[l] \in Nat \ {0} /\ HashSize[l] \in Nat \ {0}
                      /\ \A s \in SlotsOf(l) : s \in Nat /\ s # Nil /\ s < KeySize[l]
                      /\ \A s \in Nat : s < KeySize[l] => s \in SlotsOf(l)
  /\ Cols \subseteq Nat /\ IsFiniteSet(Cols)
  <1>1. \A l \in Level : KeySize[l] \in Nat \ {0} /\ HashSize[l] \in Nat \ {0}
    BY SizeAssumption DEF Level
  <1>2. \A l \in Level : /\ \A s \in SlotsOf(l) : s \in Nat /\ s # Nil /\ s < KeySize[l]
                         /\ \A s \in Nat : s < KeySize[l] => s \in SlotsOf(l)
    BY <1>1 DEF SlotsOf, Nil
  <1> QED
    BY <1>1, <1>2, ColsAssumption DEF Nil

LEMMA HashIs ==
  ASSUME NEW l \in Level, NEW k \in Cols
  PROVE  Hash(k, HashSize[l]) \in 0 .. HashSize[l] - 1
  <1>1. PICK z \in Nat \ {0} : z = HashSize[l]
    BY Sizes
  <1>2. k \in Nat
    BY ColsAssumption
  <1>3. k % z \in 0 .. z - 1
    BY <1>2
  <1> QED
    BY <1>1, <1>3 DEF Hash

LEMMA Stages ==
  ASSUME NEW q
  PROVE  /\ q.pc \in {"idle", "done"} => Stage(q) = 100
         /\ q.pc = "hash" => Stage(q) = 10 * q.lvl + 1
         /\ q.pc = "walk" => Stage(q) = 10 * q.lvl + 2
         /\ q.pc = "store" => Stage(q) = 10 * q.lvl + 3
         /\ q.pc = "check" => Stage(q) = 10 * q.lvl + 4
         /\ q.pc = "reserve" => Stage(q) = 10 * q.lvl + 5
         /\ q.pc = "write" => Stage(q) = 10 * q.lvl + 6
         /\ q.pc = "link" => Stage(q) = 10 * q.lvl + 7
         /\ q.pc = "exchange" => Stage(q) = 10 * q.lvl + 8
         /\ q.pc = "track" => Stage(q) = 10 * q.lvl + 9
         /\ q.pc = "next" => Stage(q) = 10 * q.lvl + 10
  BY DEF Stage, Order

LEMMA PcsAre ==
  Pcs = {"idle", "done", "hash", "walk", "store", "check", "reserve", "write", "link", "exchange", "track", "next"}
  <1>1. DOMAIN Order = {"hash", "walk", "store", "check", "reserve", "write", "link", "exchange", "track", "next"}
    BY DEF Order
  <1> QED
    BY <1>1 DEF Pcs

-----------------------------------------------------------------------------
(***************************************************************************)
(* A step of lane k takes it from L[k] to q.                               *)
(***************************************************************************)
LaneStep(L, k, q, L2) == L2 = [L EXCEPT ![k] = q]
IsLane(q) == q \in [pc : Pcs, lvl : Level, at : Slots, my : Slots, tmp : Int]

LEMMA StepFacts ==
  ASSUME NEW L, LaneType(L), NEW k \in Cols, NEW q, IsLane(q), NEW L2, LaneStep(L, k, q, L2)
  PROVE  LaneType(L2) /\ L2[k] = q /\ \A j \in Cols : j # k => L2[j] = L[j]
  BY DEF LaneType, IsLane, LaneStep

LEMMA LaneFields ==
  ASSUME NEW L, LaneType(L), NEW k \in Cols
  PROVE  /\ IsLane(L[k]) /\ L[k].pc \in Pcs /\ L[k].lvl \in Level /\ L[k].at \in Slots
         /\ L[k].my \in Slots /\ L[k].tmp \in Int
  BY DEF LaneType, IsLane

LEMMA SameOwners ==
  ASSUME NEW L, LaneType(L), NEW k \in Cols, NEW q, IsLane(q), NEW L2, LaneStep(L, k, q, L2),
         q.my = L[k].my, q.lvl = L[k].lvl \/ q.my = Nil,
         NEW l \in Level, NEW s \in SlotsOf(l), NEW pcs, q.pc \in pcs <=> L[k].pc \in pcs
  PROVE  /\ OwnerIn(L2, l, s, pcs) <=> OwnerIn(L, l, s, pcs)
         /\ (\E j \in Cols : L2[j].lvl = l /\ L2[j].my = s) <=> (\E j \in Cols : L[j].lvl = l /\ L[j].my = s)
  <1>1. L2[k] = q /\ \A j \in Cols : j # k => L2[j] = L[j]
    BY StepFacts
  <1>2. s # Nil
    BY Sizes
  <1>3. \A j \in Cols : L2[j].lvl = l /\ L2[j].my = s <=> L[j].lvl = l /\ L[j].my = s
    BY <1>1, <1>2
  <1>4. \A j \in Cols : L2[j].pc \in pcs <=> L[j].pc \in pcs
    BY <1>1
  <1> QED
    BY <1>3, <1>4 DEF OwnerIn

LEMMA SameSlots ==
  ASSUME NEW L, LaneType(L), NEW k \in Cols, NEW q, IsLane(q), NEW L2, LaneStep(L, k, q, L2),
         q.my = L[k].my, q.lvl = L[k].lvl \/ q.my = Nil,
         NEW us, NEW us2, NEW l \in Level, Taken(us2, l) = Taken(us, l)
  PROVE  /\ Old(us2, L2, l) = Old(us, L, l)
         /\ (q.pc \in Unwritten <=> L[k].pc \in Unwritten) => Filled(us2, L2, l) = Filled(us, L, l)
         /\ (q.pc \in Unpushed <=> L[k].pc \in Unpushed) => Pushed(us2, L2, l) = Pushed(us, L, l)
  <1>1. \A s \in Taken(us, l) : s \in SlotsOf(l)
    BY DEF Taken
  <1>2. Old(us2, L2, l) = Old(us, L, l)
    <2>1. \A s \in SlotsOf(l) : (\E j \in Cols : L2[j].lvl = l /\ L2[j].my = s)
                                <=> (\E j \in Cols : L[j].lvl = l /\ L[j].my = s)
      <3> TAKE s \in SlotsOf(l)
      <3>1. PICK none : none = {}
        OBVIOUS
      <3>2. q.pc \in none <=> L[k].pc \in none
        BY <3>1
      <3> QED
        BY <3>2, SameOwners
    <2>2. \A s \in SlotsOf(l) : (\A j \in Cols : ~ (L2[j].lvl = l /\ L2[j].my = s))
                                <=> (\A j \in Cols : ~ (L[j].lvl = l /\ L[j].my = s))
      BY <2>1
    <2> QED
      BY <1>1, <2>2 DEF Old
  <1>3. ASSUME NEW pcs, q.pc \in pcs <=> L[k].pc \in pcs
        PROVE  \A s \in SlotsOf(l) : OwnerIn(L2, l, s, pcs) <=> OwnerIn(L, l, s, pcs)
    <2> TAKE s \in SlotsOf(l)
    <2> QED
      BY <1>3, SameOwners
  <1>4. ASSUME q.pc \in Unwritten <=> L[k].pc \in Unwritten
        PROVE  Filled(us2, L2, l) = Filled(us, L, l)
    <2>1. \A s \in SlotsOf(l) : OwnerIn(L2, l, s, Unwritten) <=> OwnerIn(L, l, s, Unwritten)
      BY <1>3, <1>4
    <2> QED
      BY <1>1, <2>1 DEF Filled
  <1>5. ASSUME q.pc \in Unpushed <=> L[k].pc \in Unpushed
        PROVE  Pushed(us2, L2, l) = Pushed(us, L, l)
    <2>1. \A s \in SlotsOf(l) : OwnerIn(L2, l, s, Unpushed) <=> OwnerIn(L, l, s, Unpushed)
      BY <1>3, <1>5
    <2> QED
      BY <1>1, <2>1 DEF Pushed
  <1> QED
    BY <1>2, <1>4, <1>5

LEMMA SlotSets ==
  ASSUME NEW us, NEW L, NEW l \in Level
  PROVE  /\ Old(us, L, l) \subseteq Pushed(us, L, l) /\ Pushed(us, L, l) \subseteq Filled(us, L, l)
         /\ Filled(us, L, l) \subseteq Taken(us, l) /\ Taken(us, l) \subseteq SlotsOf(l)
         /\ Old(us, L, l) \subseteq Filled(us, L, l) /\ Filled(us, L, l) \subseteq SlotsOf(l)
         /\ Pushed(us, L, l) \subseteq SlotsOf(l) /\ Old(us, L, l) \subseteq SlotsOf(l)
         /\ \A s \in Taken(us, l) : s < us[l]
  BY DEF Old, Pushed, Filled, Taken, OwnerIn, Unwritten, Unpushed
-----------------------------------------------------------------------------
(***************************************************************************)
(* What is in the slots, and what the lanes know of it.                    *)
(***************************************************************************)
\* the row R and its columns C; entry e is inserted, those of D were before
Setting(x, C, I, R, D, e) ==
  /\ x \in Execs
  /\ C \subseteq Cols /\ I \subseteq C
  /\ R \in Seq(SUBSET Cols) /\ DOMAIN R \subseteq DOMAIN Val
  /\ D \subseteq DOMAIN R /\ e \notin D
  /\ I # {} => e \in DOMAIN R /\ I = R[e]

\* a lane keeps what it knows when its slots keep what is in them
LEMMA LaneFrame ==
  ASSUME NEW x, NEW I, NEW hd, NEW us \in [Level -> Nat], NEW us2 \in [Level -> Nat], NEW ks, NEW ks2,
         NEW vs, NEW vs2, NEW L, LaneType(L), NEW L2, NEW j \in Cols, L2[j] = L[j],
         us[1] <= us2[1],
         \A l \in Level : Taken(us, l) \subseteq Taken(us2, l),
         \A l \in Level : In(us2, ks2, L2, l, j) => In(us, ks, L, l, j),
         L[j].my # Nil => ks2[L[j].lvl][L[j].my] = ks[L[j].lvl][L[j].my],
         L[j].pc = "store" => /\ L[j].at \in Old(us2, L2, L[j].lvl)
                              /\ ks2[L[j].lvl][L[j].at] = ks[L[j].lvl][L[j].at]
                              /\ vs2[L[j].lvl][L[j].at] = vs[L[j].lvl][L[j].at],
         LaneOK(x, I, hd, us, ks, vs, L, j)
  PROVE  LaneOK(x, I, hd, us2, ks2, vs2, L2, j)
  <1>1. L[j].lvl \in Level /\ 1 \in Level /\ 2 \in Level
    BY LaneFields DEF Level
  <1>2. PICK u \in Level : u = L[j].lvl
    BY <1>1
  <1>3. us[1] \in Nat /\ us2[1] \in Nat /\ KeySize[1] \in Nat
    BY <1>1, Sizes
  <1>4. us[1] >= KeySize[1] => us2[1] >= KeySize[1]
    BY <1>3
  <1>5. L[j].my \in Taken(us, u) => L[j].my \in Taken(us2, u)
    OBVIOUS
  <1>6. /\ In(us2, ks2, L2, u, j) => In(us, ks, L, u, j)
        /\ In(us2, ks2, L2, 1, j) => In(us, ks, L, 1, j)
        /\ In(us2, ks2, L2, 2, j) => In(us, ks, L, 2, j)
    BY <1>1
  <1> QED
    BY <1>2, <1>4, <1>5, <1>6 DEF LaneOK

\* a step that neither writes a slot nor counts a product
Quiet(L, k, q) ==
  /\ q.my = L[k].my /\ (q.lvl = L[k].lvl \/ q.my = Nil)
  /\ q.pc \in Unwritten <=> L[k].pc \in Unwritten
  /\ q.pc \in After <=> L[k].pc \in After

LEMMA CoreQuiet ==
  ASSUME NEW x, NEW C, NEW I, NEW R, NEW D, NEW e, NEW hd, NEW us \in [Level -> Nat], NEW us2 \in [Level -> Nat],
         NEW ks, NEW vs, NEW L, LaneType(L), NEW k \in Cols, NEW q, IsLane(q), NEW L2, LaneStep(L, k, q, L2),
         Quiet(L, k, q), x # "multicore", us2[2] = us[2], us[1] <= us2[1],
         \A l \in Level : Taken(us2, l) = Taken(us, l),
         Core(x, C, I, R, D, e, hd, us, ks, vs, L), LaneOK(x, I, hd, us2, ks, vs, L2, k)
  PROVE  Core(x, C, I, R, D, e, hd, us2, ks, vs, L2)
  <1>1. L2[k] = q /\ \A j \in Cols : j # k => L2[j] = L[j]
    BY StepFacts
  <1>2. \A l \in Level : Filled(us2, L2, l) = Filled(us, L, l) /\ Old(us2, L2, l) = Old(us, L, l)
    <2> TAKE l \in Level
    <2>1. Taken(us2, l) = Taken(us, l)
      OBVIOUS
    <2>2. q.my = L[k].my /\ (q.lvl = L[k].lvl \/ q.my = Nil) /\ (q.pc \in Unwritten <=> L[k].pc \in Unwritten)
      BY DEF Quiet
    <2> QED
      BY <2>1, <2>2, SameSlots
  <1>3. \A l \in Level : \A j : In(us2, ks, L2, l, j) <=> In(us, ks, L, l, j)
    BY <1>2 DEF In
  <1>4. 1 \in Level /\ 2 \in Level
    BY DEF Level
  <1>5. KeysOK(x, C, hd, us2, ks, L2)
    <2>1. us[1] \in Nat /\ us2[1] \in Nat /\ KeySize[1] \in Nat
      BY <1>4, Sizes
    <2>2. us[1] >= KeySize[1] => us2[1] >= KeySize[1]
      BY <2>1
    <2>3. KeysOK(x, C, hd, us, ks, L)
      BY DEF Core
    <2>4. \A l \in Level : \A s \in Filled(us2, L2, l) : ks[l][s] \in C
      BY <1>2, <2>3 DEF KeysOK
    <2>5. \A l, u \in Level : \A s \in Filled(us2, L2, l), p \in Filled(us2, L2, u) :
            ks[l][s] = ks[u][p] => l = u /\ s = p
      BY <1>2, <2>3 DEF KeysOK
    <2> QED
      BY <2>2, <2>3, <2>4, <2>5 DEF KeysOK
  <1>6. ASSUME NEW j \in Cols PROVE LaneOK(x, I, hd, us2, ks, vs, L2, j)
    <2>1. CASE j = k
      BY <2>1
    <2>2. CASE j # k
      <3>1. L2[j] = L[j] /\ L[j].lvl \in Level
        BY <1>1, <2>2, LaneFields
      <3>2. LaneOK(x, I, hd, us, ks, vs, L, j)
        BY DEF Core
      <3>3. L[j].pc = "store" => L[j].at \in Old(us2, L2, L[j].lvl)
        BY <1>2, <3>1, <3>2 DEF LaneOK
      <3>4. \A l \in Level : Taken(us, l) \subseteq Taken(us2, l)
        OBVIOUS
      <3>5. \A l \in Level : In(us2, ks, L2, l, j) => In(us, ks, L, l, j)
        BY <1>3
      <3> QED
        BY <3>1, <3>2, <3>3, <3>4, <3>5, LaneFrame
    <2> QED
      BY <2>1, <2>2
  <1>7. OneOwner(L2)
    <2>1. OneOwner(L)
      BY DEF Core
    <2>2. \A j \in Cols : L2[j].my = L[j].my /\ (L2[j].lvl = L[j].lvl \/ L2[j].my = Nil)
      BY <1>1 DEF Quiet
    <2> QED
      BY <2>1, <2>2 DEF OneOwner
  <1>8. SumsOK(R, D, e, us2, ks, vs, L2)
    <2>1. SumsOK(R, D, e, us, ks, vs, L)
      BY DEF Core
    <2>2. \A j : j # k => Done(R, D, e, L2, j) = Done(R, D, e, L, j)
      <3> SUFFICES ASSUME NEW j, j # k PROVE Done(R, D, e, L2, j) = Done(R, D, e, L, j)
        OBVIOUS
      <3>1. L2[j] = L[j]
        BY DEF LaneStep, LaneType
      <3> QED
        BY <3>1 DEF Done
    <2>3. Done(R, D, e, L2, k) = Done(R, D, e, L, k)
      <3>1. L2[k].pc \in After <=> L[k].pc \in After
        BY <1>1 DEF Quiet
      <3> QED
        BY <3>1 DEF Done
    <2>4. \A j : Done(R, D, e, L2, j) = Done(R, D, e, L, j)
      BY <2>2, <2>3
    <2> QED
      BY <1>2, <1>3, <1>4, <2>1, <2>4 DEF SumsOK
  <1> QED
    BY <1>5, <1>6, <1>7, <1>8 DEF Core
-----------------------------------------------------------------------------
\* A counter that has passed the capacity has taken all slots.
LEMMA TakenSize ==
  ASSUME NEW us \in [Level -> Nat], NEW l \in Level
  PROVE  /\ IsFiniteSet(Taken(us, l))
         /\ us[l] <= KeySize[l] => Taken(us, l) = 0 .. us[l] - 1 /\ Cardinality(Taken(us, l)) = us[l]
         /\ us[l] >= KeySize[l] => Taken(us, l) = SlotsOf(l) /\ Cardinality(Taken(us, l)) = KeySize[l]
  <1>1. PICK z \in Nat : z = KeySize[l]
    BY Sizes
  <1>2. PICK u \in Nat : u = us[l]
    OBVIOUS
  <1>3. \A n \in Nat : IsFiniteSet(0 .. n - 1) /\ Cardinality(0 .. n - 1) = n
    <2> TAKE n \in Nat
    <2>1. 0 \in Int /\ n - 1 \in Int
      OBVIOUS
    <2>2. Cardinality(0 .. n - 1) = IF 0 > n - 1 THEN 0 ELSE n - 1 - 0 + 1
      BY <2>1, FS_Interval
    <2> QED
      BY <2>1, <2>2, FS_Interval
  <1>4. Taken(us, l) = {s \in 0 .. z - 1 : s < u}
    BY <1>1, <1>2 DEF Taken, SlotsOf
  <1>5. CASE u <= z
    <2>1. Taken(us, l) = 0 .. u - 1
      BY <1>4, <1>5
    <2>2. IsFiniteSet(0 .. u - 1) /\ Cardinality(0 .. u - 1) = u
      BY <1>3
    <2>3. u >= z => u = z
      BY <1>5
    <2> QED
      BY <1>1, <1>2, <2>1, <2>2, <2>3 DEF SlotsOf
  <1>6. CASE z < u
    <2>1. Taken(us, l) = 0 .. z - 1
      BY <1>4, <1>6
    <2>2. IsFiniteSet(0 .. z - 1) /\ Cardinality(0 .. z - 1) = z
      BY <1>3
    <2>3. ~ (u <= z)
      BY <1>6
    <2> QED
      BY <1>1, <1>2, <2>1, <2>2, <2>3 DEF SlotsOf
  <1> QED
    BY <1>5, <1>6

LEMMA ColumnsFinite ==
  ASSUME NEW C, C \subseteq Cols
  PROVE  IsFiniteSet(C) /\ Cardinality(C) \in Nat
  BY Sizes, FS_Subset, FS_CardinalityType

\* While a column of the row is not in a level, fewer slots of it are taken than
\* the row has columns: each has a column of its own, or is being given one.
LEMMA Room ==
  ASSUME NEW x, NEW C, NEW I, NEW R, NEW D, NEW e, Setting(x, C, I, R, D, e), NEW hd, NEW us \in [Level -> Nat],
         NEW ks, NEW vs, NEW L, LaneType(L), Core(x, C, I, R, D, e, hd, us, ks, vs, L),
         NEW l \in Level, NEW k \in C, ~ In(us, ks, L, l, k), L[k].my = Nil
  PROVE  Cardinality(Taken(us, l)) < Cardinality(C)
  <1> DEFINE Writes(s, j) == L[j].lvl = l /\ L[j].my = s /\ L[j].pc = "write"
  <1>1. \A s \in Taken(us, l) : s \in SlotsOf(l) /\ s # Nil
    BY Sizes, SlotSets
  <1>2. \A s \in Taken(us, l) : s \in Filled(us, L, l) \/ \E j \in Cols : Writes(s, j)
    BY DEF Filled, OwnerIn, Unwritten
  <1>3. \A s \in Filled(us, L, l) : ks[l][s] \in C /\ ks[l][s] # k
    BY DEF Core, KeysOK, In
  <1>4. \A j \in Cols : L[j].pc = "write" => j \in I /\ ~ In(us, ks, L, l, j)
    <2> SUFFICES ASSUME NEW j \in Cols, L[j].pc = "write"
                 PROVE  j \in I /\ ~ In(us, ks, L, l, j)
      OBVIOUS
    <2>1. LaneOK(x, I, hd, us, ks, vs, L, j)
      BY DEF Core
    <2>2. l = 1 \/ l = 2
      BY DEF Level
    <2> QED
      BY <2>1, <2>2 DEF LaneOK
  <1>5. \A s \in Filled(us, L, l), j \in Cols : L[j].pc = "write" => ks[l][s] # j
    BY <1>4 DEF In
  <1>6. C \subseteq Cols /\ I \subseteq C
    BY DEF Setting
  <1>7. PICK f : f = [s \in Taken(us, l) |-> IF s \in Filled(us, L, l) THEN ks[l][s]
                                             ELSE CHOOSE j \in Cols : Writes(s, j)]
    OBVIOUS
  <1>8. \A s \in Taken(us, l) : \/ s \in Filled(us, L, l) /\ f[s] = ks[l][s]
                                \/ s \notin Filled(us, L, l) /\ f[s] \in Cols /\ Writes(s, f[s])
    <2> SUFFICES ASSUME NEW s \in Taken(us, l), s \notin Filled(us, L, l)
                 PROVE  f[s] \in Cols /\ Writes(s, f[s])
      BY <1>7
    <2>1. f[s] = CHOOSE j \in Cols : Writes(s, j)
      BY <1>7
    <2>2. \E j \in Cols : Writes(s, j)
      BY <1>2
    <2> HIDE DEF Writes
    <2> QED
      BY <2>1, <2>2
  <1>9. \A s, p \in Taken(us, l) : f[s] = f[p] => s = p
    <2> SUFFICES ASSUME NEW s \in Taken(us, l), NEW p \in Taken(us, l), f[s] = f[p] PROVE s = p
      OBVIOUS
    <2>1. CASE s \in Filled(us, L, l) /\ p \in Filled(us, L, l)
      <3>1. ks[l][s] = ks[l][p]
        BY <1>8, <2>1
      <3> QED
        BY <2>1, <3>1 DEF Core, KeysOK
    <2>2. CASE s \notin Filled(us, L, l) /\ p \notin Filled(us, L, l)
      BY <1>8, <2>2
    <2>3. CASE s \in Filled(us, L, l) /\ p \notin Filled(us, L, l)
      <3>1. f[s] = ks[l][s] /\ f[p] \in Cols /\ L[f[p]].pc = "write"
        BY <1>8, <2>3
      <3> QED
        BY <1>5, <2>3, <3>1
    <2>4. CASE p \in Filled(us, L, l) /\ s \notin Filled(us, L, l)
      <3>1. f[p] = ks[l][p] /\ f[s] \in Cols /\ L[f[s]].pc = "write"
        BY <1>8, <2>4
      <3> QED
        BY <1>5, <2>4, <3>1
    <2> QED
      BY <2>1, <2>2, <2>3, <2>4
  <1>10. \A s \in Taken(us, l) : f[s] \in C \ {k}
    <2> SUFFICES ASSUME NEW s \in Taken(us, l) PROVE f[s] \in C \ {k}
      OBVIOUS
    <2>1. CASE s \in Filled(us, L, l) /\ f[s] = ks[l][s]
      BY <1>3, <2>1
    <2>2. CASE f[s] \in Cols /\ Writes(s, f[s])
      <3>1. f[s] \in C
        BY <1>4, <1>6, <2>2
      <3>2. f[s] # k
        BY <1>1, <2>2
      <3> QED
        BY <3>1, <3>2
    <2> QED
      BY <1>8, <2>1, <2>2
  <1> HIDE DEF Writes
  <1>11. PICK T : T = {f[s] : s \in Taken(us, l)}
    OBVIOUS
  <1>12. IsFiniteSet(Taken(us, l))
    BY TakenSize
  <1>13. Cardinality(T) = Cardinality(Taken(us, l))
    BY <1>9, <1>11, <1>12, ImageSize
  <1>14. IsFiniteSet(C) /\ Cardinality(C) \in Nat
    BY <1>6, ColumnsFinite
  <1>15. T \in SUBSET (C \ {k})
    BY <1>10, <1>11
  <1>16. IsFiniteSet(C \ {k}) /\ Cardinality(C \ {k}) = Cardinality(C) - 1
    BY <1>14, FS_RemoveElement
  <1>17. Cardinality(T) <= Cardinality(C \ {k}) /\ IsFiniteSet(T)
    BY <1>15, <1>16, FS_Subset
  <1>18. Cardinality(T) \in Nat
    BY <1>17, FS_CardinalityType
  <1> QED
    BY <1>13, <1>14, <1>16, <1>17, <1>18

\* A lane that is sent to the second level has a chunk, and finds room in it.
LEMMA RoomInFirst ==
  ASSUME NEW x, NEW C, NEW I, NEW R, NEW D, NEW e, Setting(x, C, I, R, D, e), NEW hd, NEW us \in [Level -> Nat],
         NEW ks, NEW vs, NEW L, LaneType(L), Core(x, C, I, R, D, e, hd, us, ks, vs, L),
         NEW k \in Cols, L[k].pc \in {"check", "reserve"}, L[k].lvl = 1, us[1] >= KeySize[1]
  PROVE  KeySize[1] < Cardinality(C)
  <1>1. LaneOK(x, I, hd, us, ks, vs, L, k)
    BY DEF Core
  <1>2. k \in C /\ ~ In(us, ks, L, 1, k) /\ L[k].my = Nil
    BY <1>1 DEF LaneOK, Setting, Owning
  <1>3. 1 \in Level
    BY DEF Level
  <1>4. Cardinality(Taken(us, 1)) < Cardinality(C)
    BY <1>2, <1>3, Room
  <1> QED
    BY <1>3, <1>4, TakenSize

LEMMA RoomInSecond ==
  ASSUME NEW x, NEW C, NEW I, NEW R, NEW D, NEW e, Setting(x, C, I, R, D, e), NEW hd, NEW us \in [Level -> Nat],
         NEW ks, NEW vs, NEW L, LaneType(L), Core(x, C, I, R, D, e, hd, us, ks, vs, L),
         NEW k \in C, ~ In(us, ks, L, 2, k), L[k].my = Nil,
         Cardinality(C) <= KeySize[2]
  PROVE  us[2] < KeySize[2]
  <1>1. 2 \in Level
    BY DEF Level
  <1>2. us[2] <= KeySize[2] /\ us[2] \in Nat
    BY <1>1 DEF Core, KeysOK
  <1>3. Cardinality(Taken(us, 2)) < Cardinality(C)
    BY <1>1, Room
  <1>4. Cardinality(Taken(us, 2)) = us[2]
    BY <1>1, <1>2, TakenSize
  <1>5. Cardinality(C) \in Nat /\ KeySize[2] \in Nat
    BY <1>1, Sizes, ColumnsFinite DEF Setting
  <1> QED
    BY <1>2, <1>3, <1>4, <1>5
-----------------------------------------------------------------------------
(***************************************************************************)
(* A lane takes a slot.                                                    *)
(***************************************************************************)
CountUp(us, l, us2) == us2 = [us EXCEPT ![l] = @ + 1]

LEMMA OneMoreTaken ==
  ASSUME NEW us \in [Level -> Nat], NEW l \in Level, us[l] < KeySize[l],
         NEW us2, CountUp(us, l, us2)
  PROVE  /\ us2 \in [Level -> Nat] /\ us2[l] = us[l] + 1 /\ \A v \in Level : v # l => us2[v] = us[v]
         /\ us[l] \in SlotsOf(l) /\ us[l] \notin Taken(us, l)
         /\ Taken(us2, l) = Taken(us, l) \union {us[l]}
         /\ \A v \in Level : v # l => Taken(us2, v) = Taken(us, v)
         /\ \A v \in Level : Taken(us, v) \subseteq Taken(us2, v)
  <1>1. us2 \in [Level -> Nat] /\ us2[l] = us[l] + 1 /\ \A v \in Level : v # l => us2[v] = us[v]
    BY DEF CountUp
  <1>2. us[l] \in Nat /\ us[l] \in SlotsOf(l)
    BY Sizes
  <1>3. us[l] \notin Taken(us, l)
    BY <1>2 DEF Taken
  <1>4. Taken(us2, l) = Taken(us, l) \union {us[l]}
    <2>1. \A s \in SlotsOf(l) : s \in Nat
      BY Sizes
    <2>2. \A s \in SlotsOf(l) : s < us2[l] <=> s < us[l] \/ s = us[l]
      BY <1>1, <1>2, <2>1
    <2> QED
      BY <1>2, <2>2 DEF Taken
  <1>5. \A v \in Level : v # l => Taken(us2, v) = Taken(us, v)
    BY <1>1 DEF Taken
  <1> QED
    BY <1>1, <1>2, <1>3, <1>4, <1>5

\* The slot is not old, nothing is in it and it is not in a list.
LEMMA ReserveSlots ==
  ASSUME NEW us \in [Level -> Nat], NEW l \in Level, us[l] < KeySize[l],
         NEW us2, CountUp(us, l, us2),
         NEW L, LaneType(L), NEW k \in Cols, NEW q, IsLane(q), NEW L2, LaneStep(L, k, q, L2),
         L[k].my = Nil, q.lvl = l, q.my = us[l], q.pc = "write",
         \A j \in Cols : L[j].my # Nil => L[j].my \in Taken(us, L[j].lvl)
  PROVE  /\ \A v \in Level : /\ Filled(us2, L2, v) = Filled(us, L, v)
                             /\ Old(us2, L2, v) = Old(us, L, v)
                             /\ Pushed(us2, L2, v) = Pushed(us, L, v)
         /\ \A j \in Cols : L[j].lvl = l => L[j].my # us[l]
  <1>1. L2[k] = q /\ \A j \in Cols : j # k => L2[j] = L[j]
    BY StepFacts
  <1>2. /\ us[l] \notin Taken(us, l) /\ Taken(us2, l) = Taken(us, l) \union {us[l]}
        /\ \A v \in Level : v # l => Taken(us2, v) = Taken(us, v)
        /\ us[l] \in SlotsOf(l)
    BY OneMoreTaken
  <1>3. \A j \in Cols : L[j].lvl = l => L[j].my # us[l]
    BY <1>2, Sizes
  <1>4. ASSUME NEW v \in Level, NEW s \in Taken(us, v)
        PROVE  /\ \A j \in Cols : (L2[j].lvl = v /\ L2[j].my = s) <=> (L[j].lvl = v /\ L[j].my = s)
               /\ \A j \in Cols : L2[j].lvl = v /\ L2[j].my = s => L2[j].pc = L[j].pc
    <2>1. s # Nil
      BY Sizes, SlotSets
    <2>2. ~ (L2[k].lvl = v /\ L2[k].my = s) /\ ~ (L[k].lvl = v /\ L[k].my = s)
      BY <1>1, <1>2, <2>1
    <2> QED
      BY <1>1, <2>2
  <1>5. \A v \in Level : \A s \in Taken(us, v) :
          /\ OwnerIn(L2, v, s, Unwritten) <=> OwnerIn(L, v, s, Unwritten)
          /\ OwnerIn(L2, v, s, Unpushed) <=> OwnerIn(L, v, s, Unpushed)
    BY <1>4 DEF OwnerIn
  <1>6. OwnerIn(L2, l, us[l], Unwritten) /\ OwnerIn(L2, l, us[l], Unpushed)
    BY <1>1 DEF OwnerIn, Unwritten, Unpushed
  <1>7. ASSUME NEW v \in Level
        PROVE  Filled(us2, L2, v) = Filled(us, L, v) /\ Pushed(us2, L2, v) = Pushed(us, L, v)
    <2>1. CASE v = l
      BY <1>2, <1>5, <1>6, <2>1 DEF Filled, Pushed
    <2>2. CASE v # l
      BY <1>2, <1>5, <2>2 DEF Filled, Pushed
    <2> QED
      BY <2>1, <2>2
  <1>8. ASSUME NEW v \in Level PROVE Old(us2, L2, v) = Old(us, L, v)
    <2>1. CASE v = l
      <3>1. L2[k].lvl = l /\ L2[k].my = us[l]
        BY <1>1
      <3>2. us[l] \notin Old(us2, L2, l)
        BY <3>1 DEF Old
      <3>3. \A s \in Taken(us, l) : s \in Old(us2, L2, l) <=> s \in Old(us, L, l)
        BY <1>2, <1>4 DEF Old
      <3>4. Old(us2, L2, l) \subseteq Taken(us2, l) /\ Old(us, L, l) \subseteq Taken(us, l)
        BY DEF Old
      <3>5. Old(us2, L2, l) = Old(us, L, l)
        <4>1. Taken(us2, l) = Taken(us, l) \union {us[l]}
          BY <1>2
        <4> HIDE DEF Old, Taken
        <4> QED
          BY <3>2, <3>3, <3>4, <4>1
      <3> QED
        BY <2>1, <3>5
    <2>2. CASE v # l
      <3>1. Taken(us2, v) = Taken(us, v)
        BY <1>2, <2>2
      <3> QED
        BY <1>4, <3>1 DEF Old
    <2> QED
      BY <2>1, <2>2
  <1> QED
    BY <1>3, <1>7, <1>8

LEMMA CoreReserve ==
  ASSUME NEW x, NEW C, NEW I, NEW R, NEW D, NEW e, NEW hd, NEW us \in [Level -> Nat], NEW us2,
         NEW ks, NEW vs, NEW L, LaneType(L), NEW k \in Cols, NEW q, IsLane(q), NEW L2, LaneStep(L, k, q, L2),
         x # "multicore", Core(x, C, I, R, D, e, hd, us, ks, vs, L),
         NEW l \in Level, us[l] < KeySize[l], CountUp(us, l, us2),
         L[k].pc = "reserve", L[k].lvl = l, q.lvl = l, q.my = us[l], q.pc = "write"
  PROVE  Core(x, C, I, R, D, e, hd, us2, ks, vs, L2)
  <1>1. L2[k] = q /\ \A j \in Cols : j # k => L2[j] = L[j]
    BY StepFacts
  <1>2. \A j \in Cols : LaneOK(x, I, hd, us, ks, vs, L, j)
    BY DEF Core
  <1>3. L[k].my = Nil
    BY <1>2 DEF LaneOK, Owning
  <1>4. \A j \in Cols : L[j].my # Nil => L[j].my \in Taken(us, L[j].lvl)
    BY <1>2 DEF LaneOK
  <1>5. /\ us2 \in [Level -> Nat] /\ us2[l] = us[l] + 1 /\ \A v \in Level : v # l => us2[v] = us[v]
        /\ us[l] \in SlotsOf(l) /\ Taken(us2, l) = Taken(us, l) \union {us[l]}
        /\ \A v \in Level : Taken(us, v) \subseteq Taken(us2, v)
    BY OneMoreTaken
  <1>6. /\ \A v \in Level : Filled(us2, L2, v) = Filled(us, L, v) /\ Old(us2, L2, v) = Old(us, L, v)
        /\ \A j \in Cols : L[j].lvl = l => L[j].my # us[l]
    BY <1>3, <1>4, ReserveSlots
  <1>7. \A v \in Level : \A j : In(us2, ks, L2, v, j) <=> In(us, ks, L, v, j)
    BY <1>6 DEF In
  <1>8. 1 \in Level /\ 2 \in Level /\ (l = 1 \/ l = 2)
    BY DEF Level
  <1>9. /\ us[1] \in Nat /\ us[2] \in Nat /\ KeySize[1] \in Nat /\ KeySize[2] \in Nat
        /\ us2[1] \in Nat /\ us2[2] \in Nat
    BY <1>5, <1>8, Sizes
  <1>10. us[1] <= us2[1]
    BY <1>5, <1>8, <1>9
  <1>11. KeysOK(x, C, hd, us, ks, L)
    BY DEF Core
  <1>12. KeysOK(x, C, hd, us2, ks, L2)
    <2>1. \A v \in Level : \A s \in Filled(us2, L2, v) : ks[v][s] \in C
      BY <1>6, <1>11 DEF KeysOK
    <2>2. \A v, w \in Level : \A s \in Filled(us2, L2, v), p \in Filled(us2, L2, w) :
            ks[v][s] = ks[w][p] => v = w /\ s = p
      BY <1>6, <1>11 DEF KeysOK
    <2>3. \A s \in SlotsOf(2) : s >= us2[2] => s >= us[2]
      <3>1. us[2] <= us2[2]
        BY <1>5, <1>8, <1>9
      <3>2. \A s \in SlotsOf(2) : s \in Nat
        BY <1>8, Sizes
      <3> QED
        BY <1>9, <3>1, <3>2
    <2>4. us2[2] <= KeySize[2]
      BY <1>5, <1>8, <1>9, <1>11 DEF KeysOK
    <2>5. us2[2] > 0 => us2[1] >= KeySize[1] /\ hd
      <3>1. CASE l = 1
        <4>1. us2[2] = us[2]
          BY <1>5, <1>8, <3>1
        <4> QED
          BY <1>9, <1>10, <1>11, <4>1 DEF KeysOK
      <3>2. CASE l = 2
        <4>1. us[1] >= KeySize[1] /\ hd
          BY <1>2, <3>2 DEF LaneOK
        <4> QED
          BY <1>9, <1>10, <4>1
      <3> QED
        BY <1>8, <3>1, <3>2
    <2>6. \A s \in SlotsOf(2) : s >= us2[2] => ks[2][s] = Nil
      BY <1>11, <2>3 DEF KeysOK
    <2> QED
      BY <2>1, <2>2, <2>4, <2>5, <2>6 DEF KeysOK
  <1>13. LaneOK(x, I, hd, us2, ks, vs, L2, k)
    <2>1. ~ In(us, ks, L, 1, k) /\ ~ In(us, ks, L, 2, k)
      <3>1. CASE l = 2
        BY <1>2, <3>1 DEF LaneOK
      <3>2. CASE l = 1
        <4>1. us[2] = 0
          BY <1>9, <1>11, <3>2 DEF KeysOK
        <4>2. Filled(us, L, 2) = {}
          <5>1. \A s \in Filled(us, L, 2) : s \in Nat /\ s < us[2]
            BY <1>8, Sizes, SlotSets
          <5> QED
            BY <4>1, <5>1
        <4> QED
          BY <1>2, <3>2, <4>2 DEF LaneOK, In
      <3> QED
        BY <1>8, <3>1, <3>2
    <2>2. L2[k].my \in Taken(us2, L2[k].lvl) /\ L2[k].my # Nil
      BY <1>1, <1>5, Sizes
    <2>3. l = 2 => hd /\ us2[1] >= KeySize[1]
      BY <1>2, <1>9, <1>10 DEF LaneOK
    <2>4. k \in I
      BY <1>2 DEF LaneOK
    <2>5. ~ In(us2, ks, L2, 1, k) /\ ~ In(us2, ks, L2, 2, k)
      BY <1>7, <1>8, <2>1
    <2>6. L2[k].pc = "write" /\ L2[k].lvl = l
      BY <1>1
    <2> QED
      BY <1>8, <2>2, <2>3, <2>4, <2>5, <2>6 DEF LaneOK, Owning
  <1>14. ASSUME NEW j \in Cols, j # k PROVE LaneOK(x, I, hd, us2, ks, vs, L2, j)
    <2>1. L2[j] = L[j] /\ L[j].lvl \in Level
      BY <1>1, <1>14, LaneFields
    <2>2. LaneOK(x, I, hd, us, ks, vs, L, j)
      BY <1>2
    <2>3. L[j].pc = "store" => L[j].at \in Old(us2, L2, L[j].lvl)
      BY <1>6, <2>1, <2>2 DEF LaneOK
    <2>4. \A v \in Level : Taken(us, v) \subseteq Taken(us2, v)
      BY <1>5
    <2>5. \A v \in Level : In(us2, ks, L2, v, j) => In(us, ks, L, v, j)
      BY <1>7
    <2> QED
      BY <1>5, <1>10, <2>1, <2>2, <2>3, <2>4, <2>5, LaneFrame
  <1>15. OneOwner(L2)
    <2>1. OneOwner(L)
      BY DEF Core
    <2>2. \A j \in Cols : j # k /\ L2[j].lvl = l => L2[j].my # us[l]
      BY <1>1, <1>6
    <2> QED
      BY <1>1, <2>1, <2>2 DEF OneOwner
  <1>16. SumsOK(R, D, e, us2, ks, vs, L2)
    <2>1. SumsOK(R, D, e, us, ks, vs, L)
      BY DEF Core
    <2>2. \A j : j # k => Done(R, D, e, L2, j) = Done(R, D, e, L, j)
      <3> SUFFICES ASSUME NEW j, j # k PROVE Done(R, D, e, L2, j) = Done(R, D, e, L, j)
        OBVIOUS
      <3>1. L2[j] = L[j]
        BY DEF LaneStep, LaneType
      <3> QED
        BY <3>1 DEF Done
    <2>3. Done(R, D, e, L2, k) = Done(R, D, e, L, k)
      <3>1. L2[k].pc \in After <=> L[k].pc \in After
        BY <1>1 DEF After
      <3> QED
        BY <3>1 DEF Done
    <2>4. \A j : Done(R, D, e, L2, j) = Done(R, D, e, L, j)
      BY <2>2, <2>3
    <2> QED
      BY <1>6, <1>7, <1>8, <2>1, <2>4 DEF SumsOK
  <1> QED
    BY <1>12, <1>13, <1>14, <1>15, <1>16 DEF Core
-----------------------------------------------------------------------------
\* A write of v to entry s of array l.
WriteIn(f, l, s, v, f2) ==
  \A u \in Level : f2[u] = IF u = l THEN [f[u] EXCEPT ![s] = v] ELSE f[u]

SlotArrays(f) == \A l \in Level : DOMAIN f[l] = SlotsOf(l)

LEMMA Written ==
  ASSUME NEW f, SlotArrays(f), NEW l \in Level, NEW s, NEW v, NEW f2, WriteIn(f, l, s, v, f2)
  PROVE  /\ s \in SlotsOf(l) => f2[l][s] = v
         /\ \A u \in Level : \A p \in SlotsOf(u) : u # l \/ p # s => f2[u][p] = f[u][p]
         /\ SlotArrays(f2)
  <1>1. f2[l] = [f[l] EXCEPT ![s] = v] /\ \A u \in Level : u # l => f2[u] = f[u]
    BY DEF WriteIn
  <1>2. \A u \in Level : \A p \in SlotsOf(u) : u # l \/ p # s => f2[u][p] = f[u][p]
    <2> TAKE u \in Level
    <2>1. CASE u = l
      BY <1>1, <2>1 DEF SlotArrays
    <2>2. CASE u # l
      BY <1>1, <2>2
    <2> QED
      BY <2>1, <2>2
  <1>3. SlotArrays(f2)
    <2> SUFFICES ASSUME NEW u \in Level PROVE DOMAIN f2[u] = SlotsOf(u)
      BY DEF SlotArrays
    <2>1. CASE u = l
      BY <1>1, <2>1 DEF SlotArrays
    <2>2. CASE u # l
      BY <1>1, <2>2 DEF SlotArrays
    <2> QED
      BY <2>1, <2>2
  <1> QED
    BY <1>1, <1>2, <1>3 DEF SlotArrays

LEMMA OneTotal ==
  ASSUME NEW a, Val[a] \in Int
  PROVE  Total(Val, {a}) = Val[a]
  <1>1. IsFiniteSet({a}) /\ {a} \ {a} = {} /\ a \in {a} /\ \A d \in {a} : Val[d] \in Int
    BY FS_Singleton
  <1>2. Total(Val, {a}) = Val[a] + Total(Val, {a} \ {a})
    BY <1>1, TotalInsert
  <1>3. Total(Val, {a} \ {a}) = 0
    BY <1>1, TotalEmpty
  <1> QED
    BY <1>2, <1>3

LEMMA MoreTotal ==
  ASSUME NEW S, IsFiniteSet(S), NEW a, a \notin S, \A d \in S \union {a} : Val[d] \in Int
  PROVE  Total(Val, S \union {a}) = Total(Val, S) + Val[a] /\ Total(Val, S) \in Int
  <1>1. PICK T : T = S \union {a}
    OBVIOUS
  <1>2. IsFiniteSet(T)
    BY <1>1, FS_AddElement
  <1>3. T \ {a} = S /\ a \in T /\ \A d \in T : Val[d] \in Int
    BY <1>1
  <1>4. Total(Val, T) = Val[a] + Total(Val, T \ {a}) /\ Total(Val, T \ {a}) \in Int
    BY <1>2, <1>3, TotalInsert
  <1>5. Val[a] \in Int
    BY <1>1, <1>3
  <1>6. Total(Val, T) = Val[a] + Total(Val, S) /\ Total(Val, S) \in Int
    BY <1>3, <1>4
  <1>7. Val[a] + Total(Val, S) = Total(Val, S) + Val[a]
    BY <1>5, <1>6
  <1> QED
    BY <1>1, <1>6, <1>7

\* The products that are in the slots are of entries with values, finitely many.
LEMMA DoneFacts ==
  ASSUME NEW x, NEW C, NEW I, NEW R, NEW D, NEW e, Setting(x, C, I, R, D, e), NEW L, NEW k \in I
  PROVE  /\ Val[e] \in Int
         /\ L[k].pc \notin After => e \notin Done(R, D, e, L, k)
         /\ IsFiniteSet(Done(R, D, e, L, k))
         /\ \A d \in Done(R, D, e, L, k) : Val[d] \in Int
  <1>1. e \in DOMAIN R /\ DOMAIN R \subseteq DOMAIN Val /\ D \subseteq DOMAIN R /\ e \notin D
    BY DEF Setting
  <1>2. \A d \in DOMAIN R : Val[d] \in Int
    BY <1>1, ValAssumption
  <1>3. Done(R, D, e, L, k) \in SUBSET (DOMAIN R)
    BY <1>1 DEF Done
  <1>4. IsFiniteSet(DOMAIN R)
    <2>1. DOMAIN R = 1 .. Len(R) /\ 1 \in Int /\ Len(R) \in Int
      BY DEF Setting
    <2> QED
      BY <2>1, FS_Interval
  <1>5. IsFiniteSet(Done(R, D, e, L, k))
    BY <1>3, <1>4, FS_Subset
  <1>6. L[k].pc \notin After => e \notin Done(R, D, e, L, k)
    BY <1>1 DEF Done
  <1> QED
    BY <1>1, <1>2, <1>3, <1>5, <1>6

\* what a step of lane k that counts its product makes of the sums
LEMMA DoneNext ==
  ASSUME NEW R, NEW D, NEW e, NEW L, LaneType(L), NEW k \in Cols, NEW q, NEW L2, LaneStep(L, k, q, L2),
         L[k].pc \notin After, q.pc \in After
  PROVE  /\ Done(R, D, e, L2, k) = Done(R, D, e, L, k) \union {e}
         /\ \A j : j # k => Done(R, D, e, L2, j) = Done(R, D, e, L, j)
  <1>1. L2[k] = q
    BY DEF LaneStep, LaneType
  <1>2. \A j : j # k => L2[j] = L[j]
    BY DEF LaneStep, LaneType
  <1> QED
    BY <1>1, <1>2 DEF Done

-----------------------------------------------------------------------------
(***************************************************************************)
(* A lane writes its slot.                                                 *)
(***************************************************************************)
LEMMA WriteSlots ==
  ASSUME NEW us, NEW l \in Level,
         NEW L, LaneType(L), OneOwner(L), NEW k \in Cols, NEW q, IsLane(q), NEW L2, LaneStep(L, k, q, L2),
         L[k].lvl = l, L[k].my \in Taken(us, l), L[k].pc = "write",
         q.lvl = l, q.my = L[k].my, q.pc \in {"link", "exchange"}
  PROVE  /\ Filled(us, L2, l) = Filled(us, L, l) \union {L[k].my} /\ L[k].my \notin Filled(us, L, l)
         /\ \A v \in Level : v # l => Filled(us, L2, v) = Filled(us, L, v)
         /\ \A v \in Level : Old(us, L2, v) = Old(us, L, v) /\ Pushed(us, L2, v) = Pushed(us, L, v)
         /\ L[k].my \notin Old(us, L, l) /\ L[k].my \notin Pushed(us, L, l)
  <1>1. L2[k] = q /\ \A j \in Cols : j # k => L2[j] = L[j]
    BY StepFacts
  <1>2. L[k].my # Nil
    BY Sizes, SlotSets
  <1>3. \A j \in Cols : L2[j].lvl = L[j].lvl /\ L2[j].my = L[j].my
    BY <1>1
  <1>4. \A v \in Level : \A s \in Taken(us, v) :
          v # l \/ s # L[k].my => (OwnerIn(L2, v, s, Unwritten) <=> OwnerIn(L, v, s, Unwritten))
    BY <1>1 DEF OwnerIn
  <1>5. OwnerIn(L, l, L[k].my, Unwritten) /\ OwnerIn(L, l, L[k].my, Unpushed)
    BY DEF OwnerIn, Unwritten, Unpushed
  <1>6. ~ OwnerIn(L2, l, L[k].my, Unwritten)
    <2>1. SUFFICES ASSUME NEW j \in Cols, L2[j].lvl = l, L2[j].my = L[k].my, L2[j].pc = "write"
                   PROVE  FALSE
      BY DEF OwnerIn, Unwritten
    <2>2. j = k
      BY <1>2, <1>3, <2>1 DEF OneOwner
    <2> QED
      BY <1>1, <2>1, <2>2
  <1>7. \A j \in Cols : L2[j].pc \in Unpushed <=> L[j].pc \in Unpushed
    BY <1>1 DEF Unpushed
  <1>8. \A v \in Level : Old(us, L2, v) = Old(us, L, v)
    BY <1>3 DEF Old
  <1>9. \A v \in Level : Pushed(us, L2, v) = Pushed(us, L, v)
    BY <1>3, <1>7 DEF Pushed, OwnerIn
  <1>10. \A v \in Level : v # l => Filled(us, L2, v) = Filled(us, L, v)
    BY <1>4 DEF Filled
  <1>11. Filled(us, L2, l) = Filled(us, L, l) \union {L[k].my} /\ L[k].my \notin Filled(us, L, l)
    BY <1>4, <1>5, <1>6 DEF Filled
  <1>12. L[k].my \notin Old(us, L, l) /\ L[k].my \notin Pushed(us, L, l)
    BY <1>5 DEF Old, Pushed
  <1> QED
    BY <1>8, <1>9, <1>10, <1>11, <1>12

LEMMA CoreWrite ==
  ASSUME NEW x, NEW C, NEW I, NEW R, NEW D, NEW e, Setting(x, C, I, R, D, e), NEW hd, NEW us \in [Level -> Nat],
         NEW ks, NEW vs, NEW ks2, NEW vs2, SlotArrays(ks), SlotArrays(vs),
         NEW L, LaneType(L), NEW k \in Cols, NEW q, IsLane(q), NEW L2, LaneStep(L, k, q, L2),
         x # "multicore", Core(x, C, I, R, D, e, hd, us, ks, vs, L),
         NEW l \in Level, L[k].lvl = l, L[k].pc = "write",
         q.lvl = l, q.my = L[k].my, q.pc \in {"link", "exchange"}, q.pc = "link" => x = "independent",
         WriteIn(ks, l, L[k].my, k, ks2), WriteIn(vs, l, L[k].my, Val[e], vs2)
  PROVE  Core(x, C, I, R, D, e, hd, us, ks2, vs2, L2)
  <1>1. L2[k] = q /\ \A j \in Cols : j # k => L2[j] = L[j]
    BY StepFacts
  <1>2. \A j \in Cols : LaneOK(x, I, hd, us, ks, vs, L, j)
    BY DEF Core
  <1>3. PICK m : m = L[k].my
    OBVIOUS
  <1>4. m \in Taken(us, l) /\ m # Nil /\ k \in I /\ k \in C
    BY <1>2, <1>3 DEF LaneOK, Owning, Setting
  <1>5. 1 \in Level /\ 2 \in Level /\ (l = 1 \/ l = 2)
    BY DEF Level
  <1>6. \A v \in Level : ~ In(us, ks, L, v, k)
    BY <1>2 DEF LaneOK, Level
  <1>7. OneOwner(L) /\ KeysOK(x, C, hd, us, ks, L) /\ SumsOK(R, D, e, us, ks, vs, L)
    BY DEF Core
  <1>8. /\ Filled(us, L2, l) = Filled(us, L, l) \union {m} /\ m \notin Filled(us, L, l)
        /\ \A v \in Level : v # l => Filled(us, L2, v) = Filled(us, L, v)
        /\ \A v \in Level : Old(us, L2, v) = Old(us, L, v)
        /\ m \notin Old(us, L, l)
    BY <1>3, <1>4, <1>7, WriteSlots
  <1>9. /\ ks2[l][m] = k /\ vs2[l][m] = Val[e]
        /\ \A v \in Level : \A p \in SlotsOf(v) : v # l \/ p # m => ks2[v][p] = ks[v][p] /\ vs2[v][p] = vs[v][p]
    <2>1. m \in SlotsOf(l)
      BY <1>4, SlotSets
    <2>2. WriteIn(ks, l, m, k, ks2) /\ WriteIn(vs, l, m, Val[e], vs2)
      BY <1>3
    <2>3. ks2[l][m] = k /\ \A v \in Level : \A p \in SlotsOf(v) : v # l \/ p # m => ks2[v][p] = ks[v][p]
      BY <2>1, <2>2, Written
    <2>4. vs2[l][m] = Val[e] /\ \A v \in Level : \A p \in SlotsOf(v) : v # l \/ p # m => vs2[v][p] = vs[v][p]
      BY <2>1, <2>2, Written
    <2> QED
      BY <2>3, <2>4
  <1>10. \A v \in Level : \A p \in Filled(us, L, v) :
           /\ p \in SlotsOf(v) /\ p \in Filled(us, L2, v) /\ (v # l \/ p # m)
           /\ ks2[v][p] = ks[v][p] /\ vs2[v][p] = vs[v][p] /\ ks[v][p] # k
    <2> TAKE v \in Level
    <2> TAKE p \in Filled(us, L, v)
    <2>1. p \in SlotsOf(v)
      BY SlotSets
    <2>2. v # l \/ p # m
      BY <1>8
    <2>3. p \in Filled(us, L2, v)
      BY <1>8
    <2>4. ks[v][p] # k
      BY <1>6 DEF In
    <2> QED
      BY <1>9, <2>1, <2>2, <2>3, <2>4
  <1>11. \A v \in Level : \A p \in Filled(us, L2, v) : p \in Filled(us, L, v) \/ (v = l /\ p = m)
    BY <1>8
  <1>12. \A v \in Level : \A j : In(us, ks2, L2, v, j) <=> In(us, ks, L, v, j) \/ (v = l /\ j = k)
    <2> TAKE v \in Level
    <2> TAKE j
    <2>1. In(us, ks2, L2, v, j) => In(us, ks, L, v, j) \/ (v = l /\ j = k)
      BY <1>9, <1>10, <1>11 DEF In
    <2>2. In(us, ks, L, v, j) => In(us, ks2, L2, v, j)
      BY <1>10 DEF In
    <2>3. v = l /\ j = k => In(us, ks2, L2, v, j)
      BY <1>8, <1>9 DEF In
    <2> QED
      BY <2>1, <2>2, <2>3
  <1>13. KeysOK(x, C, hd, us, ks2, L2)
    <2>1. \A v \in Level : \A s \in Filled(us, L2, v) : ks2[v][s] \in C
      BY <1>4, <1>7, <1>9, <1>10, <1>11 DEF KeysOK
    <2>2. ASSUME NEW v \in Level, NEW w \in Level, NEW s \in Filled(us, L2, v), NEW p \in Filled(us, L2, w),
                 ks2[v][s] = ks2[w][p]
          PROVE  v = w /\ s = p
      <3>1. CASE s \in Filled(us, L, v) /\ p \in Filled(us, L, w)
        <4>1. ks[v][s] = ks[w][p]
          BY <1>10, <2>2, <3>1
        <4> QED
          BY <1>7, <3>1, <4>1 DEF KeysOK
      <3>2. CASE s \in Filled(us, L, v) /\ ~ p \in Filled(us, L, w)
        <4>1. w = l /\ p = m
          BY <1>11, <3>2
        <4> QED
          BY <1>9, <1>10, <2>2, <3>2, <4>1
      <3>3. CASE ~ s \in Filled(us, L, v) /\ p \in Filled(us, L, w)
        <4>1. v = l /\ s = m
          BY <1>11, <3>3
        <4> QED
          BY <1>9, <1>10, <2>2, <3>3, <4>1
      <3>4. CASE ~ s \in Filled(us, L, v) /\ ~ p \in Filled(us, L, w)
        BY <1>11, <3>4
      <3> QED
        BY <3>1, <3>2, <3>3, <3>4
    <2>3. \A s \in SlotsOf(2) : s >= us[2] => ks2[2][s] = Nil
      <3> SUFFICES ASSUME NEW s \in SlotsOf(2), s >= us[2] PROVE ks2[2][s] = Nil
        OBVIOUS
      <3>1. 2 # l \/ s # m
        <4>1. l = 2 => m < us[2]
          BY <1>4, SlotSets
        <4>2. s \in Nat /\ us[2] \in Nat
          BY <1>5, Sizes
        <4> QED
          BY <4>1, <4>2
      <3>2. ks2[2][s] = ks[2][s]
        BY <1>5, <1>9, <3>1
      <3> QED
        BY <1>7, <3>2 DEF KeysOK
    <2> QED
      BY <1>7, <2>1, <2>2, <2>3 DEF KeysOK
  <1>14. LaneOK(x, I, hd, us, ks2, vs2, L2, k)
    <2>1. L2[k].pc \in {"link", "exchange"} /\ L2[k].lvl = l /\ L2[k].my = m
      BY <1>1, <1>3
    <2>2. l = 2 => hd /\ us[1] >= KeySize[1]
      BY <1>2 DEF LaneOK
    <2>3. l = 2 => ~ In(us, ks2, L2, 1, k)
      BY <1>5, <1>6, <1>12
    <2>4. L2[k].pc = "link" => x = "independent"
      BY <1>1
    <2> QED
      BY <1>4, <1>9, <2>1, <2>2, <2>3, <2>4 DEF LaneOK, Owning
  <1>15. ASSUME NEW j \in Cols, j # k PROVE LaneOK(x, I, hd, us, ks2, vs2, L2, j)
    <2>1. L2[j] = L[j] /\ L[j].lvl \in Level
      BY <1>1, <1>15, LaneFields
    <2>2. LaneOK(x, I, hd, us, ks, vs, L, j)
      BY <1>2
    <2>3. L[j].pc = "store" => /\ L[j].at \in Old(us, L2, L[j].lvl)
                               /\ ks2[L[j].lvl][L[j].at] = ks[L[j].lvl][L[j].at]
                               /\ vs2[L[j].lvl][L[j].at] = vs[L[j].lvl][L[j].at]
      <3>1. ASSUME L[j].pc = "store"
            PROVE  L[j].at \in Old(us, L, L[j].lvl)
        BY <2>2, <3>1 DEF LaneOK
      <3>2. ASSUME L[j].pc = "store"
            PROVE  L[j].at \in SlotsOf(L[j].lvl) /\ (L[j].lvl # l \/ L[j].at # m)
        BY <1>8, <2>1, <3>1, <3>2, SlotSets
      <3> QED
        BY <1>8, <1>9, <2>1, <3>1, <3>2
    <2>4. L[j].my # Nil => ks2[L[j].lvl][L[j].my] = ks[L[j].lvl][L[j].my]
      <3>1. ASSUME L[j].my # Nil
            PROVE  L[j].my \in SlotsOf(L[j].lvl) /\ (L[j].lvl # l \/ L[j].my # m)
        <4>1. L[j].my \in Taken(us, L[j].lvl)
          BY <2>2, <3>1 DEF LaneOK
        <4>2. L[j].lvl # l \/ L[j].my # m
          BY <1>3, <1>7, <1>15, <3>1 DEF OneOwner
        <4> QED
          BY <2>1, <4>1, <4>2, SlotSets
      <3> QED
        BY <1>9, <2>1, <3>1
    <2>5. \A v \in Level : In(us, ks2, L2, v, j) => In(us, ks, L, v, j)
      BY <1>12, <1>15
    <2>6. us[1] <= us[1] /\ \A v \in Level : Taken(us, v) \subseteq Taken(us, v)
      BY <1>5
    <2> QED
      BY <2>1, <2>2, <2>3, <2>4, <2>5, <2>6, LaneFrame
  <1>16. OneOwner(L2)
    <2>1. \A j \in Cols : L2[j].my = L[j].my /\ L2[j].lvl = L[j].lvl
      BY <1>1
    <2> QED
      BY <1>7, <2>1 DEF OneOwner
  <1>17. SumsOK(R, D, e, us, ks2, vs2, L2)
    <2>1. L[k].pc \notin After /\ q.pc \in After
      BY DEF After
    <2>2. /\ Done(R, D, e, L2, k) = Done(R, D, e, L, k) \union {e}
          /\ \A j : j # k => Done(R, D, e, L2, j) = Done(R, D, e, L, j)
      BY <2>1, DoneNext
    <2>3. Done(R, D, e, L, k) = {}
      BY <1>5, <1>6, <1>7 DEF SumsOK
    <2>4. Total(Val, Done(R, D, e, L2, k)) = Val[e]
      <3>1. Val[e] \in Int
        BY <1>4, DoneFacts
      <3>2. Done(R, D, e, L2, k) = {e}
        BY <2>2, <2>3
      <3> QED
        BY <3>1, <3>2, OneTotal
    <2>5. ASSUME NEW v \in Level, NEW s \in Filled(us, L2, v)
          PROVE  vs2[v][s] = Total(Val, Done(R, D, e, L2, ks2[v][s]))
      <3>1. CASE s \in Filled(us, L, v)
        <4>1. ks2[v][s] = ks[v][s] /\ vs2[v][s] = vs[v][s] /\ ks[v][s] # k
          BY <1>10, <3>1
        <4>2. vs[v][s] = Total(Val, Done(R, D, e, L, ks[v][s]))
          BY <1>7, <3>1 DEF SumsOK
        <4> QED
          BY <2>2, <4>1, <4>2
      <3>2. CASE v = l /\ s = m
        BY <1>9, <2>4, <3>2
      <3> QED
        BY <1>11, <3>1, <3>2
    <2>6. ASSUME NEW j \in Cols, Done(R, D, e, L2, j) # {}
          PROVE  In(us, ks2, L2, 1, j) \/ In(us, ks2, L2, 2, j)
      <3>1. CASE j = k
        BY <1>5, <1>12, <3>1
      <3>2. CASE j # k
        <4>1. Done(R, D, e, L, j) # {}
          BY <2>2, <2>6, <3>2
        <4>2. In(us, ks, L, 1, j) \/ In(us, ks, L, 2, j)
          BY <1>7, <4>1 DEF SumsOK
        <4> QED
          BY <1>5, <1>12, <4>2
      <3> QED
        BY <3>1, <3>2
    <2> QED
      BY <2>5, <2>6 DEF SumsOK
  <1> QED
    BY <1>13, <1>14, <1>15, <1>16, <1>17 DEF Core

-----------------------------------------------------------------------------
(***************************************************************************)
(* A lane adds its product in slot a, which has its column.  No other lane *)
(* inserts it.                                                             *)
(***************************************************************************)
LEMMA CoreSum ==
  ASSUME NEW x, NEW C, NEW I, NEW R, NEW D, NEW e, Setting(x, C, I, R, D, e), NEW hd, NEW us \in [Level -> Nat],
         NEW ks, NEW vs, NEW vs2, SlotArrays(vs),
         NEW L, LaneType(L), NEW k \in Cols, NEW q, IsLane(q), NEW L2, LaneStep(L, k, q, L2),
         Core(x, C, I, R, D, e, hd, us, ks, vs, L), k \in I, L[k].my = Nil, L[k].pc \notin After \union Unwritten,
         q.lvl = L[k].lvl, q.my = L[k].my, q.pc = "done",
         NEW l \in Level, NEW a \in Old(us, L, l), ks[l][a] = k, WriteIn(vs, l, a, vs[l][a] + Val[e], vs2)
  PROVE  Core(x, C, I, R, D, e, hd, us, ks, vs2, L2)
  <1>1. L2[k] = q /\ \A j \in Cols : j # k => L2[j] = L[j]
    BY StepFacts
  <1>2. \A j \in Cols : LaneOK(x, I, hd, us, ks, vs, L, j)
    BY DEF Core
  <1>4. a \in Filled(us, L, l) /\ a \in SlotsOf(l) /\ ks[l][a] = k
    BY SlotSets
  <1>5. 1 \in Level /\ 2 \in Level
    BY DEF Level
  <1>6. OneOwner(L) /\ KeysOK(x, C, hd, us, ks, L) /\ SumsOK(R, D, e, us, ks, vs, L)
    BY DEF Core
  <1>7. /\ vs2[l][a] = vs[l][a] + Val[e]
        /\ \A v \in Level : \A p \in SlotsOf(v) : v # l \/ p # a => vs2[v][p] = vs[v][p]
    BY <1>4, Written
  <1>8. \A v \in Level : Filled(us, L2, v) = Filled(us, L, v) /\ Old(us, L2, v) = Old(us, L, v)
    <2> TAKE v \in Level
    <2>1. (q.pc \in Unwritten <=> L[k].pc \in Unwritten) /\ Taken(us, v) = Taken(us, v)
      BY DEF Unwritten
    <2> QED
      BY <2>1, SameSlots
  <1>9. \A v \in Level : \A j : In(us, ks, L2, v, j) <=> In(us, ks, L, v, j)
    BY <1>8 DEF In
  <1>10. KeysOK(x, C, hd, us, ks, L2)
    <2>1. \A v \in Level : \A s \in Filled(us, L2, v) : ks[v][s] \in C
      BY <1>6, <1>8 DEF KeysOK
    <2>2. \A v, w \in Level : \A s \in Filled(us, L2, v), p \in Filled(us, L2, w) :
            ks[v][s] = ks[w][p] => v = w /\ s = p
      BY <1>6, <1>8 DEF KeysOK
    <2> QED
      BY <1>6, <2>1, <2>2 DEF KeysOK
  <1>11. LaneOK(x, I, hd, us, ks, vs2, L2, k)
    <2>1. L2[k].pc = "done" /\ L2[k].lvl = L[k].lvl /\ L2[k].my = Nil
      BY <1>1
    <2>2. L[k].lvl = 2 => hd /\ us[1] >= KeySize[1] /\ ~ In(us, ks, L2, 1, k)
      BY <1>2, <1>5, <1>9 DEF LaneOK
    <2>3. x = "multicore" => L[k].lvl = 1
      BY <1>2 DEF LaneOK
    <2> QED
      BY <2>1, <2>2, <2>3 DEF LaneOK, Owning
  <1>12. ASSUME NEW j \in Cols, j # k PROVE LaneOK(x, I, hd, us, ks, vs2, L2, j)
    <2>1. L2[j] = L[j] /\ L[j].lvl \in Level
      BY <1>1, <1>12, LaneFields
    <2>2. LaneOK(x, I, hd, us, ks, vs, L, j)
      BY <1>2
    <2>3. L[j].pc = "store" => /\ L[j].at \in Old(us, L2, L[j].lvl)
                               /\ ks[L[j].lvl][L[j].at] = ks[L[j].lvl][L[j].at]
                               /\ vs2[L[j].lvl][L[j].at] = vs[L[j].lvl][L[j].at]
      <3> SUFFICES ASSUME L[j].pc = "store"
                   PROVE  /\ L[j].at \in Old(us, L2, L[j].lvl)
                          /\ vs2[L[j].lvl][L[j].at] = vs[L[j].lvl][L[j].at]
        OBVIOUS
      <3>1. L[j].at \in Old(us, L, L[j].lvl) /\ ks[L[j].lvl][L[j].at] = j
        BY <2>2 DEF LaneOK
      <3>2. L[j].at \in SlotsOf(L[j].lvl)
        BY <2>1, <3>1, SlotSets
      <3>3. L[j].lvl # l \/ L[j].at # a
        BY <1>4, <1>12, <3>1
      <3> QED
        BY <1>7, <1>8, <2>1, <3>1, <3>2, <3>3
    <2>4. \A v \in Level : In(us, ks, L2, v, j) => In(us, ks, L, v, j)
      BY <1>9
    <2>5. us[1] <= us[1] /\ \A v \in Level : Taken(us, v) \subseteq Taken(us, v)
      BY <1>5
    <2>6. L[j].my # Nil => ks[L[j].lvl][L[j].my] = ks[L[j].lvl][L[j].my]
      OBVIOUS
    <2> QED
      BY <2>1, <2>2, <2>3, <2>4, <2>5, <2>6, LaneFrame
  <1>13. OneOwner(L2)
    <2>1. \A j \in Cols : L2[j].my = L[j].my /\ L2[j].lvl = L[j].lvl
      BY <1>1
    <2> QED
      BY <1>6, <2>1 DEF OneOwner
  <1>14. SumsOK(R, D, e, us, ks, vs2, L2)
    <2>1. L[k].pc \notin After /\ q.pc \in After
      BY DEF After
    <2>2. /\ Done(R, D, e, L2, k) = Done(R, D, e, L, k) \union {e}
          /\ \A j : j # k => Done(R, D, e, L2, j) = Done(R, D, e, L, j)
      BY <2>1, DoneNext
    <2>3. vs2[l][a] = Total(Val, Done(R, D, e, L2, k))
      <3>1. PICK S : S = Done(R, D, e, L, k)
        OBVIOUS
      <3>2. IsFiniteSet(S) /\ e \notin S /\ Val[e] \in Int /\ \A d \in S : Val[d] \in Int
        BY <1>4, <2>1, <3>1, DoneFacts
      <3>3. \A d \in S \union {e} : Val[d] \in Int
        BY <3>2
      <3>4. Total(Val, S \union {e}) = Total(Val, S) + Val[e]
        BY <3>2, <3>3, MoreTotal
      <3>5. vs[l][a] = Total(Val, S)
        BY <1>4, <1>6, <3>1 DEF SumsOK
      <3> QED
        BY <1>4, <1>7, <2>2, <3>1, <3>4, <3>5
    <2>4. ASSUME NEW v \in Level, NEW s \in Filled(us, L2, v)
          PROVE  vs2[v][s] = Total(Val, Done(R, D, e, L2, ks[v][s]))
      <3>1. CASE v = l /\ s = a
        BY <1>4, <2>3, <3>1
      <3>2. CASE v # l \/ s # a
        <4>1. s \in Filled(us, L, v) /\ s \in SlotsOf(v)
          BY <1>8, SlotSets
        <4>2. ks[v][s] # k
          BY <1>4, <1>6, <3>2, <4>1 DEF KeysOK
        <4>3. vs[v][s] = Total(Val, Done(R, D, e, L, ks[v][s]))
          BY <1>6, <4>1 DEF SumsOK
        <4> QED
          BY <1>7, <2>2, <3>2, <4>1, <4>2, <4>3
      <3> QED
        BY <3>1, <3>2
    <2>5. ASSUME NEW j \in Cols, Done(R, D, e, L2, j) # {}
          PROVE  In(us, ks, L2, 1, j) \/ In(us, ks, L2, 2, j)
      <3>1. CASE j = k
        BY <1>4, <1>5, <1>9, <3>1 DEF In, Level
      <3>2. CASE j # k
        <4>1. Done(R, D, e, L, j) # {}
          BY <2>2, <2>5, <3>2
        <4>2. In(us, ks, L, 1, j) \/ In(us, ks, L, 2, j)
          BY <1>6, <4>1 DEF SumsOK
        <4> QED
          BY <1>5, <1>9, <4>2
      <3> QED
        BY <3>1, <3>2
    <2> QED
      BY <2>4, <2>5 DEF SumsOK
  <1> QED
    BY <1>10, <1>11, <1>12, <1>13, <1>14 DEF Core
-----------------------------------------------------------------------------
(***************************************************************************)
(* The lists.                                                              *)
(***************************************************************************)
\* Only the hashes, keys and links of the slots in the lists count.
LEMMA ReachesSame ==
  ASSUME NEW P, NEW O, O \subseteq P, NEW c, NEW c2, \A y \in P : c2[y] = c[y], NEW r, NEW h, NEW b, NEW g,
         Reaches(P, O, c, r, h, b, g)
  PROVE  Reaches(P, O, c2, r, h, b, g)
  BY DEF Reaches, OfClass

LEMMA SoughtSame ==
  ASSUME NEW P, NEW O, O \subseteq P, NEW c, NEW c2, \A y \in P : c2[y] = c[y], NEW r, NEW n, NEW h, NEW k, NEW g,
         NEW K, NEW K2, \A y \in P : K2[y] = K[y], SoughtAt(P, O, c, r, n, h, K, k, g)
  PROVE  SoughtAt(P, O, c2, r, n, h, K2, k, g)
  BY DEF SoughtAt, OfClass

\* A step that changes neither the lists nor what another lane counts on.
LEMMA ChainsSame ==
  ASSUME NEW x, NEW l \in Level, NEW P, NEW O, O \subseteq P, NEW c, NEW c2, NEW B, NEW N, NEW N2, NEW K, NEW K2,
         \A y \in P : c2[y] = c[y] /\ K2[y] = K[y] /\ N2[y] = N[y],
         NEW L, NEW L2, NEW k \in Cols, \A j \in Cols : j # k => L2[j] = L[j],
         \A j \in Cols : j # k /\ L[j].lvl = l /\ L[j].pc \in Owning => N2[L[j].my] = N[L[j].my],
         \A y \in P : Pending(L2, l, y) <=> Pending(L, l, y),
         NEW r, NEW n, Chains(x, l, P, O, c, B, N, K, L, r, n),
         LaneListed(x, l, P, O, c2, N2, K2, L2, r, n, k)
  PROVE  Chains(x, l, P, O, c2, B, N2, K2, L2, r, n)
  <1>1. Ranked(P, r, n)
    BY DEF Chains
  <1>2. \A h \in 0 .. HashSize[l] - 1 : Latest(P, c2, r, h, n, B[h])
    <2> TAKE h \in 0 .. HashSize[l] - 1
    <2>1. Reaches(P, P, c, r, h, n, B[h])
      BY DEF Chains, Latest
    <2> QED
      BY <2>1, ReachesSame DEF Latest
  <1>3. ASSUME NEW y \in P, ~ Pending(L2, l, y) PROVE Latest(P, c2, r, c2[y], r[y], N2[y])
    <2>1. Reaches(P, P, c, r, c[y], r[y], N[y])
      BY <1>3 DEF Chains, Latest
    <2>2. Reaches(P, P, c2, r, c[y], r[y], N[y])
      BY <2>1, ReachesSame
    <2>3. c2[y] = c[y] /\ N2[y] = N[y]
      OBVIOUS
    <2> QED
      BY <2>2, <2>3 DEF Latest
  <1>4. ASSUME NEW j \in Cols, j # k PROVE LaneListed(x, l, P, O, c2, N2, K2, L2, r, n, j)
    <2>1. LaneListed(x, l, P, O, c, N, K, L, r, n, j) /\ L2[j] = L[j]
      BY <1>4 DEF Chains
    <2>2. SUFFICES ASSUME L[j].lvl = l
                   PROVE  LaneListed(x, l, P, O, c2, N2, K2, L2, r, n, j)
      BY <2>1 DEF LaneListed
    <2>3. L[j].pc \in Owning => N2[L[j].my] = N[L[j].my]
      BY <1>4, <2>2
    <2>4. PICK h : h = Hash(j, HashSize[l])
      OBVIOUS
    <2>5. L[j].pc = "walk" => SoughtAt(P, O, c2, r, n, h, K2, j, L[j].at)
      <3>1. L[j].pc = "walk" => SoughtAt(P, O, c, r, n, h, K, j, L[j].at)
        BY <2>1, <2>2, <2>4 DEF LaneListed
      <3> QED
        BY <3>1, SoughtSame
    <2>6. L[j].pc \in {"track", "next"} => Latest(P, c2, r, h, r[L[j].my], L[j].tmp)
      <3>1. L[j].pc \in {"track", "next"} => Reaches(P, P, c, r, h, r[L[j].my], L[j].tmp)
        BY <2>1, <2>2, <2>4 DEF LaneListed, Latest
      <3> QED
        BY <3>1, ReachesSame DEF Latest
    <2>7. L[j].pc \in {"track", "next"} /\ x = "independent" => Reaches(P, O, c2, r, h, r[L[j].my], N[L[j].my])
      <3>1. L[j].pc \in {"track", "next"} /\ x = "independent" => Reaches(P, O, c, r, h, r[L[j].my], N[L[j].my])
        BY <2>1, <2>2, <2>4 DEF LaneListed
      <3> QED
        BY <3>1, ReachesSame
    <2>8. L[j].pc = "exchange" /\ x = "independent" => Reaches(P, O, c2, r, h, n, N[L[j].my])
      <3>1. L[j].pc = "exchange" /\ x = "independent" => Reaches(P, O, c, r, h, n, N[L[j].my])
        BY <2>1, <2>2, <2>4 DEF LaneListed
      <3> QED
        BY <3>1, ReachesSame
    <2> QED
      BY <2>1, <2>3, <2>4, <2>5, <2>6, <2>7, <2>8 DEF LaneListed, Owning
  <1>5. \A j \in Cols : LaneListed(x, l, P, O, c2, N2, K2, L2, r, n, j)
    BY <1>4
  <1> QED
    BY <1>1, <1>2, <1>3, <1>5 DEF Chains

\* A slot that is pushed last is in no way of the others.
LEMMA ReachesGrow ==
  ASSUME NEW P, NEW O, NEW c, NEW r, NEW n \in Nat, NEW h, NEW b \in Nat, b <= n, NEW g,
         NEW s, s \notin P, NEW r2, r2[s] = n, \A y \in P : r2[y] = r[y],
         NEW O2, O2 \subseteq O \union {s}, O \subseteq P,
         Reaches(P, O, c, r, h, b, g)
  PROVE  Reaches(P \union {s}, O2, c, r2, h, b, g)
  <1>1. OfClass(P \union {s}, c, r2, h, b, g)
    BY DEF Reaches, OfClass
  <1>2. ASSUME NEW w \in O2, c[w] = h, r2[w] < b PROVE g # Nil /\ r2[w] <= r2[g]
    <2>1. w # s
      BY <1>2
    <2>2. w \in O /\ r2[w] = r[w]
      BY <2>1
    <2>3. g # Nil /\ r[w] <= r[g]
      BY <1>2, <2>2 DEF Reaches
    <2>4. g \in P
      BY <2>3 DEF Reaches, OfClass
    <2> QED
      BY <2>2, <2>3, <2>4
  <1> QED
    BY <1>1, <1>2 DEF Reaches

\* Slot s of lane k becomes the head of hash h, with rank n.
Pushes(l, P, c, B, B2, L, k, q, L2, s, h, r, r2, n) ==
  /\ P \subseteq SlotsOf(l) /\ LaneType(L) /\ OneOwner(L) /\ IsLane(q) /\ LaneStep(L, k, q, L2)
  /\ s \in SlotsOf(l) /\ s \notin P /\ L[k].lvl = l /\ L[k].my = s /\ L[k].pc = "exchange"
  /\ h \in 0 .. HashSize[l] - 1 /\ h = Hash(k, HashSize[l]) /\ c[s] = h
  /\ B2[h] = s /\ \A f \in 0 .. HashSize[l] - 1 : f # h => B2[f] = B[f]
  /\ q.lvl = l /\ q.my = s /\ q.tmp = B[h] /\ q.pc \in {"track", "next"}
  /\ \A j \in Cols : L[j].pc \in {"track", "next"} /\ L[j].lvl = l => L[j].my \in P
  /\ n \in Nat /\ r \in [SlotsOf(l) -> Nat] /\ r2 \in [SlotsOf(l) -> Nat]
  /\ r2[s] = n /\ \A y \in P : r2[y] = r[y]

\* ExchangeHead: the lane knows the old head.
LEMMA ChainsPush ==
  ASSUME NEW x, NEW l \in Level, NEW P, NEW O, O \subseteq P, NEW c, NEW B, NEW B2, NEW N, NEW K,
         NEW L, NEW k \in Cols, NEW q, NEW L2, NEW s, NEW h, NEW r, NEW r2, NEW n,
         Pushes(l, P, c, B, B2, L, k, q, L2, s, h, r, r2, n), Chains(x, l, P, O, c, B, N, K, L, r, n)
  PROVE  Chains(x, l, P \union {s}, O, c, B2, N, K, L2, r2, n + 1)
  <1> USE DEF Pushes
  <1>1. L2[k] = q /\ \A j \in Cols : j # k => L2[j] = L[j]
    BY StepFacts
  <1>3. /\ r2[s] = n /\ \A y \in P : r2[y] = r[y]
        /\ \A y \in P : r[y] \in Nat /\ r[y] < n /\ r2[y] \in Nat
    BY DEF Chains, Ranked
  <1>4. Ranked(P \union {s}, r2, n + 1)
    BY <1>3 DEF Chains, Ranked
  <1>5. ASSUME NEW b \in Nat, b <= n, NEW g, NEW f, Latest(P, c, r, f, b, g)
        PROVE  Latest(P \union {s}, c, r2, f, b, g)
    <2>1. Reaches(P, P, c, r, f, b, g)
      BY <1>5 DEF Latest
    <2>2. P \union {s} \subseteq P \union {s} /\ P \subseteq P
      OBVIOUS
    <2>3. Reaches(P \union {s}, P \union {s}, c, r2, f, b, g)
      BY <1>3, <1>5, <2>1, <2>2, ReachesGrow
    <2> QED
      BY <2>3 DEF Latest
  <1>6. ASSUME NEW b \in Nat, b <= n, NEW g, NEW f, Reaches(P, O, c, r, f, b, g)
        PROVE  Reaches(P \union {s}, O, c, r2, f, b, g)
    <2>1. O \subseteq O \union {s}
      OBVIOUS
    <2> QED
      BY <1>3, <1>6, <2>1, ReachesGrow
  <1>7. ASSUME NEW f \in 0 .. HashSize[l] - 1 PROVE Latest(P \union {s}, c, r2, f, n + 1, B2[f])
    <2>1. CASE f = h
      <3>1. B2[f] = s
        BY <2>1
      <3>2. s # Nil /\ \A w \in P \union {s} : r2[w] <= r2[s]
        BY <1>3, Sizes
      <3> QED
        BY <1>3, <2>1, <3>1, <3>2 DEF Latest, Reaches, OfClass
    <2>2. CASE f # h
      <3>1. B2[f] = B[f]
        BY <2>2
      <3>2. Latest(P \union {s}, c, r2, f, n, B[f])
        <4>1. Latest(P, c, r, f, n, B[f]) /\ n <= n
          BY DEF Chains
        <4> QED
          BY <1>5, <4>1
      <3>3. \A w \in P \union {s} : c[w] = f => r2[w] < n
        BY <1>3, <2>2
      <3>4. OfClass(P \union {s}, c, r2, f, n + 1, B[f])
        <4>1. OfClass(P \union {s}, c, r2, f, n, B[f])
          BY <3>2 DEF Latest, Reaches
        <4>2. \A w \in P \union {s} : r2[w] < n + 1
          BY <1>3
        <4> QED
          BY <4>1, <4>2 DEF OfClass
      <3> QED
        BY <3>1, <3>2, <3>3, <3>4 DEF Latest, Reaches
    <2> QED
      BY <2>1, <2>2
  <1>8. ASSUME NEW y \in P \union {s}, ~ Pending(L2, l, y)
        PROVE  Latest(P \union {s}, c, r2, c[y], r2[y], N[y])
    <2>1. y # s
      BY <1>1, <1>8 DEF Pending, OwnerIn
    <2>2. y \in P
      BY <2>1
    <2>3. ~ Pending(L, l, y)
      <3>1. L[k].pc \notin {"track", "next"}
        OBVIOUS
      <3> QED
        BY <1>1, <1>8, <3>1 DEF Pending, OwnerIn
    <2>4. Latest(P, c, r, c[y], r[y], N[y])
      BY <2>2, <2>3 DEF Chains
    <2>5. r[y] \in Nat /\ r[y] <= n /\ r2[y] = r[y]
      BY <1>3, <2>2
    <2> QED
      BY <1>5, <2>4, <2>5
  <1>9. LaneListed(x, l, P \union {s}, O, c, N, K, L2, r2, n + 1, k)
    <2>1. Latest(P \union {s}, c, r2, h, n, B[h])
      <3>1. Latest(P, c, r, h, n, B[h]) /\ n <= n
        BY DEF Chains
      <3> QED
        BY <1>5, <3>1
    <2>2. x = "independent" => Reaches(P \union {s}, O, c, r2, h, n, N[s])
      <3>1. x = "independent" => Reaches(P, O, c, r, h, n, N[s])
        BY DEF Chains, LaneListed
      <3>2. n <= n
        OBVIOUS
      <3> QED
        BY <1>6, <3>1, <3>2
    <2>3. L2[k].my = s /\ L2[k].tmp = B[h] /\ r2[s] = n /\ L2[k].pc # "walk" /\ L2[k].pc # "exchange"
      BY <1>1, <1>3
    <2> QED
      BY <2>1, <2>2, <2>3 DEF LaneListed
  <1>10. ASSUME NEW j \in Cols, j # k PROVE LaneListed(x, l, P \union {s}, O, c, N, K, L2, r2, n + 1, j)
    <2>1. LaneListed(x, l, P, O, c, N, K, L, r, n, j) /\ L2[j] = L[j]
      BY <1>1, <1>10 DEF Chains
    <2>2. SUFFICES ASSUME L[j].lvl = l
                   PROVE  LaneListed(x, l, P \union {s}, O, c, N, K, L2, r2, n + 1, j)
      BY <2>1 DEF LaneListed
    <2>3. PICK f : f = Hash(j, HashSize[l])
      OBVIOUS
    <2>4. ASSUME L[j].pc = "walk"
          PROVE  SoughtAt(P \union {s}, O, c, r2, n + 1, f, K, j, L[j].at)
      <3>1. SoughtAt(P, O, c, r, n, f, K, j, L[j].at)
        BY <2>1, <2>2, <2>3, <2>4 DEF LaneListed
      <3>2. L[j].at = Nil \/ L[j].at \in P
        BY <3>1 DEF SoughtAt, OfClass
      <3>3. OfClass(P \union {s}, c, r2, f, n + 1, L[j].at)
        BY <1>3, <3>1 DEF SoughtAt, OfClass
      <3>4. \A w \in O : K[w] = j => L[j].at # Nil /\ r2[w] <= r2[L[j].at]
        BY <1>3, <3>1, <3>2 DEF SoughtAt
      <3> QED
        BY <3>3, <3>4 DEF SoughtAt
    <2>5. ASSUME L[j].pc \in {"track", "next"}
          PROVE  /\ Latest(P \union {s}, c, r2, f, r2[L[j].my], L[j].tmp)
                 /\ x = "independent" => Reaches(P \union {s}, O, c, r2, f, r2[L[j].my], N[L[j].my])
      <3>1. L[j].my \in P
        BY <2>2, <2>5
      <3>2. r2[L[j].my] = r[L[j].my] /\ r[L[j].my] \in Nat /\ r[L[j].my] <= n
        BY <1>3, <3>1
      <3>3. /\ Latest(P, c, r, f, r[L[j].my], L[j].tmp)
            /\ x = "independent" => Reaches(P, O, c, r, f, r[L[j].my], N[L[j].my])
        BY <2>1, <2>2, <2>3, <2>5 DEF LaneListed
      <3>4. Latest(P \union {s}, c, r2, f, r[L[j].my], L[j].tmp)
        BY <1>5, <3>2, <3>3
      <3>5. x = "independent" => Reaches(P \union {s}, O, c, r2, f, r[L[j].my], N[L[j].my])
        BY <1>6, <3>2, <3>3
      <3> QED
        BY <3>2, <3>4, <3>5
    <2>6. ASSUME L[j].pc = "exchange", x = "independent"
          PROVE  Reaches(P \union {s}, O, c, r2, f, n + 1, N[L[j].my])
      <3>1. Reaches(P, O, c, r, f, n, N[L[j].my])
        BY <2>1, <2>2, <2>3, <2>6 DEF LaneListed
      <3>2. Reaches(P \union {s}, O, c, r2, f, n, N[L[j].my])
        <4>1. n <= n
          OBVIOUS
        <4> QED
          BY <1>6, <3>1, <4>1
      <3>3. OfClass(P \union {s}, c, r2, f, n + 1, N[L[j].my])
        BY <1>3, <3>2 DEF Reaches, OfClass
      <3>4. \A w \in O : r2[w] < n
        BY <1>3
      <3> QED
        BY <3>2, <3>3, <3>4 DEF Reaches
    <2> QED
      BY <2>1, <2>3, <2>4, <2>5, <2>6 DEF LaneListed
  <1>11. \A j \in Cols : LaneListed(x, l, P \union {s}, O, c, N, K, L2, r2, n + 1, j)
    BY <1>9, <1>10
  <1> QED
    BY <1>4, <1>7, <1>8, <1>11 DEF Chains

\* SetNext: the slot leads to the head that it has replaced.
LEMMA ChainsSetNext ==
  ASSUME NEW x, NEW l \in Level, NEW P, NEW O, NEW c, NEW B, NEW N, NEW N2, NEW K,
         NEW L, LaneType(L), OneOwner(L), NEW k \in Cols, NEW q, IsLane(q), NEW L2, LaneStep(L, k, q, L2),
         NEW s \in P, s # Nil, L[k].lvl = l, L[k].my = s, L[k].pc = "next", q.pc = "done",
         c[s] = Hash(k, HashSize[l]),
         N2[s] = L[k].tmp, \A j \in Cols : j # k /\ L[j].lvl = l /\ L[j].pc \in Owning => N2[L[j].my] = N[L[j].my],
         \A y \in P : y # s => N2[y] = N[y],
         NEW r, NEW n, Chains(x, l, P, O, c, B, N, K, L, r, n)
  PROVE  Chains(x, l, P, O, c, B, N2, K, L2, r, n)
  <1>1. L2[k] = q /\ \A j \in Cols : j # k => L2[j] = L[j]
    BY StepFacts
  <1>2. ASSUME NEW y \in P, ~ Pending(L2, l, y) PROVE Latest(P, c, r, c[y], r[y], N2[y])
    <2>1. CASE y = s
      <3>1. Latest(P, c, r, Hash(k, HashSize[l]), r[s], L[k].tmp)
        BY DEF Chains, LaneListed
      <3> QED
        BY <2>1, <3>1
    <2>2. CASE y # s
      <3>1. ~ Pending(L, l, y)
        BY <1>1, <1>2, <2>2 DEF Pending, OwnerIn
      <3>2. N2[y] = N[y]
        BY <2>2
      <3> QED
        BY <3>1, <3>2 DEF Chains
    <2> QED
      BY <2>1, <2>2
  <1>3. ASSUME NEW j \in Cols, j # k PROVE LaneListed(x, l, P, O, c, N2, K, L2, r, n, j)
    <2>1. LaneListed(x, l, P, O, c, N, K, L, r, n, j) /\ L2[j] = L[j]
      BY <1>1, <1>3 DEF Chains
    <2>2. L[j].lvl = l /\ L[j].pc \in Owning => N2[L[j].my] = N[L[j].my]
      BY <1>3
    <2> QED
      BY <2>1, <2>2 DEF LaneListed, Owning
  <1>4. LaneListed(x, l, P, O, c, N2, K, L2, r, n, k)
    BY <1>1 DEF LaneListed
  <1>5. \A j \in Cols : LaneListed(x, l, P, O, c, N2, K, L2, r, n, j)
    BY <1>3, <1>4
  <1> QED
    BY <1>2, <1>5 DEF Chains
-----------------------------------------------------------------------------
(***************************************************************************)
(* Where a walk leads.                                                     *)
(***************************************************************************)
LEMMA HeadSought ==
  ASSUME NEW P, NEW O, O \subseteq P, NEW c, NEW K, NEW k, NEW h, \A w \in O : K[w] = k => c[w] = h,
         NEW r, NEW n, Ranked(P, r, n), NEW g, Latest(P, c, r, h, n, g)
  PROVE  SoughtAt(P, O, c, r, n, h, K, k, g)
  BY DEF SoughtAt, Latest, Reaches, Ranked

LEMMA HeadReaches ==
  ASSUME NEW P, NEW O, O \subseteq P, NEW c, NEW r, NEW h, NEW b, NEW g, Latest(P, c, r, h, b, g)
  PROVE  Reaches(P, O, c, r, h, b, g)
  BY DEF Latest, Reaches

\* From a slot in the lists no walk misses an old slot: the link is the final one, or
\* lanes advance independently and the slot was linked to the head before it was pushed.
LEMMA LinkReaches ==
  ASSUME NEW x, NEW l \in Level, NEW P, NEW O, O \subseteq P, NEW c, NEW B, NEW N, NEW K, NEW L, NEW r, NEW n,
         Chains(x, l, P, O, c, B, N, K, L, r, n), NEW y \in P,
         x = "independent" \/ ~ Pending(L, l, y),
         \A j \in Cols : L[j].lvl = l /\ L[j].my = y => c[y] = Hash(j, HashSize[l])
  PROVE  Reaches(P, O, c, r, c[y], r[y], N[y])
  <1>1. CASE ~ Pending(L, l, y)
    BY <1>1, HeadReaches DEF Chains
  <1>2. CASE Pending(L, l, y) /\ x = "independent"
    <2>1. PICK j \in Cols : L[j].lvl = l /\ L[j].my = y /\ L[j].pc \in {"track", "next"}
      BY <1>2 DEF Pending, OwnerIn
    <2>2. c[y] = Hash(j, HashSize[l])
      BY <2>1
    <2>3. LaneListed(x, l, P, O, c, N, K, L, r, n, j)
      BY DEF Chains
    <2> QED
      BY <1>2, <2>1, <2>2, <2>3 DEF LaneListed
  <1> QED
    BY <1>1, <1>2

LEMMA WalkSought ==
  ASSUME NEW P, NEW O, O \subseteq P, NEW c, NEW r, NEW n \in Nat, \A y \in P : r[y] \in Nat, Ranked(P, r, n),
         NEW h, NEW K, NEW k, \A w \in O : K[w] = k => c[w] = h,
         NEW g, SoughtAt(P, O, c, r, n, h, K, k, g), g # Nil, K[g] # k,
         NEW d, Reaches(P, O, c, r, c[g], r[g], d)
  PROVE  SoughtAt(P, O, c, r, n, h, K, k, d)
  <1>1. g \in P /\ c[g] = h /\ r[g] < n /\ r[g] \in Nat
    BY DEF SoughtAt, OfClass
  <1>2. OfClass(P, c, r, h, n, d)
    <2>1. d = Nil \/ (d \in P /\ c[d] = h /\ r[d] < r[g])
      BY <1>1 DEF Reaches, OfClass
    <2>2. d \in P => r[d] < n
      BY DEF Ranked
    <2> QED
      BY <2>1, <2>2 DEF OfClass
  <1>3. ASSUME NEW w \in O, K[w] = k PROVE d # Nil /\ r[w] <= r[d]
    <2>1. r[w] <= r[g] /\ w # g /\ w \in P /\ c[w] = h
      BY <1>3 DEF SoughtAt
    <2>2. r[w] # r[g]
      BY <1>1, <2>1 DEF Ranked
    <2>3. r[w] < r[g]
      BY <1>1, <2>1, <2>2
    <2> QED
      BY <1>1, <2>1, <2>3 DEF Reaches
  <1> QED
    BY <1>2, <1>3 DEF SoughtAt

\* A set that has the slot where a walk stands and all slots that its members lead to
\* has the slot of the key: of those of its members that are not ranked before that
\* slot, the one of the least rank could lead to another.
LEMMA SoughtAhead ==
  ASSUME NEW m, NEW P, P \subseteq DOMAIN m.nexts, NEW O, O \subseteq P, NEW c, NEW r, \A y \in P : r[y] \in Nat,
         NEW n, Ranked(P, r, n), NEW h, NEW K, NEW k, NEW g, SoughtAt(P, O, c, r, n, h, K, k, g),
         \A y \in P : Reaches(P, O, c, r, c[y], r[y], m.nexts[y]),
         NEW w \in O, K[w] = k, c[w] = h
  PROVE  w \in Ahead(m, g)
  <1>1. SUFFICES ASSUME NEW S \in SUBSET DOMAIN m.nexts, g \in S \union {Nil}, Closed(m, S)
                 PROVE  w \in S
    BY DEF Ahead
  <1>2. PICK T : T = {y \in S : y \in P /\ c[y] = h /\ r[w] <= r[y]}
    OBVIOUS
  <1>3. g \in T
    <2>1. g # Nil /\ r[w] <= r[g] /\ g \in P /\ c[g] = h
      BY DEF SoughtAt, OfClass
    <2> QED
      BY <1>1, <1>2, <2>1
  <1>4. PICK Ranks : Ranks = {r[y] : y \in T}
    OBVIOUS
  <1>5. Ranks \in SUBSET Nat /\ Ranks # {}
    BY <1>2, <1>3, <1>4
  <1>6. PICK b \in Ranks : \A d \in Ranks : b <= d
    BY <1>5, LeastOf
  <1>7. PICK y \in T : r[y] = b
    BY <1>4
  <1>8. y \in S /\ y \in P /\ c[y] = h /\ r[w] <= r[y] /\ r[y] \in Nat /\ r[w] \in Nat /\ w \in P
    BY <1>2
  <1>9. y = w
    <2>1. SUFFICES ASSUME y # w PROVE FALSE
      OBVIOUS
    <2>2. r[w] < r[y]
      BY <1>8, <2>1 DEF Ranked
    <2>3. Reaches(P, O, c, r, h, r[y], m.nexts[y])
      BY <1>8
    <2>4. m.nexts[y] # Nil /\ r[w] <= r[m.nexts[y]]
      BY <2>2, <2>3 DEF Reaches
    <2>5. m.nexts[y] \in P /\ c[m.nexts[y]] = h /\ r[m.nexts[y]] < r[y]
      BY <2>3, <2>4 DEF Reaches, OfClass
    <2>6. m.nexts[y] \in S
      BY <1>1, <1>8, <2>4 DEF Closed
    <2>7. m.nexts[y] \in T
      BY <1>2, <2>4, <2>5, <2>6
    <2>8. r[y] <= r[m.nexts[y]]
      BY <1>4, <1>6, <1>7, <2>7
    <2>9. r[m.nexts[y]] \in Nat
      BY <2>5
    <2> QED
      BY <1>8, <2>5, <2>8, <2>9
  <1> QED
    BY <1>8, <1>9

\* A walk from a head stays in the lists.
LEMMA AheadInLists ==
  ASSUME NEW m, NEW P, P \subseteq DOMAIN m.nexts, NEW g, g \in P \union {Nil},
         \A y \in P : m.nexts[y] \in P \union {Nil}
  PROVE  Ahead(m, g) \subseteq P
  BY DEF Ahead, Closed
-----------------------------------------------------------------------------
(***************************************************************************)
(* The steps of a lane keep what holds while entries are multiplied.       *)
(***************************************************************************)
Fixed(x, C, I, R, D, e, hd) ==
  /\ Setting(x, C, I, R, D, e)
  /\ Cardinality(C) <= KeySize[2]
  /\ x = "multicore" \/ Cardinality(C) > KeySize[1] => hd

TurnOf(x, L, k) == \/ x = "independent"
                   \/ x = "lockstep" /\ \A j \in Cols : Stage(L[k]) <= Stage(L[j])

LEMMA ListsKeep ==
  ASSUME NEW x, NEW l \in Level, NEW us, NEW us2, NEW ks, NEW ks2, NEW hs, NEW hs2, NEW ns, NEW ns2,
         NEW L, LaneType(L), NEW k \in Cols, NEW q, IsLane(q), NEW L2, LaneStep(L, k, q, L2),
         Pushed(us2, L2, l) = Pushed(us, L, l), Old(us2, L2, l) = Old(us, L, l), hs2[l] = hs[l],
         \A y \in Pushed(us, L, l) : ks2[l][y] = ks[l][y] /\ ns2[l][y] = ns[l][y],
         \A j \in Cols : j # k /\ L[j].lvl = l /\ L[j].pc \in Owning => ns2[l][L[j].my] = ns[l][L[j].my],
         \A y \in Pushed(us, L, l) : Pending(L2, l, y) <=> Pending(L, l, y),
         \A n \in Nat, r \in [SlotsOf(l) -> Nat] :
           Chains(x, l, Pushed(us, L, l), Old(us, L, l), Class(ks, l), hs[l], ns[l], ks[l], L, r, n)
             => LaneListed(x, l, Pushed(us, L, l), Old(us, L, l), Class(ks2, l), ns2[l], ks2[l], L2, r, n, k),
         ListsOK(x, us, ks, hs, ns, L, l)
  PROVE  ListsOK(x, us2, ks2, hs2, ns2, L2, l)
  <1>1. PICK n \in Nat, r \in [SlotsOf(l) -> Nat] :
          Chains(x, l, Pushed(us, L, l), Old(us, L, l), Class(ks, l), hs[l], ns[l], ks[l], L, r, n)
    BY DEF ListsOK
  <1>2. PICK P : P = Pushed(us, L, l)
    OBVIOUS
  <1>3. PICK O : O = Old(us, L, l)
    OBVIOUS
  <1>4. O \subseteq P /\ P \subseteq SlotsOf(l)
    BY <1>2, <1>3, SlotSets
  <1>5. \A y \in P : Class(ks2, l)[y] = Class(ks, l)[y] /\ ks2[l][y] = ks[l][y] /\ ns2[l][y] = ns[l][y]
    <2> TAKE y \in P
    <2>1. y \in SlotsOf(l) /\ ks2[l][y] = ks[l][y] /\ ns2[l][y] = ns[l][y]
      BY <1>2, <1>4
    <2> QED
      BY <2>1 DEF Class
  <1>6. \A j \in Cols : j # k => L2[j] = L[j]
    BY StepFacts
  <1>7. \A y \in P : Pending(L2, l, y) <=> Pending(L, l, y)
    BY <1>2
  <1>8. Chains(x, l, P, O, Class(ks, l), hs[l], ns[l], ks[l], L, r, n)
    BY <1>1, <1>2, <1>3
  <1>9. LaneListed(x, l, P, O, Class(ks2, l), ns2[l], ks2[l], L2, r, n, k)
    BY <1>1, <1>2, <1>3
  <1>10. \A j \in Cols : j # k /\ L[j].lvl = l /\ L[j].pc \in Owning => ns2[l][L[j].my] = ns[l][L[j].my]
    OBVIOUS
  <1>11. Chains(x, l, P, O, Class(ks2, l), hs[l], ns2[l], ks2[l], L2, r, n)
    BY <1>4, <1>5, <1>6, <1>7, <1>8, <1>9, <1>10, ChainsSame
  <1>12. Pushed(us2, L2, l) = P /\ Old(us2, L2, l) = O /\ hs2[l] = hs[l]
    BY <1>2, <1>3
  <1>13. Chains(x, l, Pushed(us2, L2, l), Old(us2, L2, l), Class(ks2, l), hs2[l], ns2[l], ks2[l], L2, r, n)
    BY <1>11, <1>12
  <1> QED
    BY <1>1, <1>13 DEF ListsOK

\* a lane that is not in the lists of the level, or no longer
Leaves(x, q, l) == \/ q.lvl # l
                   \/ /\ q.pc \notin {"walk", "track", "next"}
                      /\ q.pc = "exchange" => x # "independent"
Enters(L, k, l) == L[k].lvl # l \/ L[k].pc \notin {"track", "next"}

LEMMA ListsLeave ==
  ASSUME NEW x, NEW l \in Level, NEW us, NEW us2, NEW ks, NEW ks2, NEW hs, NEW ns,
         NEW L, LaneType(L), NEW k \in Cols, NEW q, IsLane(q), NEW L2, LaneStep(L, k, q, L2),
         Leaves(x, q, l), Enters(L, k, l),
         Pushed(us2, L2, l) = Pushed(us, L, l), Old(us2, L2, l) = Old(us, L, l),
         \A y \in Pushed(us, L, l) : ks2[l][y] = ks[l][y],
         ListsOK(x, us, ks, hs, ns, L, l)
  PROVE  ListsOK(x, us2, ks2, hs, ns, L2, l)
  <1>1. L2[k] = q /\ \A j \in Cols : j # k => L2[j] = L[j]
    BY StepFacts
  <1>2. \A y \in Pushed(us, L, l) : Pending(L2, l, y) <=> Pending(L, l, y)
    BY <1>1 DEF Pending, OwnerIn, Leaves, Enters
  <1>3. \A n \in Nat, r \in [SlotsOf(l) -> Nat] :
          Chains(x, l, Pushed(us, L, l), Old(us, L, l), Class(ks, l), hs[l], ns[l], ks[l], L, r, n)
            => LaneListed(x, l, Pushed(us, L, l), Old(us, L, l), Class(ks2, l), ns[l], ks2[l], L2, r, n, k)
    BY <1>1 DEF LaneListed, Leaves
  <1>4. /\ \A y \in Pushed(us, L, l) : ks2[l][y] = ks[l][y] /\ ns[l][y] = ns[l][y]
        /\ \A j \in Cols : j # k /\ L[j].lvl = l /\ L[j].pc \in Owning => ns[l][L[j].my] = ns[l][L[j].my]
        /\ hs[l] = hs[l]
    OBVIOUS
  <1> QED
    BY <1>2, <1>3, <1>4, ListsKeep

\* At the other level nothing changes but a link or a head of this one.
LEMMA ListsOther ==
  ASSUME NEW x, NEW l \in Level, NEW us, NEW ks, NEW hs, NEW ns, NEW hs2, NEW ns2, NEW L, NEW L2,
         hs2[l] = hs[l], ns2[l] = ns[l], ListsOK(x, us, ks, hs, ns, L, l)
  PROVE  ListsOK(x, us, ks, hs2, ns2, L, l)
  BY DEF ListsOK

LEMMA StageType ==
  ASSUME NEW q, IsLane(q)
  PROVE  Stage(q) \in Int /\ Stage(q) <= 100 /\ q.lvl \in {1, 2} /\ 10 * q.lvl + 8 <= 28
  <1>1. q.pc \in Pcs /\ q.lvl \in {1, 2}
    BY DEF IsLane, Level
  <1>2. q.pc \in {"idle", "done", "hash", "walk", "store", "check", "reserve", "write", "link", "exchange", "track", "next"}
    BY <1>1, PcsAre
  <1>3. \E n \in 1 .. 10 : Stage(q) = 100 \/ Stage(q) = 10 * q.lvl + n
    BY <1>2, Stages
  <1> QED
    BY <1>1, <1>3

LEMMA InStepKeeps ==
  ASSUME NEW x, NEW L, LaneType(L), NEW k \in Cols, NEW q, IsLane(q), NEW L2, LaneStep(L, k, q, L2),
         InStep(x, L), TurnOf(x, L, k), Stage(L[k]) <= Stage(q),
         q.pc \in {"track", "next"} => q.lvl = L[k].lvl /\ L[k].pc \in {"exchange", "track", "next"}
  PROVE  InStep(x, L2)
  <1>1. SUFFICES ASSUME x = "lockstep", NEW i \in Cols, NEW j \in Cols, L2[i].pc \in {"track", "next"}
                 PROVE  Stage(L2[j]) >= 10 * L2[i].lvl + 8
    BY DEF InStep
  <1>2. L2[k] = q /\ \A j1 \in Cols : j1 # k => L2[j1] = L[j1]
    BY StepFacts
  <1>3. \A j1 \in Cols : Stage(L[j1]) \in Int /\ IsLane(L[j1]) /\ L[j1].lvl \in {1, 2}
    BY LaneFields, StageType
  <1>4. Stage(q) \in Int /\ Stage(L[k]) \in Int
    BY <1>3, StageType
  <1>5. Stage(L[j]) <= Stage(L2[j])
    BY <1>2, <1>3, <1>4
  <1>6. L[j].lvl \in {1, 2} /\ L[i].lvl \in {1, 2} /\ L2[i].lvl \in {1, 2} /\ Stage(L2[j]) \in Int
    BY <1>2, <1>3, <1>4, StageType
  <1>7. CASE i # k
    <2>1. Stage(L[j]) >= 10 * L[i].lvl + 8 /\ L2[i] = L[i]
      BY <1>1, <1>2, <1>7 DEF InStep
    <2> QED
      BY <1>3, <1>5, <1>6, <2>1
  <1>8. CASE i = k
    <2>1. L2[i].lvl = L[k].lvl /\ L[k].pc \in {"exchange", "track", "next"}
      BY <1>1, <1>2, <1>8
    <2>2. Stage(L[k]) >= 10 * L[k].lvl + 8
      BY <1>3, <2>1, Stages
    <2>3. Stage(L[k]) <= Stage(L[j])
      BY <1>1 DEF TurnOf
    <2> QED
      BY <1>3, <1>4, <1>5, <1>6, <2>1, <2>2, <2>3
  <1> QED
    BY <1>7, <1>8

LEMMA DirtyKeeps ==
  ASSUME NEW d, NEW hs, NEW L, LaneType(L), NEW k \in Cols, NEW q, IsLane(q), NEW L2, LaneStep(L, k, q, L2),
         L[k].pc # "track", DirtyOK(d, hs, L)
  PROVE  DirtyOK(d, hs, L2)
  <1>1. \A j \in Cols : j # k => L2[j] = L[j]
    BY StepFacts
  <1> QED
    BY <1>1 DEF DirtyOK

\* what a lane that is not idle knows of its row
LEMMA LaneIn ==
  ASSUME NEW x, NEW C, NEW I, NEW R, NEW D, NEW e, NEW hd, Fixed(x, C, I, R, D, e, hd), NEW d, NEW us, NEW ks, NEW vs,
         NEW hs, NEW ns, NEW L, Working(x, C, I, R, D, e, hd, d, us, ks, vs, hs, ns, L), NEW k \in Cols
  PROVE  /\ LaneOK(x, I, hd, us, ks, vs, L, k) /\ IsLane(L[k]) /\ L[k].lvl \in Level /\ LaneType(L)
         /\ us \in [Level -> Nat] /\ SlotArrays(ks) /\ SlotArrays(vs) /\ SlotArrays(ns) /\ OneOwner(L)
         /\ L[k].pc # "idle" => k \in I /\ k \in C
         /\ L[k].pc \notin Owning \union {"done"} => L[k].my = Nil
         /\ TurnOf(x, L, k) => x \in {"independent", "lockstep"}
         /\ Setting(x, C, I, R, D, e)
         /\ 1 \in Level /\ 2 \in Level
  <1>1. LaneOK(x, I, hd, us, ks, vs, L, k) /\ OneOwner(L) /\ LaneType(L)
    BY DEF Working, Core
  <1>2. IsLane(L[k]) /\ L[k].lvl \in Level
    BY <1>1, LaneFields
  <1>3. us \in [Level -> Nat] /\ SlotArrays(ks) /\ SlotArrays(vs) /\ SlotArrays(ns)
    BY DEF Working, FieldsOK, SlotArrays
  <1>4. Setting(x, C, I, R, D, e)
    BY DEF Fixed
  <1>5. L[k].pc # "idle" => k \in I /\ k \in C
    BY <1>1, <1>4 DEF LaneOK, Setting
  <1>6. L[k].pc \notin Owning \union {"done"} => L[k].my = Nil
    BY <1>1 DEF LaneOK
  <1> QED
    BY <1>1, <1>2, <1>3, <1>4, <1>5, <1>6 DEF TurnOf, Level
-----------------------------------------------------------------------------
\* A step that changes at most the first counter, past the capacity.
LEMMA QuietLists ==
  ASSUME NEW x, NEW us, NEW us2, NEW ks, NEW hs, NEW ns, NEW L, LaneType(L), NEW k \in Cols,
         NEW q, IsLane(q), NEW L2, LaneStep(L, k, q, L2), Quiet(L, k, q),
         NEW l \in Level, Taken(us2, l) = Taken(us, l), q.pc \in Unpushed <=> L[k].pc \in Unpushed,
         Leaves(x, q, l), Enters(L, k, l), ListsOK(x, us, ks, hs, ns, L, l)
  PROVE  ListsOK(x, us2, ks, hs, ns, L2, l)
  <1>1. q.my = L[k].my /\ (q.lvl = L[k].lvl \/ q.my = Nil)
    BY DEF Quiet
  <1>2. Old(us2, L2, l) = Old(us, L, l) /\ Pushed(us2, L2, l) = Pushed(us, L, l)
    BY <1>1, SameSlots
  <1>3. \A y \in Pushed(us, L, l) : ks[l][y] = ks[l][y]
    OBVIOUS
  <1> QED
    BY <1>2, <1>3, ListsLeave

LEMMA QuietWorks ==
  ASSUME NEW x, NEW C, NEW I, NEW R, NEW D, NEW e, NEW hd, Fixed(x, C, I, R, D, e, hd), NEW d, NEW us, NEW ks, NEW vs,
         NEW hs, NEW ns, NEW L, Working(x, C, I, R, D, e, hd, d, us, ks, vs, hs, ns, L),
         NEW k \in Cols, TurnOf(x, L, k), NEW q, NEW L2, LaneStep(L, k, q, L2),
         IsLane(q), Quiet(L, k, q), NEW us2 \in [Level -> Nat], us2[2] = us[2], us[1] <= us2[1],
         \A l \in Level : Taken(us2, l) = Taken(us, l),
         L[k].pc # "track", q.pc \notin {"track", "next"}, Stage(L[k]) <= Stage(q),
         LaneOK(x, I, hd, us2, ks, vs, L2, k),
         ListsOK(x, us2, ks, hs, ns, L2, 1), ListsOK(x, us2, ks, hs, ns, L2, 2)
  PROVE  Working(x, C, I, R, D, e, hd, d, us2, ks, vs, hs, ns, L2)
  <1>1. LaneType(L) /\ us \in [Level -> Nat] /\ x # "multicore"
    <2>1. x \in {"independent", "lockstep"}
      BY LaneIn
    <2> QED
      BY <2>1, LaneIn
  <1>2. LaneType(L2)
    BY <1>1, StepFacts
  <1>3. FieldsOK(us2, ks, vs, hs, ns)
    BY DEF Working, FieldsOK
  <1>4. Core(x, C, I, R, D, e, hd, us2, ks, vs, L2)
    <2>1. Core(x, C, I, R, D, e, hd, us, ks, vs, L)
      BY DEF Working
    <2> QED
      BY <1>1, <2>1, CoreQuiet
  <1>5. DirtyOK(d, hs, L2)
    <2>1. DirtyOK(d, hs, L)
      BY DEF Working
    <2> QED
      BY <1>1, <2>1, DirtyKeeps
  <1>6. InStep(x, L2)
    <2>1. InStep(x, L)
      BY DEF Working
    <2> QED
      BY <1>1, <2>1, InStepKeeps
  <1> QED
    BY <1>2, <1>3, <1>4, <1>5, <1>6 DEF Working

\* a walk stands at g
LEMMA WalkLists ==
  ASSUME NEW x, NEW us, NEW ks, NEW hs, NEW ns, NEW L, LaneType(L), NEW k \in Cols,
         NEW q, IsLane(q), NEW L2, LaneStep(L, k, q, L2),
         NEW l \in Level, L[k].lvl = l, L[k].pc \in {"hash", "walk"},
         q.lvl = l, q.my = L[k].my, q.pc = "walk",
         \A n \in Nat, r \in [SlotsOf(l) -> Nat] :
           Chains(x, l, Pushed(us, L, l), Old(us, L, l), Class(ks, l), hs[l], ns[l], ks[l], L, r, n)
             => SoughtAt(Pushed(us, L, l), Old(us, L, l), Class(ks, l), r, n, Hash(k, HashSize[l]), ks[l], k, q.at),
         ListsOK(x, us, ks, hs, ns, L, 1), ListsOK(x, us, ks, hs, ns, L, 2)
  PROVE  ListsOK(x, us, ks, hs, ns, L2, 1) /\ ListsOK(x, us, ks, hs, ns, L2, 2)
  <1>1. L2[k] = q /\ \A j \in Cols : j # k => L2[j] = L[j]
    BY StepFacts
  <1>2. Quiet(L, k, q) /\ (q.pc \in Unpushed <=> L[k].pc \in Unpushed)
    BY DEF Quiet, Unwritten, After, Unpushed
  <1>3. ASSUME NEW v \in Level, ListsOK(x, us, ks, hs, ns, L, v)
        PROVE  ListsOK(x, us, ks, hs, ns, L2, v)
    <2>1. CASE v # l
      <3>1. Leaves(x, q, v) /\ Enters(L, k, v) /\ Taken(us, v) = Taken(us, v)
        BY <2>1 DEF Leaves, Enters
      <3> QED
        BY <1>2, <1>3, <3>1, QuietLists
    <2>2. CASE v = l
      <3>1. Pushed(us, L2, l) = Pushed(us, L, l) /\ Old(us, L2, l) = Old(us, L, l)
        <4>1. Taken(us, l) = Taken(us, l)
          OBVIOUS
        <4> QED
          BY <1>2, <4>1, SameSlots
      <3>2. \A y \in Pushed(us, L, l) : Pending(L2, l, y) <=> Pending(L, l, y)
        BY <1>1 DEF Pending, OwnerIn
      <3>3. \A n \in Nat, r \in [SlotsOf(l) -> Nat] :
              Chains(x, l, Pushed(us, L, l), Old(us, L, l), Class(ks, l), hs[l], ns[l], ks[l], L, r, n)
                => LaneListed(x, l, Pushed(us, L, l), Old(us, L, l), Class(ks, l), ns[l], ks[l], L2, r, n, k)
        BY <1>1 DEF LaneListed
      <3>4. /\ \A y \in Pushed(us, L, l) : ks[l][y] = ks[l][y] /\ ns[l][y] = ns[l][y]
            /\ \A j \in Cols : j # k /\ L[j].lvl = l /\ L[j].pc \in Owning => ns[l][L[j].my] = ns[l][L[j].my]
            /\ hs[l] = hs[l]
        OBVIOUS
      <3>5. ListsOK(x, us, ks, hs, ns, L, l)
        BY <1>3, <2>2
      <3>6. ListsOK(x, us, ks, hs, ns, L2, l)
        BY <3>1, <3>2, <3>3, <3>4, <3>5, ListsKeep
      <3> QED
        BY <2>2, <3>6
    <2> QED
      BY <2>1, <2>2
  <1> QED
    BY <1>3 DEF Level

LEMMA ClassOf ==
  ASSUME NEW us, NEW ks, NEW L, NEW l \in Level, NEW k
  PROVE  /\ \A w \in Old(us, L, l) : ks[l][w] = k => Class(ks, l)[w] = Hash(k, HashSize[l])
         /\ \A w \in Pushed(us, L, l) : ks[l][w] = k => Class(ks, l)[w] = Hash(k, HashSize[l])
  BY SlotSets DEF Class

LEMMA ReadHeadWorks ==
  ASSUME NEW x, NEW C, NEW I, NEW R, NEW D, NEW e, NEW hd, Fixed(x, C, I, R, D, e, hd), NEW d, NEW us, NEW ks, NEW vs,
         NEW hs, NEW ns, NEW L, Working(x, C, I, R, D, e, hd, d, us, ks, vs, hs, ns, L),
         NEW k \in Cols, TurnOf(x, L, k), NEW q, NEW L2, LaneStep(L, k, q, L2),
         NEW l, l = L[k].lvl, L[k].pc = "hash",
         IsLane(q), q.lvl = l, q.my = L[k].my, q.pc = "walk", q.at = hs[l][Hash(k, HashSize[l])]
  PROVE  Working(x, C, I, R, D, e, hd, d, us, ks, vs, hs, ns, L2)
  <1>1. /\ LaneOK(x, I, hd, us, ks, vs, L, k) /\ IsLane(L[k]) /\ l \in Level /\ LaneType(L) /\ us \in [Level -> Nat]
        /\ L[k].my = Nil /\ x \in {"independent", "lockstep"} /\ k \in I
    BY LaneIn DEF Owning
  <1>2. PICK h \in 0 .. HashSize[l] - 1 : h = Hash(k, HashSize[l])
    BY <1>1, HashIs
  <1>4. IsLane(q) /\ q.lvl = l /\ q.my = Nil /\ q.pc = "walk" /\ q.at = hs[l][h]
    BY <1>1, <1>2
  <1>5. L2[k] = q
    BY <1>1, <1>4, StepFacts
  <1>6. Quiet(L, k, q)
    BY <1>1, <1>4 DEF Quiet, Unwritten, After
  <1>7. \A v \in Level : Filled(us, L2, v) = Filled(us, L, v)
    <2> TAKE v \in Level
    <2>1. Taken(us, v) = Taken(us, v)
      OBVIOUS
    <2>2. q.my = L[k].my /\ (q.lvl = L[k].lvl \/ q.my = Nil) /\ (q.pc \in Unwritten <=> L[k].pc \in Unwritten)
      BY <1>6 DEF Quiet
    <2> QED
      BY <1>1, <1>4, <2>1, <2>2, SameSlots
  <1>8. LaneOK(x, I, hd, us, ks, vs, L2, k)
    BY <1>1, <1>4, <1>5, <1>7 DEF LaneOK, Owning, In, Level
  <1>9. Stage(L[k]) <= Stage(q)
    <2>1. Stage(L[k]) = 10 * l + 1
      BY Stages
    <2>2. Stage(q) = 10 * l + 2
      BY <1>4, Stages
    <2> QED
      BY <1>1, <2>1, <2>2 DEF Level
  <1>10. \A n \in Nat, r \in [SlotsOf(l) -> Nat] :
           Chains(x, l, Pushed(us, L, l), Old(us, L, l), Class(ks, l), hs[l], ns[l], ks[l], L, r, n)
             => SoughtAt(Pushed(us, L, l), Old(us, L, l), Class(ks, l), r, n, Hash(k, HashSize[l]), ks[l], k, q.at)
    <2> SUFFICES ASSUME NEW n \in Nat, NEW r \in [SlotsOf(l) -> Nat],
                        Chains(x, l, Pushed(us, L, l), Old(us, L, l), Class(ks, l), hs[l], ns[l], ks[l], L, r, n)
                 PROVE  SoughtAt(Pushed(us, L, l), Old(us, L, l), Class(ks, l), r, n, h, ks[l], k, hs[l][h])
      BY <1>2, <1>4
    <2>1. Ranked(Pushed(us, L, l), r, n) /\ Latest(Pushed(us, L, l), Class(ks, l), r, h, n, hs[l][h])
      BY DEF Chains
    <2>2. \A w \in Old(us, L, l) : ks[l][w] = k => Class(ks, l)[w] = h
      <3>1. l \in Level
        BY <1>1
      <3>2. \A w \in Old(us, L, l) : ks[l][w] = k => Class(ks, l)[w] = Hash(k, HashSize[l])
        BY <3>1, ClassOf
      <3> QED
        BY <1>2, <3>2
    <2>3. Old(us, L, l) \subseteq Pushed(us, L, l)
      BY <1>1, SlotSets
    <2> QED
      BY <2>1, <2>2, <2>3, HeadSought
  <1>11. ListsOK(x, us, ks, hs, ns, L2, 1) /\ ListsOK(x, us, ks, hs, ns, L2, 2)
    <2>1. ListsOK(x, us, ks, hs, ns, L, 1) /\ ListsOK(x, us, ks, hs, ns, L, 2)
      BY DEF Working
    <2>2. L[k].pc \in {"hash", "walk"} /\ q.my = L[k].my
      BY <1>1, <1>4
    <2> QED
      BY <1>1, <1>4, <1>10, <2>1, <2>2, WalkLists
  <1>12. us[2] = us[2] /\ us[1] <= us[1] /\ \A v \in Level : Taken(us, v) = Taken(us, v)
    BY <1>1 DEF Level
  <1>13. L[k].pc # "track" /\ q.pc \notin {"track", "next"}
    BY <1>4
  <1> QED
    BY <1>1, <1>4, <1>6, <1>8, <1>9, <1>11, <1>12, <1>13, QuietWorks

\* Where a walk stands, and what the link leads to.
LEMMA WalkAt ==
  ASSUME NEW x, NEW C, NEW I, NEW R, NEW D, NEW e, NEW hd, Fixed(x, C, I, R, D, e, hd), NEW d, NEW us, NEW ks, NEW vs,
         NEW hs, NEW ns, NEW L, Working(x, C, I, R, D, e, hd, d, us, ks, vs, hs, ns, L),
         NEW l \in Level, NEW k \in Cols, L[k].pc = "walk", L[k].lvl = l, x \in {"independent", "lockstep"},
         NEW n \in Nat, NEW r \in [SlotsOf(l) -> Nat],
         Chains(x, l, Pushed(us, L, l), Old(us, L, l), Class(ks, l), hs[l], ns[l], ks[l], L, r, n)
  PROVE  \A y \in Pushed(us, L, l) :
           Reaches(Pushed(us, L, l), Old(us, L, l), Class(ks, l), r, Class(ks, l)[y], r[y], ns[l][y])
  <1>1. LaneType(L)
    BY LaneIn
  <1> SUFFICES ASSUME NEW y \in Pushed(us, L, l)
               PROVE  Reaches(Pushed(us, L, l), Old(us, L, l), Class(ks, l), r, Class(ks, l)[y], r[y], ns[l][y])
    OBVIOUS
  <1>2. y # Nil /\ y \in SlotsOf(l)
    BY Sizes, SlotSets
  <1>3. x = "independent" \/ ~ Pending(L, l, y)
    <2>1. SUFFICES ASSUME x = "lockstep", NEW j \in Cols, L[j].lvl = l, L[j].pc \in {"track", "next"} PROVE FALSE
      BY DEF Pending, OwnerIn
    <2>2. Stage(L[k]) >= 10 * L[j].lvl + 8
      BY <2>1 DEF Working, InStep
    <2>3. Stage(L[k]) = 10 * l + 2
      BY Stages
    <2> QED
      BY <2>1, <2>2, <2>3 DEF Level
  <1>4. \A j \in Cols : L[j].lvl = l /\ L[j].my = y => Class(ks, l)[y] = Hash(j, HashSize[l])
    <2> SUFFICES ASSUME NEW j \in Cols, L[j].lvl = l, L[j].my = y
                 PROVE  Class(ks, l)[y] = Hash(j, HashSize[l])
      OBVIOUS
    <2>1. L[j].pc # "write"
      BY DEF Pushed, OwnerIn, Unpushed
    <2>2. ks[l][y] = j
      <3>1. LaneOK(x, I, hd, us, ks, vs, L, j)
        BY LaneIn
      <3> QED
        BY <1>2, <2>1, <3>1 DEF LaneOK
    <2> QED
      BY <1>2, <2>2 DEF Class
  <1>5. Old(us, L, l) \subseteq Pushed(us, L, l)
    BY SlotSets
  <1> QED
    BY <1>3, <1>4, <1>5, LinkReaches

LEMMA WalkOnWorks ==
  ASSUME NEW x, NEW C, NEW I, NEW R, NEW D, NEW e, NEW hd, Fixed(x, C, I, R, D, e, hd), NEW d, NEW us, NEW ks, NEW vs,
         NEW hs, NEW ns, NEW L, Working(x, C, I, R, D, e, hd, d, us, ks, vs, hs, ns, L),
         NEW k \in Cols, TurnOf(x, L, k), NEW q, NEW L2, LaneStep(L, k, q, L2),
         NEW l, l = L[k].lvl, L[k].pc = "walk", L[k].at # Nil, ks[l][L[k].at] # k,
         IsLane(q), q.lvl = l, q.my = L[k].my, q.pc = "walk", q.at = ns[l][L[k].at]
  PROVE  Working(x, C, I, R, D, e, hd, d, us, ks, vs, hs, ns, L2)
  <1>1. /\ LaneOK(x, I, hd, us, ks, vs, L, k) /\ IsLane(L[k]) /\ l \in Level /\ LaneType(L) /\ us \in [Level -> Nat]
        /\ L[k].my = Nil /\ x \in {"independent", "lockstep"} /\ k \in I
    BY LaneIn DEF Owning
  <1>2. PICK a : a = L[k].at
    OBVIOUS
  <1>3. ListsOK(x, us, ks, hs, ns, L, 1) /\ ListsOK(x, us, ks, hs, ns, L, 2) /\ ListsOK(x, us, ks, hs, ns, L, l)
    BY <1>1 DEF Working, Level
  <1>4. a \in Pushed(us, L, l)
    <2>1. PICK n \in Nat, r \in [SlotsOf(l) -> Nat] :
            Chains(x, l, Pushed(us, L, l), Old(us, L, l), Class(ks, l), hs[l], ns[l], ks[l], L, r, n)
      BY <1>3 DEF ListsOK
    <2> QED
      BY <1>2, <2>1 DEF Chains, LaneListed, SoughtAt, OfClass
  <1>6. IsLane(q) /\ q.lvl = l /\ q.my = Nil /\ q.pc = "walk" /\ q.at = ns[l][a]
    BY <1>1, <1>2
  <1>7. L2[k] = q
    BY <1>1, <1>6, StepFacts
  <1>8. Quiet(L, k, q)
    BY <1>1, <1>6 DEF Quiet, Unwritten, After
  <1>9. \A v \in Level : Filled(us, L2, v) = Filled(us, L, v)
    <2> TAKE v \in Level
    <2>1. Taken(us, v) = Taken(us, v)
      OBVIOUS
    <2>2. q.my = L[k].my /\ (q.lvl = L[k].lvl \/ q.my = Nil) /\ (q.pc \in Unwritten <=> L[k].pc \in Unwritten)
      BY <1>8 DEF Quiet
    <2> QED
      BY <1>1, <1>6, <2>1, <2>2, SameSlots
  <1>10. LaneOK(x, I, hd, us, ks, vs, L2, k)
    BY <1>1, <1>6, <1>7, <1>9 DEF LaneOK, Owning, In, Level
  <1>11. Stage(L[k]) <= Stage(q)
    <2>1. Stage(L[k]) = 10 * l + 2
      BY Stages
    <2>2. Stage(q) = 10 * l + 2
      BY <1>6, Stages
    <2> QED
      BY <1>1, <2>1, <2>2 DEF Level
  <1>12. \A n \in Nat, r \in [SlotsOf(l) -> Nat] :
           Chains(x, l, Pushed(us, L, l), Old(us, L, l), Class(ks, l), hs[l], ns[l], ks[l], L, r, n)
             => SoughtAt(Pushed(us, L, l), Old(us, L, l), Class(ks, l), r, n, Hash(k, HashSize[l]), ks[l], k, q.at)
    <2> SUFFICES ASSUME NEW n \in Nat, NEW r \in [SlotsOf(l) -> Nat],
                        Chains(x, l, Pushed(us, L, l), Old(us, L, l), Class(ks, l), hs[l], ns[l], ks[l], L, r, n)
                 PROVE  SoughtAt(Pushed(us, L, l), Old(us, L, l), Class(ks, l), r, n, Hash(k, HashSize[l]), ks[l], k, ns[l][a])
      BY <1>6
    <2>1. Ranked(Pushed(us, L, l), r, n)
      BY DEF Chains
    <2>2. \A w \in Old(us, L, l) : ks[l][w] = k => Class(ks, l)[w] = Hash(k, HashSize[l])
      <3>1. l \in Level
        BY <1>1
      <3> QED
        BY <3>1, ClassOf
    <2>3. Old(us, L, l) \subseteq Pushed(us, L, l) /\ \A y \in Pushed(us, L, l) : r[y] \in Nat
      BY <1>1, SlotSets
    <2>4. SoughtAt(Pushed(us, L, l), Old(us, L, l), Class(ks, l), r, n, Hash(k, HashSize[l]), ks[l], k, a)
      BY <1>2 DEF Chains, LaneListed
    <2>5. Reaches(Pushed(us, L, l), Old(us, L, l), Class(ks, l), r, Class(ks, l)[a], r[a], ns[l][a])
      BY <1>1, <1>4, WalkAt
    <2>6. a # Nil /\ ks[l][a] # k
      BY <1>2
    <2> QED
      BY <2>1, <2>2, <2>3, <2>4, <2>5, <2>6, WalkSought
  <1>13. ListsOK(x, us, ks, hs, ns, L2, 1) /\ ListsOK(x, us, ks, hs, ns, L2, 2)
    <2>1. L[k].pc \in {"hash", "walk"} /\ q.my = L[k].my
      BY <1>1, <1>6
    <2> QED
      BY <1>1, <1>3, <1>6, <1>12, <2>1, WalkLists
  <1>14. us[2] = us[2] /\ us[1] <= us[1] /\ \A v \in Level : Taken(us, v) = Taken(us, v)
    BY <1>1 DEF Level
  <1>15. L[k].pc # "track" /\ q.pc \notin {"track", "next"}
    BY <1>6
  <1> QED
    BY <1>1, <1>6, <1>8, <1>10, <1>11, <1>13, <1>14, <1>15, QuietWorks

-----------------------------------------------------------------------------
\* A quiet step of a lane that is in no list before or after it.
LEMMA LeavesWorks ==
  ASSUME NEW x, NEW C, NEW I, NEW R, NEW D, NEW e, NEW hd, Fixed(x, C, I, R, D, e, hd), NEW d, NEW us, NEW ks, NEW vs,
         NEW hs, NEW ns, NEW L, Working(x, C, I, R, D, e, hd, d, us, ks, vs, hs, ns, L),
         NEW k \in Cols, TurnOf(x, L, k), NEW q, NEW L2, LaneStep(L, k, q, L2),
         IsLane(q), Quiet(L, k, q), NEW us2 \in [Level -> Nat], us2[2] = us[2], us[1] <= us2[1],
         \A l \in Level : Taken(us2, l) = Taken(us, l),
         L[k].pc \notin Owning, q.pc \notin Owning \union {"walk"}, Stage(L[k]) <= Stage(q),
         LaneOK(x, I, hd, us2, ks, vs, L2, k)
  PROVE  Working(x, C, I, R, D, e, hd, d, us2, ks, vs, hs, ns, L2)
  <1>1. LaneType(L) /\ ListsOK(x, us, ks, hs, ns, L, 1) /\ ListsOK(x, us, ks, hs, ns, L, 2)
    BY DEF Working
  <1>2. L[k].pc # "track" /\ q.pc \notin {"track", "next"} /\ (q.pc \in Unpushed <=> L[k].pc \in Unpushed)
    BY DEF Owning, Unpushed
  <1>3. \A l \in Level : Leaves(x, q, l) /\ Enters(L, k, l)
    BY DEF Leaves, Enters, Owning
  <1>4. ASSUME NEW l \in Level, ListsOK(x, us, ks, hs, ns, L, l)
        PROVE  ListsOK(x, us2, ks, hs, ns, L2, l)
    <2>1. Leaves(x, q, l) /\ Enters(L, k, l) /\ Taken(us2, l) = Taken(us, l)
      BY <1>3
    <2> QED
      BY <1>1, <1>2, <1>4, <2>1, QuietLists
  <1>5. ListsOK(x, us2, ks, hs, ns, L2, 1) /\ ListsOK(x, us2, ks, hs, ns, L2, 2)
    BY <1>1, <1>4 DEF Level
  <1> QED
    BY <1>2, <1>5, QuietWorks

\* The slots of a step that takes none.
LEMMA QuietIn ==
  ASSUME NEW L, LaneType(L), NEW k \in Cols, NEW q, IsLane(q), NEW L2, LaneStep(L, k, q, L2), Quiet(L, k, q),
         NEW us, NEW us2, NEW ks, NEW l \in Level, Taken(us2, l) = Taken(us, l)
  PROVE  /\ Old(us2, L2, l) = Old(us, L, l) /\ Filled(us2, L2, l) = Filled(us, L, l)
         /\ \A j : In(us2, ks, L2, l, j) <=> In(us, ks, L, l, j)
  <1>1. q.my = L[k].my /\ (q.lvl = L[k].lvl \/ q.my = Nil) /\ (q.pc \in Unwritten <=> L[k].pc \in Unwritten)
    BY DEF Quiet
  <1>2. Old(us2, L2, l) = Old(us, L, l) /\ Filled(us2, L2, l) = Filled(us, L, l)
    BY <1>1, SameSlots
  <1> QED
    BY <1>2 DEF In

\* A slot in which lane k finds its column is an old one: no other lane inserts it.
LEMMA MineIsOld ==
  ASSUME NEW x, NEW I, NEW hd, NEW us, NEW ks, NEW vs, NEW L, \A j \in Cols : LaneOK(x, I, hd, us, ks, vs, L, j),
         NEW k \in Cols, L[k].my = Nil, NEW l \in Level, NEW s \in Filled(us, L, l), ks[l][s] = k
  PROVE  s \in Old(us, L, l)
  <1>1. s # Nil /\ s \in Taken(us, l)
    BY Sizes, SlotSets
  <1>2. SUFFICES ASSUME NEW j \in Cols, L[j].lvl = l, L[j].my = s PROVE FALSE
    BY <1>1 DEF Old
  <1>3. L[j].pc # "write"
    BY <1>2 DEF Filled, OwnerIn, Unwritten
  <1>4. LaneOK(x, I, hd, us, ks, vs, L, j)
    OBVIOUS
  <1>5. ks[l][s] = j
    BY <1>1, <1>2, <1>3, <1>4 DEF LaneOK
  <1> QED
    BY <1>1, <1>2, <1>5

LEMMA FoundWorks ==
  ASSUME NEW x, NEW C, NEW I, NEW R, NEW D, NEW e, NEW hd, Fixed(x, C, I, R, D, e, hd), NEW d, NEW us, NEW ks, NEW vs,
         NEW hs, NEW ns, NEW L, Working(x, C, I, R, D, e, hd, d, us, ks, vs, hs, ns, L),
         NEW k \in Cols, TurnOf(x, L, k), NEW q, NEW L2, LaneStep(L, k, q, L2),
         NEW l, l = L[k].lvl, L[k].pc = "walk", L[k].at # Nil, ks[l][L[k].at] = k,
         IsLane(q), q.lvl = l, q.my = L[k].my, q.pc = "store", q.at = L[k].at, q.tmp = vs[l][L[k].at]
  PROVE  Working(x, C, I, R, D, e, hd, d, us, ks, vs, hs, ns, L2)
  <1>1. /\ LaneOK(x, I, hd, us, ks, vs, L, k) /\ l \in Level /\ LaneType(L) /\ us \in [Level -> Nat]
        /\ L[k].my = Nil /\ k \in I
    BY LaneIn DEF Owning
  <1>2. PICK a : a = L[k].at
    OBVIOUS
  <1>3. a \in Pushed(us, L, l)
    <2>1. ListsOK(x, us, ks, hs, ns, L, l)
      BY <1>1 DEF Working, Level
    <2>2. PICK n \in Nat, r \in [SlotsOf(l) -> Nat] :
            Chains(x, l, Pushed(us, L, l), Old(us, L, l), Class(ks, l), hs[l], ns[l], ks[l], L, r, n)
      BY <2>1 DEF ListsOK
    <2> QED
      BY <1>2, <2>2 DEF Chains, LaneListed, SoughtAt, OfClass
  <1>4. a \in Old(us, L, l)
    <2>1. \A j \in Cols : LaneOK(x, I, hd, us, ks, vs, L, j)
      BY DEF Working, Core
    <2>2. a \in Filled(us, L, l) /\ ks[l][a] = k
      BY <1>1, <1>2, <1>3, SlotSets
    <2> QED
      BY <1>1, <2>1, <2>2, MineIsOld
  <1>5. L2[k] = q
    BY <1>1, StepFacts
  <1>6. Quiet(L, k, q)
    BY DEF Quiet, Unwritten, After
  <1>7. \A v \in Level : Old(us, L2, v) = Old(us, L, v) /\ \A j : In(us, ks, L2, v, j) <=> In(us, ks, L, v, j)
    <2> TAKE v \in Level
    <2>1. Taken(us, v) = Taken(us, v)
      OBVIOUS
    <2> QED
      BY <1>1, <1>6, <2>1, QuietIn
  <1>8. LaneOK(x, I, hd, us, ks, vs, L2, k)
    <2>1. /\ L2[k].pc = "store" /\ L2[k].lvl = l /\ L2[k].my = Nil /\ L2[k].at = a /\ L2[k].tmp = vs[l][a]
          /\ a \in Old(us, L2, l) /\ ks[l][a] = k
      BY <1>1, <1>2, <1>4, <1>5, <1>7
    <2>2. l = 2 => hd /\ us[1] >= KeySize[1] /\ ~ In(us, ks, L2, 1, k)
      BY <1>1, <1>7 DEF LaneOK, Level
    <2>3. x # "multicore"
      BY <1>1 DEF LaneOK
    <2> QED
      BY <1>1, <2>1, <2>2, <2>3 DEF LaneOK, Owning
  <1>9. Stage(L[k]) <= Stage(q)
    <2>1. Stage(L[k]) = 10 * l + 2 /\ Stage(q) = 10 * l + 3
      BY Stages
    <2> QED
      BY <1>1, <2>1 DEF Level
  <1>10. us[2] = us[2] /\ us[1] <= us[1] /\ \A v \in Level : Taken(us, v) = Taken(us, v)
    BY <1>1 DEF Level
  <1>11. L[k].pc \notin Owning /\ q.pc \notin Owning \union {"walk"}
    BY DEF Owning
  <1> QED
    BY <1>1, <1>6, <1>8, <1>9, <1>10, <1>11, LeavesWorks

\* A walk that has come to an end has missed no slot that has the column.
LEMMA NotFoundWorks ==
  ASSUME NEW x, NEW C, NEW I, NEW R, NEW D, NEW e, NEW hd, Fixed(x, C, I, R, D, e, hd), NEW d, NEW us, NEW ks, NEW vs,
         NEW hs, NEW ns, NEW L, Working(x, C, I, R, D, e, hd, d, us, ks, vs, hs, ns, L),
         NEW k \in Cols, TurnOf(x, L, k), NEW q, NEW L2, LaneStep(L, k, q, L2),
         NEW l, l = L[k].lvl, L[k].pc = "walk", L[k].at = Nil,
         IsLane(q), q.lvl = l, q.my = L[k].my, q.pc = IF l = 1 THEN "check" ELSE "reserve"
  PROVE  Working(x, C, I, R, D, e, hd, d, us, ks, vs, hs, ns, L2)
  <1>1. /\ LaneOK(x, I, hd, us, ks, vs, L, k) /\ l \in Level /\ LaneType(L) /\ us \in [Level -> Nat]
        /\ L[k].my = Nil /\ k \in I
    BY LaneIn DEF Owning
  <1>2. \A s \in Old(us, L, l) : ks[l][s] # k
    <2>1. ListsOK(x, us, ks, hs, ns, L, l)
      BY <1>1 DEF Working, Level
    <2>2. PICK n \in Nat, r \in [SlotsOf(l) -> Nat] :
            Chains(x, l, Pushed(us, L, l), Old(us, L, l), Class(ks, l), hs[l], ns[l], ks[l], L, r, n)
      BY <2>1 DEF ListsOK
    <2> QED
      BY <2>2 DEF Chains, LaneListed, SoughtAt
  <1>3. ~ In(us, ks, L, l, k)
    <2>1. SUFFICES ASSUME NEW s \in Filled(us, L, l), ks[l][s] = k PROVE FALSE
      BY DEF In
    <2>2. \A j \in Cols : LaneOK(x, I, hd, us, ks, vs, L, j)
      BY DEF Working, Core
    <2>3. s \in Old(us, L, l)
      BY <1>1, <2>1, <2>2, MineIsOld
    <2> QED
      BY <1>2, <2>1, <2>3
  <1>4. q.pc \in {"check", "reserve"} /\ (q.pc = "check" => l = 1)
    OBVIOUS
  <1>5. L2[k] = q
    BY <1>1, StepFacts
  <1>6. Quiet(L, k, q)
    BY <1>4 DEF Quiet, Unwritten, After
  <1>7. \A v \in Level : \A j : In(us, ks, L2, v, j) <=> In(us, ks, L, v, j)
    <2> TAKE v \in Level
    <2>1. Taken(us, v) = Taken(us, v)
      OBVIOUS
    <2> QED
      BY <1>1, <1>6, <2>1, QuietIn
  <1>8. LaneOK(x, I, hd, us, ks, vs, L2, k)
    <2>1. /\ L2[k].pc \in {"check", "reserve"} /\ L2[k].lvl = l /\ L2[k].my = Nil /\ (L2[k].pc = "check" => l = 1)
          /\ ~ In(us, ks, L2, l, k)
      BY <1>1, <1>3, <1>4, <1>5, <1>7
    <2>2. l = 2 => hd /\ us[1] >= KeySize[1] /\ ~ In(us, ks, L2, 1, k)
      BY <1>1, <1>7 DEF LaneOK, Level
    <2>3. x # "multicore"
      BY <1>1 DEF LaneOK
    <2> QED
      BY <1>1, <2>1, <2>2, <2>3 DEF LaneOK, Owning
  <1>9. Stage(L[k]) <= Stage(q)
    <2>1. Stage(L[k]) = 10 * l + 2
      BY Stages
    <2>2. Stage(q) = 10 * l + 4 \/ Stage(q) = 10 * l + 5
      BY <1>4, Stages
    <2> QED
      BY <1>1, <2>1, <2>2 DEF Level
  <1>10. us[2] = us[2] /\ us[1] <= us[1] /\ \A v \in Level : Taken(us, v) = Taken(us, v)
    BY <1>1 DEF Level
  <1>11. L[k].pc \notin Owning /\ q.pc \notin Owning \union {"walk"}
    BY <1>4 DEF Owning
  <1> QED
    BY <1>1, <1>6, <1>8, <1>9, <1>10, <1>11, LeavesWorks

LEMMA CheckWorks ==
  ASSUME NEW x, NEW C, NEW I, NEW R, NEW D, NEW e, NEW hd, Fixed(x, C, I, R, D, e, hd), NEW d, NEW us, NEW ks, NEW vs,
         NEW hs, NEW ns, NEW L, Working(x, C, I, R, D, e, hd, d, us, ks, vs, hs, ns, L),
         NEW k \in Cols, TurnOf(x, L, k), NEW q, NEW L2, LaneStep(L, k, q, L2),
         NEW l, l = L[k].lvl, L[k].pc = "check",
         IsLane(q), q.lvl = l, q.my = L[k].my, q.pc = "reserve"
  PROVE  Working(x, C, I, R, D, e, hd, d, us, ks, vs, hs, ns, L2)
  <1>1. /\ LaneOK(x, I, hd, us, ks, vs, L, k) /\ l \in Level /\ LaneType(L) /\ us \in [Level -> Nat]
        /\ L[k].my = Nil /\ k \in I
    BY LaneIn DEF Owning
  <1>2. L2[k] = q
    BY <1>1, StepFacts
  <1>3. Quiet(L, k, q)
    BY DEF Quiet, Unwritten, After
  <1>4. \A v \in Level : \A j : In(us, ks, L2, v, j) <=> In(us, ks, L, v, j)
    <2> TAKE v \in Level
    <2>1. Taken(us, v) = Taken(us, v)
      OBVIOUS
    <2> QED
      BY <1>1, <1>3, <2>1, QuietIn
  <1>5. LaneOK(x, I, hd, us, ks, vs, L2, k)
    <2>1. /\ L2[k].pc = "reserve" /\ L2[k].lvl = l /\ L2[k].my = Nil
          /\ ~ In(us, ks, L2, l, k)
      BY <1>1, <1>2, <1>4 DEF LaneOK
    <2>2. l = 2 => hd /\ us[1] >= KeySize[1] /\ ~ In(us, ks, L2, 1, k)
      BY <1>1, <1>4 DEF LaneOK, Level
    <2>3. x # "multicore"
      BY <1>1 DEF LaneOK
    <2> QED
      BY <1>1, <2>1, <2>2, <2>3 DEF LaneOK, Owning
  <1>6. Stage(L[k]) <= Stage(q)
    <2>1. Stage(L[k]) = 10 * l + 4 /\ Stage(q) = 10 * l + 5
      BY Stages
    <2> QED
      BY <1>1, <2>1 DEF Level
  <1>7. us[2] = us[2] /\ us[1] <= us[1] /\ \A v \in Level : Taken(us, v) = Taken(us, v)
    BY <1>1 DEF Level
  <1>8. L[k].pc \notin Owning /\ q.pc \notin Owning \union {"walk"}
    BY DEF Owning
  <1> QED
    BY <1>1, <1>3, <1>5, <1>6, <1>7, <1>8, LeavesWorks

\* A lane that finds the first map full has a chunk to go on with.  The counter may
\* pass the capacity on the way.
LEMMA FullWorks ==
  ASSUME NEW x, NEW C, NEW I, NEW R, NEW D, NEW e, NEW hd, Fixed(x, C, I, R, D, e, hd), NEW d, NEW us, NEW ks, NEW vs,
         NEW hs, NEW ns, NEW L, Working(x, C, I, R, D, e, hd, d, us, ks, vs, hs, ns, L),
         NEW k \in Cols, TurnOf(x, L, k), NEW q, NEW L2, LaneStep(L, k, q, L2),
         L[k].lvl = 1, L[k].pc \in {"check", "reserve"}, us[1] >= KeySize[1],
         NEW us2, us2 = us \/ CountUp(us, 1, us2),
         IsLane(q), q.lvl = 2, q.my = Nil, q.pc = "hash"
  PROVE  Working(x, C, I, R, D, e, hd, d, us2, ks, vs, hs, ns, L2)
  <1>1. /\ LaneOK(x, I, hd, us, ks, vs, L, k) /\ LaneType(L) /\ us \in [Level -> Nat]
        /\ L[k].my = Nil /\ k \in I /\ 1 \in Level /\ 2 \in Level /\ Setting(x, C, I, R, D, e)
    BY LaneIn DEF Owning
  <1>2. us[1] \in Nat /\ us[2] \in Nat /\ KeySize[1] \in Nat
    BY <1>1, Sizes
  <1>3. /\ us2 \in [Level -> Nat] /\ us2[2] = us[2] /\ us[1] <= us2[1] /\ us2[1] >= KeySize[1]
    BY <1>1, <1>2 DEF CountUp
  <1>4. \A v \in Level : Taken(us2, v) = Taken(us, v)
    <2>1. Taken(us2, 1) = SlotsOf(1) /\ Taken(us, 1) = SlotsOf(1)
      BY <1>1, <1>3, TakenSize
    <2>2. Taken(us2, 2) = Taken(us, 2)
      BY <1>3 DEF Taken
    <2> QED
      BY <2>1, <2>2 DEF Level
  <1>5. hd
    <2>1. Core(x, C, I, R, D, e, hd, us, ks, vs, L)
      BY DEF Working
    <2>2. KeySize[1] < Cardinality(C)
      BY <1>1, <2>1, RoomInFirst
    <2>3. Cardinality(C) \in Nat
      BY <1>1, ColumnsFinite DEF Setting
    <2> QED
      BY <1>2, <2>2, <2>3 DEF Fixed
  <1>6. L2[k] = q
    BY <1>1, StepFacts
  <1>7. Quiet(L, k, q)
    BY <1>1 DEF Quiet, Unwritten, After
  <1>8. \A v \in Level : \A j : In(us2, ks, L2, v, j) <=> In(us, ks, L, v, j)
    <2> TAKE v \in Level
    <2>1. Taken(us2, v) = Taken(us, v)
      BY <1>4
    <2> QED
      BY <1>1, <1>7, <2>1, QuietIn
  <1>9. LaneOK(x, I, hd, us2, ks, vs, L2, k)
    <2>1. L2[k].pc = "hash" /\ L2[k].lvl = 2 /\ L2[k].my = Nil
      BY <1>6
    <2>2. ~ In(us2, ks, L2, 1, k)
      BY <1>1, <1>8 DEF LaneOK
    <2>3. x # "multicore"
      BY <1>1 DEF LaneOK
    <2> QED
      BY <1>1, <1>3, <1>5, <2>1, <2>2, <2>3 DEF LaneOK, Owning
  <1>10. Stage(L[k]) <= Stage(q)
    <2>1. Stage(L[k]) = 14 \/ Stage(L[k]) = 15
      BY Stages
    <2>2. Stage(q) = 21
      BY Stages
    <2> QED
      BY <2>1, <2>2
  <1>11. L[k].pc \notin Owning /\ q.pc \notin Owning \union {"walk"}
    BY DEF Owning
  <1> QED
    BY <1>1, <1>3, <1>4, <1>7, <1>9, <1>10, <1>11, LeavesWorks

\* The second map is large enough for the row.
LEMMA SecondHasRoom ==
  ASSUME NEW x, NEW C, NEW I, NEW R, NEW D, NEW e, NEW hd, Fixed(x, C, I, R, D, e, hd), NEW d, NEW us, NEW ks, NEW vs,
         NEW hs, NEW ns, NEW L, Working(x, C, I, R, D, e, hd, d, us, ks, vs, hs, ns, L),
         NEW k \in Cols, L[k].lvl = 2, L[k].pc \in {"check", "reserve"}
  PROVE  us[2] < KeySize[2]
  <1>1. /\ LaneOK(x, I, hd, us, ks, vs, L, k) /\ LaneType(L) /\ us \in [Level -> Nat]
        /\ L[k].my = Nil /\ k \in C /\ Setting(x, C, I, R, D, e)
    BY LaneIn DEF Owning
  <1>2. Core(x, C, I, R, D, e, hd, us, ks, vs, L) /\ Cardinality(C) <= KeySize[2]
    BY DEF Working, Fixed
  <1>3. ~ In(us, ks, L, 2, k)
    BY <1>1 DEF LaneOK
  <1> QED
    BY <1>1, <1>2, <1>3, RoomInSecond

\* A lane takes a slot: it is in no list yet.
LEMMA ReserveWorks ==
  ASSUME NEW x, NEW C, NEW I, NEW R, NEW D, NEW e, NEW hd, Fixed(x, C, I, R, D, e, hd), NEW d, NEW us, NEW ks, NEW vs,
         NEW hs, NEW ns, NEW L, Working(x, C, I, R, D, e, hd, d, us, ks, vs, hs, ns, L),
         NEW k \in Cols, TurnOf(x, L, k), NEW q, NEW L2, LaneStep(L, k, q, L2),
         NEW l, l = L[k].lvl, L[k].pc = "reserve", us[l] < KeySize[l], NEW us2, CountUp(us, l, us2),
         IsLane(q), q.lvl = l, q.my = us[l], q.pc = "write"
  PROVE  Working(x, C, I, R, D, e, hd, d, us2, ks, vs, hs, ns, L2)
  <1>1. /\ LaneOK(x, I, hd, us, ks, vs, L, k) /\ l \in Level /\ LaneType(L) /\ us \in [Level -> Nat]
        /\ L[k].my = Nil /\ k \in I /\ x \in {"independent", "lockstep"}
    BY LaneIn DEF Owning
  <1>2. us2 \in [Level -> Nat]
    BY <1>1, OneMoreTaken
  <1>3. LaneType(L2)
    BY <1>1, StepFacts
  <1>4. FieldsOK(us2, ks, vs, hs, ns)
    BY <1>2 DEF Working, FieldsOK
  <1>5. Core(x, C, I, R, D, e, hd, us, ks, vs, L)
    BY DEF Working
  <1>6. Core(x, C, I, R, D, e, hd, us2, ks, vs, L2)
    BY <1>1, <1>5, CoreReserve
  <1>7. \A v \in Level : Old(us2, L2, v) = Old(us, L, v) /\ Pushed(us2, L2, v) = Pushed(us, L, v)
    <2>1. \A j \in Cols : L[j].my # Nil => L[j].my \in Taken(us, L[j].lvl)
      BY <1>5 DEF Core, LaneOK
    <2> QED
      BY <1>1, <2>1, ReserveSlots
  <1>8. ASSUME NEW v \in Level, ListsOK(x, us, ks, hs, ns, L, v)
        PROVE  ListsOK(x, us2, ks, hs, ns, L2, v)
    <2>1. Leaves(x, q, v) /\ Enters(L, k, v)
      BY DEF Leaves, Enters
    <2>2. Old(us2, L2, v) = Old(us, L, v) /\ Pushed(us2, L2, v) = Pushed(us, L, v)
      BY <1>7
    <2>3. \A y \in Pushed(us, L, v) : ks[v][y] = ks[v][y]
      OBVIOUS
    <2> QED
      BY <1>1, <1>8, <2>1, <2>2, <2>3, ListsLeave
  <1>9. ListsOK(x, us2, ks, hs, ns, L2, 1) /\ ListsOK(x, us2, ks, hs, ns, L2, 2)
    BY <1>8 DEF Working, Level
  <1>10. DirtyOK(d, hs, L2)
    <2>1. DirtyOK(d, hs, L) /\ L[k].pc # "track"
      BY DEF Working
    <2> QED
      BY <1>1, <2>1, DirtyKeeps
  <1>11. InStep(x, L2)
    <2>1. InStep(x, L) /\ q.pc \notin {"track", "next"}
      BY DEF Working
    <2>2. Stage(L[k]) <= Stage(q)
      <3>1. Stage(L[k]) = 10 * l + 5 /\ Stage(q) = 10 * l + 6
        BY Stages
      <3> QED
        BY <1>1, <3>1 DEF Level
    <2> QED
      BY <1>1, <2>1, <2>2, InStepKeeps
  <1> QED
    BY <1>3, <1>4, <1>6, <1>9, <1>10, <1>11 DEF Working

-----------------------------------------------------------------------------
LEMMA WriteInType ==
  ASSUME NEW f, NEW T, \A u \in Level : f[u] \in [SlotsOf(u) -> T], NEW l \in Level, NEW s, NEW v \in T,
         NEW f2, WriteIn(f, l, s, v, f2)
  PROVE  \A u \in Level : f2[u] \in [SlotsOf(u) -> T]
  <1> TAKE u \in Level
  <1>1. f[u] \in [SlotsOf(u) -> T]
    OBVIOUS
  <1>2. CASE u = l
    BY <1>1, <1>2 DEF WriteIn
  <1>3. CASE u # l
    BY <1>1, <1>3 DEF WriteIn
  <1> QED
    BY <1>2, <1>3

\* A lane writes its slot, which is in no list yet.
LEMMA WriteWorks ==
  ASSUME NEW x, NEW C, NEW I, NEW R, NEW D, NEW e, NEW hd, Fixed(x, C, I, R, D, e, hd), NEW d, NEW us, NEW ks, NEW vs,
         NEW hs, NEW ns, NEW L, Working(x, C, I, R, D, e, hd, d, us, ks, vs, hs, ns, L),
         NEW k \in Cols, TurnOf(x, L, k), NEW q, NEW L2, LaneStep(L, k, q, L2),
         NEW l, l = L[k].lvl, L[k].pc = "write",
         NEW ks2, WriteIn(ks, l, L[k].my, k, ks2), NEW vs2, WriteIn(vs, l, L[k].my, Val[e], vs2),
         IsLane(q), q.lvl = l, q.my = L[k].my, q.pc = IF x = "independent" THEN "link" ELSE "exchange"
  PROVE  Working(x, C, I, R, D, e, hd, d, us, ks2, vs2, hs, ns, L2)
  <1>1. /\ LaneOK(x, I, hd, us, ks, vs, L, k) /\ l \in Level /\ LaneType(L) /\ us \in [Level -> Nat] /\ OneOwner(L)
        /\ k \in I /\ x \in {"independent", "lockstep"} /\ Setting(x, C, I, R, D, e)
        /\ SlotArrays(ks) /\ SlotArrays(vs)
    BY LaneIn
  <1>2. q.pc \in {"link", "exchange"} /\ (q.pc = "link" => x = "independent") /\ (q.pc = "exchange" => x # "independent")
    OBVIOUS
  <1>3. LaneType(L2)
    BY <1>1, StepFacts
  <1>4. FieldsOK(us, ks2, vs2, hs, ns)
    <2>1. FieldsOK(us, ks, vs, hs, ns)
      BY DEF Working
    <2>2. \A u \in Level : ks2[u] \in [SlotsOf(u) -> Cols \union {Nil}]
      <3>1. \A u \in Level : ks[u] \in [SlotsOf(u) -> Cols \union {Nil}]
        BY <2>1 DEF FieldsOK
      <3>2. k \in Cols \union {Nil}
        OBVIOUS
      <3> QED
        BY <1>1, <3>1, <3>2, WriteInType
    <2>3. \A u \in Level : vs2[u] \in [SlotsOf(u) -> Int]
      <3>1. \A u \in Level : vs[u] \in [SlotsOf(u) -> Int]
        BY <2>1 DEF FieldsOK
      <3>2. Val[e] \in Int
        BY <1>1, DoneFacts
      <3> QED
        BY <1>1, <3>1, <3>2, WriteInType
    <2> QED
      BY <2>1, <2>2, <2>3 DEF FieldsOK
  <1>5. Core(x, C, I, R, D, e, hd, us, ks2, vs2, L2)
    <2>1. Core(x, C, I, R, D, e, hd, us, ks, vs, L) /\ x # "multicore"
      BY <1>1 DEF Working
    <2> QED
      BY <1>1, <1>2, <2>1, CoreWrite
  <1>6. /\ \A v \in Level : Old(us, L2, v) = Old(us, L, v) /\ Pushed(us, L2, v) = Pushed(us, L, v)
        /\ L[k].my \notin Pushed(us, L, l)
    <2>1. L[k].my \in Taken(us, l)
      BY <1>1 DEF LaneOK, Owning
    <2> QED
      BY <1>1, <1>2, <2>1, WriteSlots
  <1>7. \A v \in Level : \A y \in Pushed(us, L, v) : ks2[v][y] = ks[v][y]
    <2> TAKE v \in Level
    <2> TAKE y \in Pushed(us, L, v)
    <2>1. y \in SlotsOf(v) /\ (v # l \/ y # L[k].my)
      BY <1>6, SlotSets
    <2> QED
      BY <1>1, <2>1, Written
  <1>8. ASSUME NEW v \in Level, ListsOK(x, us, ks, hs, ns, L, v)
        PROVE  ListsOK(x, us, ks2, hs, ns, L2, v)
    <2>1. Leaves(x, q, v) /\ Enters(L, k, v)
      BY <1>2 DEF Leaves, Enters
    <2>2. Old(us, L2, v) = Old(us, L, v) /\ Pushed(us, L2, v) = Pushed(us, L, v)
      BY <1>6
    <2>3. \A y \in Pushed(us, L, v) : ks2[v][y] = ks[v][y]
      BY <1>7
    <2> QED
      BY <1>1, <1>8, <2>1, <2>2, <2>3, ListsLeave
  <1>9. ListsOK(x, us, ks2, hs, ns, L2, 1) /\ ListsOK(x, us, ks2, hs, ns, L2, 2)
    BY <1>8 DEF Working, Level
  <1>10. DirtyOK(d, hs, L2)
    <2>1. DirtyOK(d, hs, L) /\ L[k].pc # "track"
      BY DEF Working
    <2> QED
      BY <1>1, <2>1, DirtyKeeps
  <1>11. InStep(x, L2)
    <2>1. InStep(x, L) /\ q.pc \notin {"track", "next"}
      BY DEF Working
    <2>2. Stage(L[k]) <= Stage(q)
      <3>1. Stage(L[k]) = 10 * l + 6
        BY Stages
      <3>2. Stage(q) = 10 * l + 7 \/ Stage(q) = 10 * l + 8
        BY <1>2, Stages
      <3> QED
        BY <1>1, <3>1, <3>2 DEF Level
    <2> QED
      BY <1>1, <2>1, <2>2, InStepKeeps
  <1> QED
    BY <1>3, <1>4, <1>5, <1>9, <1>10, <1>11 DEF Working

\* A lane stores its sum, and is done.
LEMMA AccumulateWorks ==
  ASSUME NEW x, NEW C, NEW I, NEW R, NEW D, NEW e, NEW hd, Fixed(x, C, I, R, D, e, hd), NEW d, NEW us, NEW ks, NEW vs,
         NEW hs, NEW ns, NEW L, Working(x, C, I, R, D, e, hd, d, us, ks, vs, hs, ns, L),
         NEW k \in Cols, TurnOf(x, L, k), NEW q, NEW L2, LaneStep(L, k, q, L2),
         NEW l, l = L[k].lvl, L[k].pc = "store", NEW vs2, WriteIn(vs, l, L[k].at, L[k].tmp + Val[e], vs2),
         IsLane(q), q.lvl = l, q.my = L[k].my, q.pc = "done"
  PROVE  Working(x, C, I, R, D, e, hd, d, us, ks, vs2, hs, ns, L2)
  <1>1. /\ LaneOK(x, I, hd, us, ks, vs, L, k) /\ l \in Level /\ LaneType(L) /\ us \in [Level -> Nat]
        /\ k \in I /\ x \in {"independent", "lockstep"} /\ Setting(x, C, I, R, D, e)
        /\ SlotArrays(vs) /\ IsLane(L[k])
    BY LaneIn
  <1>3. LaneType(L2)
    BY <1>1, StepFacts
  <1>4. FieldsOK(us, ks, vs2, hs, ns)
    <2>1. FieldsOK(us, ks, vs, hs, ns)
      BY DEF Working
    <2>2. \A u \in Level : vs2[u] \in [SlotsOf(u) -> Int]
      <3>1. \A u \in Level : vs[u] \in [SlotsOf(u) -> Int]
        BY <2>1 DEF FieldsOK
      <3>2. Val[e] \in Int
        BY <1>1, DoneFacts
      <3>3. L[k].tmp \in Int
        BY <1>1, LaneFields
      <3>4. L[k].tmp + Val[e] \in Int
        BY <3>2, <3>3
      <3> QED
        BY <1>1, <3>1, <3>4, WriteInType
    <2> QED
      BY <2>1, <2>2 DEF FieldsOK
  <1>5. Core(x, C, I, R, D, e, hd, us, ks, vs2, L2)
    <2>1. Core(x, C, I, R, D, e, hd, us, ks, vs, L)
      BY DEF Working
    <2>2. L[k].my = Nil /\ L[k].pc \notin After \union Unwritten
      BY <1>1 DEF LaneOK, Owning, After, Unwritten
    <2>3. PICK a \in Old(us, L, l) : ks[l][a] = k /\ a = L[k].at /\ L[k].tmp = vs[l][a]
      BY <1>1 DEF LaneOK
    <2>4. WriteIn(vs, l, a, vs[l][a] + Val[e], vs2)
      BY <2>3
    <2> QED
      BY <1>1, <2>1, <2>2, <2>3, <2>4, CoreSum
  <1>6. ASSUME NEW v \in Level, ListsOK(x, us, ks, hs, ns, L, v)
        PROVE  ListsOK(x, us, ks, hs, ns, L2, v)
    <2>1. Leaves(x, q, v) /\ Enters(L, k, v)
      BY DEF Leaves, Enters
    <2>2. Old(us, L2, v) = Old(us, L, v) /\ Pushed(us, L2, v) = Pushed(us, L, v)
      <3>1. Taken(us, v) = Taken(us, v) /\ (q.pc \in Unpushed <=> L[k].pc \in Unpushed)
        BY DEF Unpushed
      <3> QED
        BY <1>1, <3>1, SameSlots
    <2>3. \A y \in Pushed(us, L, v) : ks[v][y] = ks[v][y]
      OBVIOUS
    <2> QED
      BY <1>1, <1>6, <2>1, <2>2, <2>3, ListsLeave
  <1>7. ListsOK(x, us, ks, hs, ns, L2, 1) /\ ListsOK(x, us, ks, hs, ns, L2, 2)
    BY <1>6 DEF Working, Level
  <1>8. DirtyOK(d, hs, L2)
    <2>1. DirtyOK(d, hs, L) /\ L[k].pc # "track"
      BY DEF Working
    <2> QED
      BY <1>1, <2>1, DirtyKeeps
  <1>9. InStep(x, L2)
    <2>1. InStep(x, L) /\ q.pc \notin {"track", "next"}
      BY DEF Working
    <2>2. Stage(L[k]) <= Stage(q)
      <3>1. Stage(q) = 100 /\ Stage(L[k]) <= 100
        BY <1>1, Stages, StageType
      <3> QED
        BY <3>1
    <2> QED
      BY <1>1, <2>1, <2>2, InStepKeeps
  <1> QED
    BY <1>3, <1>4, <1>5, <1>7, <1>8, <1>9 DEF Working

-----------------------------------------------------------------------------
\* The lists of the level that the lane is not in.
LEMMA ListsElsewhere ==
  ASSUME NEW x, NEW l \in Level, NEW us, NEW ks, NEW hs, NEW ns, NEW hs2, NEW ns2,
         NEW L, LaneType(L), NEW k \in Cols, NEW q, IsLane(q), NEW L2, LaneStep(L, k, q, L2),
         q.lvl # l, L[k].lvl # l, hs2[l] = hs[l], ns2[l] = ns[l], ListsOK(x, us, ks, hs, ns, L, l)
  PROVE  ListsOK(x, us, ks, hs2, ns2, L2, l)
  <1>1. L2[k] = q /\ \A j \in Cols : j # k => L2[j] = L[j]
    BY StepFacts
  <1>2. \A j \in Cols : \/ L2[j] = L[j]
                        \/ L2[j].lvl # l /\ L[j].lvl # l
    BY <1>1
  <1>3. Pushed(us, L2, l) = Pushed(us, L, l) /\ Old(us, L2, l) = Old(us, L, l)
    BY <1>2 DEF Pushed, Old, OwnerIn
  <1>4. Leaves(x, q, l) /\ Enters(L, k, l) /\ \A y \in Pushed(us, L, l) : ks[l][y] = ks[l][y]
    BY DEF Leaves, Enters
  <1>5. ListsOK(x, us, ks, hs, ns, L2, l)
    BY <1>3, <1>4, ListsLeave
  <1> QED
    BY <1>5, ListsOther

\* A quiet step of a lane that has its slot.
LEMMA OwnerWorks ==
  ASSUME NEW x, NEW C, NEW I, NEW R, NEW D, NEW e, NEW hd, Fixed(x, C, I, R, D, e, hd), NEW d, NEW us, NEW ks, NEW vs,
         NEW hs, NEW ns, NEW L, Working(x, C, I, R, D, e, hd, d, us, ks, vs, hs, ns, L),
         NEW k \in Cols, TurnOf(x, L, k), NEW q, NEW L2, LaneStep(L, k, q, L2), IsLane(q),
         L[k].pc \in {"link", "exchange", "track", "next"}, q.lvl = L[k].lvl, q.my = L[k].my,
         q.pc \in {"exchange", "track", "next", "done"},
         q.pc = "track" => L[k].lvl = 2
  PROVE  /\ Core(x, C, I, R, D, e, hd, us, ks, vs, L2) /\ LaneType(L2)
         /\ \A v \in Level : Old(us, L2, v) = Old(us, L, v)
  <1>1. /\ LaneOK(x, I, hd, us, ks, vs, L, k) /\ LaneType(L) /\ us \in [Level -> Nat]
        /\ k \in I /\ x \in {"independent", "lockstep"} /\ L[k].lvl \in Level /\ 1 \in Level
    BY LaneIn
  <1>2. L2[k] = q /\ LaneType(L2)
    BY <1>1, StepFacts
  <1>3. Quiet(L, k, q)
    BY DEF Quiet, Unwritten, After
  <1>4. \A v \in Level : Old(us, L2, v) = Old(us, L, v) /\ \A j : In(us, ks, L2, v, j) <=> In(us, ks, L, v, j)
    <2> TAKE v \in Level
    <2>1. Taken(us, v) = Taken(us, v)
      OBVIOUS
    <2> QED
      BY <1>1, <1>3, <2>1, QuietIn
  <1>5. LaneOK(x, I, hd, us, ks, vs, L2, k)
    <2>1. /\ L[k].my # Nil /\ L[k].my \in Taken(us, L[k].lvl) /\ ks[L[k].lvl][L[k].my] = k
      BY <1>1 DEF LaneOK, Owning
    <2>2. L[k].lvl = 2 => hd /\ us[1] >= KeySize[1] /\ ~ In(us, ks, L2, 1, k)
      BY <1>1, <1>4 DEF LaneOK
    <2>3. x # "multicore"
      BY <1>1
    <2>4. L2[k].pc \in {"exchange", "track", "next", "done"} /\ L2[k].lvl = L[k].lvl /\ L2[k].my = L[k].my
          /\ (L2[k].pc = "track" => L2[k].lvl = 2)
      BY <1>2
    <2> QED
      BY <1>1, <2>1, <2>2, <2>3, <2>4 DEF LaneOK, Owning
  <1>6. us[2] = us[2] /\ us[1] <= us[1] /\ \A v \in Level : Taken(us, v) = Taken(us, v)
    BY <1>1
  <1>7. Core(x, C, I, R, D, e, hd, us, ks, vs, L) /\ x # "multicore"
    BY <1>1 DEF Working
  <1> QED
    BY <1>1, <1>2, <1>3, <1>4, <1>5, <1>6, <1>7, CoreQuiet

\* what lane k knows of a slot of its own
LEMMA OwnSlot ==
  ASSUME NEW x, NEW C, NEW I, NEW R, NEW D, NEW e, NEW hd, NEW us, NEW ks, NEW vs, NEW L, LaneType(L),
         Core(x, C, I, R, D, e, hd, us, ks, vs, L),
         NEW k \in Cols, L[k].pc \in {"link", "exchange", "track", "next"}, NEW l, l = L[k].lvl, l \in Level
  PROVE  /\ L[k].my \in Taken(us, l) /\ L[k].my \in SlotsOf(l) /\ L[k].my # Nil
         /\ ks[l][L[k].my] = k /\ Class(ks, l)[L[k].my] = Hash(k, HashSize[l])
         /\ L[k].pc \in {"track", "next"} => L[k].my \in Pushed(us, L, l)
         /\ L[k].pc \in {"link", "exchange"} => L[k].my \notin Pushed(us, L, l)
         /\ \A j \in Cols : j # k /\ L[j].lvl = l /\ L[j].pc \in Owning => L[j].my \in SlotsOf(l) /\ L[j].my # L[k].my
  <1>1. LaneOK(x, I, hd, us, ks, vs, L, k) /\ OneOwner(L) /\ \A j \in Cols : LaneOK(x, I, hd, us, ks, vs, L, j)
    BY DEF Core
  <1>2. PICK m : m = L[k].my
    OBVIOUS
  <1>3. m \in Taken(us, l) /\ m # Nil /\ ks[l][m] = k /\ m \in SlotsOf(l)
    <2>1. m \in Taken(us, l) /\ m # Nil /\ ks[l][m] = k
      BY <1>1, <1>2 DEF LaneOK, Owning
    <2> QED
      BY <2>1, SlotSets
  <1>4. Class(ks, l)[m] = Hash(k, HashSize[l])
    BY <1>3 DEF Class
  <1>5. \A j \in Cols : L[j].lvl = l /\ L[j].my = m => j = k
    BY <1>1, <1>2, <1>3 DEF OneOwner
  <1>6. L[k].pc \in {"track", "next"} => m \in Pushed(us, L, l)
    BY <1>3, <1>5 DEF Pushed, OwnerIn, Unpushed
  <1>7. L[k].pc \in {"link", "exchange"} => m \notin Pushed(us, L, l)
    BY <1>2 DEF Pushed, OwnerIn, Unpushed
  <1>8. ASSUME NEW j \in Cols, j # k, L[j].lvl = l, L[j].pc \in Owning PROVE L[j].my \in SlotsOf(l) /\ L[j].my # m
    <2>1. L[j].my \in Taken(us, l)
      BY <1>1, <1>8 DEF LaneOK
    <2> QED
      BY <1>5, <1>8, <2>1, SlotSets
  <1> QED
    BY <1>2, <1>3, <1>4, <1>6, <1>7, <1>8

\* Before it is pushed a slot is linked to the head.
LEMMA LinkWorks ==
  ASSUME NEW x, NEW C, NEW I, NEW R, NEW D, NEW e, NEW hd, Fixed(x, C, I, R, D, e, hd), NEW d, NEW us, NEW ks, NEW vs,
         NEW hs, NEW ns, NEW L, Working(x, C, I, R, D, e, hd, d, us, ks, vs, hs, ns, L),
         NEW k \in Cols, TurnOf(x, L, k), NEW q, NEW L2, LaneStep(L, k, q, L2),
         NEW l, l = L[k].lvl, L[k].pc = "link",
         NEW ns2, WriteIn(ns, l, L[k].my, hs[l][Hash(k, HashSize[l])], ns2),
         IsLane(q), q.lvl = l, q.my = L[k].my, q.pc = "exchange"
  PROVE  Working(x, C, I, R, D, e, hd, d, us, ks, vs, hs, ns2, L2)
  <1>1. LaneType(L) /\ l \in Level /\ SlotArrays(ns)
    BY LaneIn
  <1>2. Core(x, C, I, R, D, e, hd, us, ks, vs, L) /\ FieldsOK(us, ks, vs, hs, ns)
    BY DEF Working
  <1>3. /\ Core(x, C, I, R, D, e, hd, us, ks, vs, L2) /\ LaneType(L2)
        /\ \A v \in Level : Old(us, L2, v) = Old(us, L, v)
    BY OwnerWorks
  <1>4. PICK m : m = L[k].my
    OBVIOUS
  <1>5. PICK h \in 0 .. HashSize[l] - 1 : h = Hash(k, HashSize[l])
    BY <1>1, HashIs
  <1>6. /\ m \in SlotsOf(l) /\ m \notin Pushed(us, L, l)
        /\ \A j \in Cols : j # k /\ L[j].lvl = l /\ L[j].pc \in Owning => L[j].my \in SlotsOf(l) /\ L[j].my # m
    BY <1>1, <1>2, <1>4, OwnSlot
  <1>7. /\ ns2[l][m] = hs[l][h]
        /\ \A v \in Level : \A p \in SlotsOf(v) : v # l \/ p # m => ns2[v][p] = ns[v][p]
    BY <1>1, <1>4, <1>5, <1>6, Written
  <1>8. \A v \in Level : v # l => ns2[v] = ns[v]
    BY DEF WriteIn
  <1>9. FieldsOK(us, ks, vs, hs, ns2)
    <2>1. ns2[l] = [ns[l] EXCEPT ![m] = hs[l][h]]
      BY <1>1, <1>4, <1>5 DEF WriteIn
    <2>2. hs[l][h] \in SlotsOf(l) \union {Nil} /\ ns[l] \in [SlotsOf(l) -> SlotsOf(l) \union {Nil}]
      BY <1>1, <1>2 DEF FieldsOK
    <2>3. ns2[l] \in [SlotsOf(l) -> SlotsOf(l) \union {Nil}]
      BY <2>1, <2>2
    <2> QED
      BY <1>2, <1>8, <2>3 DEF FieldsOK
  <1>10. L2[k] = q /\ \A j \in Cols : j # k => L2[j] = L[j]
    BY <1>1, StepFacts
  <1>11. ListsOK(x, us, ks, hs, ns2, L2, l)
    <2>1. Pushed(us, L2, l) = Pushed(us, L, l) /\ Old(us, L2, l) = Old(us, L, l)
      <3>1. Taken(us, l) = Taken(us, l) /\ (q.pc \in Unpushed <=> L[k].pc \in Unpushed)
        BY DEF Unpushed
      <3> QED
        BY <1>1, <3>1, SameSlots
    <2>2. \A y \in Pushed(us, L, l) : Pending(L2, l, y) <=> Pending(L, l, y)
      BY <1>10 DEF Pending, OwnerIn
    <2>3. \A y \in Pushed(us, L, l) : ks[l][y] = ks[l][y] /\ ns2[l][y] = ns[l][y]
      <3> TAKE y \in Pushed(us, L, l)
      <3>1. y \in SlotsOf(l) /\ y # m
        BY <1>1, <1>6, SlotSets
      <3> QED
        BY <1>1, <1>7, <3>1
    <2>4. \A j \in Cols : j # k /\ L[j].lvl = l /\ L[j].pc \in Owning => ns2[l][L[j].my] = ns[l][L[j].my]
      BY <1>1, <1>6, <1>7
    <2>5. ASSUME NEW n \in Nat, NEW r \in [SlotsOf(l) -> Nat],
                 Chains(x, l, Pushed(us, L, l), Old(us, L, l), Class(ks, l), hs[l], ns[l], ks[l], L, r, n)
          PROVE  LaneListed(x, l, Pushed(us, L, l), Old(us, L, l), Class(ks, l), ns2[l], ks[l], L2, r, n, k)
      <3>1. Latest(Pushed(us, L, l), Class(ks, l), r, h, n, hs[l][h])
        BY <2>5 DEF Chains
      <3>2. Old(us, L, l) \subseteq Pushed(us, L, l)
        BY <1>1, SlotSets
      <3>3. Reaches(Pushed(us, L, l), Old(us, L, l), Class(ks, l), r, h, n, hs[l][h])
        BY <3>1, <3>2, HeadReaches
      <3>4. L2[k].my = m /\ L2[k].pc = "exchange"
        BY <1>4, <1>10
      <3> QED
        BY <1>5, <1>7, <3>3, <3>4 DEF LaneListed
    <2>6. hs[l] = hs[l] /\ ListsOK(x, us, ks, hs, ns, L, l)
      BY <1>1 DEF Working, Level
    <2> QED
      BY <1>1, <2>1, <2>2, <2>3, <2>4, <2>5, <2>6, ListsKeep
  <1>12. ASSUME NEW v \in Level, ListsOK(x, us, ks, hs, ns, L, v)
         PROVE  ListsOK(x, us, ks, hs, ns2, L2, v)
    <2>1. CASE v = l
      BY <1>11, <2>1
    <2>2. CASE v # l
      <3>1. q.lvl # v /\ L[k].lvl # v /\ hs[v] = hs[v] /\ ns2[v] = ns[v]
        BY <1>8, <2>2
      <3> QED
        BY <1>1, <1>12, <3>1, ListsElsewhere
    <2> QED
      BY <2>1, <2>2
  <1>13. ListsOK(x, us, ks, hs, ns2, L2, 1) /\ ListsOK(x, us, ks, hs, ns2, L2, 2)
    BY <1>12 DEF Working, Level
  <1>14. DirtyOK(d, hs, L2)
    <2>1. DirtyOK(d, hs, L) /\ L[k].pc # "track"
      BY DEF Working
    <2> QED
      BY <1>1, <2>1, DirtyKeeps
  <1>15. InStep(x, L2)
    <2>1. InStep(x, L) /\ q.pc \notin {"track", "next"}
      BY DEF Working
    <2>2. Stage(L[k]) <= Stage(q)
      <3>1. Stage(L[k]) = 10 * l + 7 /\ Stage(q) = 10 * l + 8
        BY Stages
      <3> QED
        BY <1>1, <3>1 DEF Level
    <2> QED
      BY <1>1, <2>1, <2>2, InStepKeeps
  <1> QED
    BY <1>3, <1>9, <1>13, <1>14, <1>15 DEF Working

-----------------------------------------------------------------------------
LEMMA PushedGrows ==
  ASSUME NEW us, NEW l \in Level, NEW L, LaneType(L), OneOwner(L), NEW k \in Cols, NEW q, IsLane(q),
         NEW L2, LaneStep(L, k, q, L2), L[k].lvl = l, L[k].my \in Taken(us, l), L[k].my # Nil, L[k].pc = "exchange",
         q.lvl = l, q.my = L[k].my, q.pc \in {"track", "next"}
  PROVE  Pushed(us, L2, l) = Pushed(us, L, l) \union {L[k].my}
  <1>1. L2[k] = q /\ \A j \in Cols : j # k => L2[j] = L[j]
    BY StepFacts
  <1>2. PICK m : m = L[k].my
    OBVIOUS
  <1>3. \A s \in Taken(us, l) : s # m => (OwnerIn(L2, l, s, Unpushed) <=> OwnerIn(L, l, s, Unpushed))
    BY <1>1, <1>2 DEF OwnerIn
  <1>4. ~ OwnerIn(L2, l, m, Unpushed)
    <2>1. SUFFICES ASSUME NEW j \in Cols, L2[j].lvl = l, L2[j].my = m, L2[j].pc \in Unpushed PROVE FALSE
      BY DEF OwnerIn
    <2>2. L[j].lvl = l /\ L[j].my = m
      BY <1>1, <1>2, <2>1
    <2>3. j = k
      BY <1>2, <2>2 DEF OneOwner
    <2> QED
      BY <1>1, <2>1, <2>3 DEF Unpushed
  <1> QED
    BY <1>2, <1>3, <1>4 DEF Pushed

LEMMA PushLists ==
  ASSUME NEW x, NEW l \in Level, NEW us, NEW ks, NEW hs, NEW hs2, NEW ns,
         NEW L, LaneType(L), OneOwner(L), NEW k \in Cols, NEW q, IsLane(q), NEW L2, LaneStep(L, k, q, L2),
         NEW m \in SlotsOf(l), m \notin Pushed(us, L, l), m \in Taken(us, l), m # Nil,
         L[k].lvl = l, L[k].my = m, L[k].pc = "exchange", q.lvl = l, q.my = m, q.pc \in {"track", "next"},
         NEW h \in 0 .. HashSize[l] - 1, h = Hash(k, HashSize[l]), Class(ks, l)[m] = h,
         hs2[l][h] = m, \A f \in 0 .. HashSize[l] - 1 : f # h => hs2[l][f] = hs[l][f],
         q.tmp = hs[l][h],
         \A j \in Cols : L[j].pc \in {"track", "next"} /\ L[j].lvl = l => L[j].my \in Pushed(us, L, l),
         Old(us, L2, l) = Old(us, L, l),
         ListsOK(x, us, ks, hs, ns, L, l)
  PROVE  ListsOK(x, us, ks, hs2, ns, L2, l)
  <1>1. PICK n \in Nat, r \in [SlotsOf(l) -> Nat] :
          Chains(x, l, Pushed(us, L, l), Old(us, L, l), Class(ks, l), hs[l], ns[l], ks[l], L, r, n)
    BY DEF ListsOK
  <1>2. PICK P : P = Pushed(us, L, l)
    OBVIOUS
  <1>3. PICK O : O = Old(us, L, l)
    OBVIOUS
  <1>4. P \subseteq SlotsOf(l) /\ O \subseteq P
    BY <1>2, <1>3, SlotSets
  <1>5. \A j \in Cols : L[j].pc \in {"track", "next"} /\ L[j].lvl = l => L[j].my \in P
    BY <1>2
  <1>6. m \notin P
    BY <1>2
  <1>7. Chains(x, l, P, O, Class(ks, l), hs[l], ns[l], ks[l], L, r, n)
    BY <1>1, <1>2, <1>3
  <1>8. PICK r2 \in [SlotsOf(l) -> Nat] : r2[m] = n /\ \A y \in P : r2[y] = r[y]
    <2>1. [r EXCEPT ![m] = n] \in [SlotsOf(l) -> Nat] /\ [r EXCEPT ![m] = n][m] = n
      OBVIOUS
    <2>2. \A y \in P : [r EXCEPT ![m] = n][y] = r[y]
      BY <1>4, <1>6
    <2> QED
      BY <2>1, <2>2
  <1>9. Pushed(us, L2, l) = P \union {m} /\ Old(us, L2, l) = O
    BY <1>2, <1>3, PushedGrows
  <1>10. Chains(x, l, P \union {m}, O, Class(ks, l), hs2[l], ns[l], ks[l], L2, r2, n + 1)
    <2>1. Pushes(l, P, Class(ks, l), hs[l], hs2[l], L, k, q, L2, m, h, r, r2, n)
      BY <1>4, <1>5, <1>6, <1>8 DEF Pushes
    <2> QED
      BY <1>4, <1>7, <2>1, ChainsPush
  <1> QED
    BY <1>9, <1>10 DEF ListsOK

\* The slot becomes the head of its hash.
LEMMA ExchangeWorks ==
  ASSUME NEW x, NEW C, NEW I, NEW R, NEW D, NEW e, NEW hd, Fixed(x, C, I, R, D, e, hd), NEW d, NEW us, NEW ks, NEW vs,
         NEW hs, NEW ns, NEW L, Working(x, C, I, R, D, e, hd, d, us, ks, vs, hs, ns, L),
         NEW k \in Cols, TurnOf(x, L, k), NEW q, NEW L2, LaneStep(L, k, q, L2),
         NEW l, l = L[k].lvl, L[k].pc = "exchange", NEW h, h = Hash(k, HashSize[l]),
         NEW hs2, WriteIn(hs, l, h, L[k].my, hs2),
         IsLane(q), q.lvl = l, q.my = L[k].my, q.tmp = hs[l][h],
         q.pc = IF l = 2 /\ hs[l][h] = Nil THEN "track" ELSE "next"
  PROVE  Working(x, C, I, R, D, e, hd, d, us, ks, vs, hs2, ns, L2)
  <1>1. /\ LaneType(L) /\ l \in Level /\ OneOwner(L) /\ h \in 0 .. HashSize[l] - 1 /\ 2 \in Level
        /\ LaneOK(x, I, hd, us, ks, vs, L, k)
    BY LaneIn, HashIs
  <1>2. Core(x, C, I, R, D, e, hd, us, ks, vs, L) /\ FieldsOK(us, ks, vs, hs, ns)
    BY DEF Working
  <1>3. q.pc \in {"track", "next"} /\ (q.pc = "track" => l = 2) /\ (l = 2 /\ hs[l][h] = Nil => q.pc = "track")
    OBVIOUS
  <1>4. /\ Core(x, C, I, R, D, e, hd, us, ks, vs, L2) /\ LaneType(L2)
        /\ \A v \in Level : Old(us, L2, v) = Old(us, L, v)
    BY <1>3, OwnerWorks
  <1>5. PICK m : m = L[k].my
    OBVIOUS
  <1>6. /\ m \in SlotsOf(l) /\ m \notin Pushed(us, L, l) /\ m \in Taken(us, l) /\ m # Nil
        /\ Class(ks, l)[m] = h
    BY <1>1, <1>2, <1>5, OwnSlot
  <1>7. hs2[l] = [hs[l] EXCEPT ![h] = m] /\ \A v \in Level : v # l => hs2[v] = hs[v]
    BY <1>1, <1>5 DEF WriteIn
  <1>8. hs[l] \in [0 .. HashSize[l] - 1 -> SlotsOf(l) \union {Nil}]
    BY <1>1, <1>2 DEF FieldsOK
  <1>9. FieldsOK(us, ks, vs, hs2, ns)
    <2>1. hs2[l] \in [0 .. HashSize[l] - 1 -> SlotsOf(l) \union {Nil}]
      BY <1>1, <1>6, <1>7, <1>8
    <2> QED
      BY <1>2, <1>7, <2>1 DEF FieldsOK
  <1>10. L2[k] = q /\ \A j \in Cols : j # k => L2[j] = L[j]
    BY <1>1, StepFacts
  <1>11. ListsOK(x, us, ks, hs2, ns, L2, l)
    <2>1. ListsOK(x, us, ks, hs, ns, L, l)
      BY <1>1 DEF Working, Level
    <2>2. \A j \in Cols : L[j].pc \in {"track", "next"} /\ L[j].lvl = l => L[j].my \in Pushed(us, L, l)
      <3> SUFFICES ASSUME NEW j \in Cols, L[j].pc \in {"track", "next"}, L[j].lvl = l
                   PROVE  L[j].my \in Pushed(us, L, l)
        OBVIOUS
      <3>1. L[j].pc \in {"link", "exchange", "track", "next"}
        OBVIOUS
      <3> QED
        BY <1>1, <1>2, <3>1, OwnSlot
    <2>3. L[k].lvl = l /\ L[k].my = m /\ q.my = m
      BY <1>5
    <2>4. Old(us, L2, l) = Old(us, L, l)
      BY <1>1, <1>4
    <2>5. hs2[l][h] = m /\ \A f \in 0 .. HashSize[l] - 1 : f # h => hs2[l][f] = hs[l][f]
      <3>1. PICK g : g = hs[l]
        OBVIOUS
      <3>2. DOMAIN g = 0 .. HashSize[l] - 1 /\ hs2[l] = [g EXCEPT ![h] = m]
        BY <1>7, <1>8, <3>1
      <3> QED
        BY <1>1, <3>1, <3>2
    <2> QED
      BY <1>1, <1>3, <1>6, <2>1, <2>2, <2>3, <2>4, <2>5, PushLists
  <1>12. ASSUME NEW v \in Level, ListsOK(x, us, ks, hs, ns, L, v)
         PROVE  ListsOK(x, us, ks, hs2, ns, L2, v)
    <2>1. CASE v = l
      BY <1>11, <2>1
    <2>2. CASE v # l
      <3>1. q.lvl # v /\ L[k].lvl # v /\ hs2[v] = hs[v] /\ ns[v] = ns[v]
        BY <1>7, <2>2
      <3> QED
        BY <1>1, <1>12, <3>1, ListsElsewhere
    <2> QED
      BY <2>1, <2>2
  <1>13. ListsOK(x, us, ks, hs2, ns, L2, 1) /\ ListsOK(x, us, ks, hs2, ns, L2, 2)
    BY <1>12 DEF Working, Level
  <1>14. DirtyOK(d, hs2, L2)
    <2>1. SUFFICES ASSUME NEW f \in 0 .. HashSize[2] - 1, hs2[2][f] # Nil
                   PROVE  \/ \E n \in DOMAIN d : d[n] = f
                          \/ \E j \in Cols : L2[j].lvl = 2 /\ L2[j].pc = "track" /\ Hash(j, HashSize[2]) = f
      BY DEF DirtyOK
    <2>2. CASE hs[2][f] # Nil
      <3>1. \/ \E n \in DOMAIN d : d[n] = f
            \/ \E j \in Cols : L[j].lvl = 2 /\ L[j].pc = "track" /\ Hash(j, HashSize[2]) = f
        BY <2>2 DEF Working, DirtyOK
      <3>2. ASSUME NEW j \in Cols, L[j].lvl = 2, L[j].pc = "track"
            PROVE  L2[j] = L[j]
        BY <1>10, <3>2
      <3> QED
        BY <3>1, <3>2
    <2>3. CASE hs[2][f] = Nil
      <3>1. l = 2
        BY <1>1, <1>7, <2>1, <2>3
      <3>2. f = h
        <4>1. f \in 0 .. HashSize[l] - 1 /\ hs2[l][f] # Nil /\ hs[l][f] = Nil
          BY <2>1, <2>3, <3>1
        <4>2. PICK g : g = hs[l]
          OBVIOUS
        <4>3. DOMAIN g = 0 .. HashSize[l] - 1 /\ hs2[l] = [g EXCEPT ![h] = m] /\ g[f] = Nil
          BY <1>7, <1>8, <4>1, <4>2
        <4> QED
          BY <4>1, <4>3
      <3>3. q.pc = "track" /\ L2[k] = q
        BY <1>3, <1>10, <2>3, <3>1, <3>2
      <3> QED
        BY <3>1, <3>2, <3>3
    <2> QED
      BY <2>2, <2>3
  <1>15. InStep(x, L2)
    <2>1. InStep(x, L) /\ q.lvl = L[k].lvl /\ L[k].pc \in {"exchange", "track", "next"}
      BY DEF Working
    <2>2. Stage(L[k]) <= Stage(q)
      <3>1. Stage(L[k]) = 10 * l + 8
        BY Stages
      <3>2. Stage(q) = 10 * l + 9 \/ Stage(q) = 10 * l + 10
        BY <1>3, Stages
      <3> QED
        BY <1>1, <3>1, <3>2 DEF Level
    <2> QED
      BY <1>1, <2>1, <2>2, InStepKeeps
  <1>16. ~ hd => hs2[2] = Unlinked(2)
    <2>1. l = 2 => hd
      BY <1>1 DEF LaneOK
    <2> QED
      BY <1>1, <1>7, <2>1 DEF Working
  <1> QED
    BY <1>4, <1>9, <1>13, <1>14, <1>15, <1>16 DEF Working

LEMMA TrackWorks ==
  ASSUME NEW x, NEW C, NEW I, NEW R, NEW D, NEW e, NEW hd, Fixed(x, C, I, R, D, e, hd), NEW d, NEW us, NEW ks, NEW vs,
         NEW hs, NEW ns, NEW L, Working(x, C, I, R, D, e, hd, d, us, ks, vs, hs, ns, L),
         NEW k \in Cols, TurnOf(x, L, k), NEW q, NEW L2, LaneStep(L, k, q, L2),
         NEW l, l = L[k].lvl, L[k].pc = "track", NEW d2, d2 = Append(d, Hash(k, HashSize[l])),
         IsLane(q), q.lvl = l, q.my = L[k].my, q.tmp = L[k].tmp, q.pc = "next"
  PROVE  Working(x, C, I, R, D, e, hd, d2, us, ks, vs, hs, ns, L2)
  <1>1. LaneType(L) /\ l \in Level /\ LaneOK(x, I, hd, us, ks, vs, L, k)
    BY LaneIn
  <1>2. l = 2
    BY <1>1 DEF LaneOK
  <1>3. /\ Core(x, C, I, R, D, e, hd, us, ks, vs, L2) /\ LaneType(L2)
        /\ \A v \in Level : Old(us, L2, v) = Old(us, L, v)
    BY OwnerWorks
  <1>4. L2[k] = q /\ \A j \in Cols : j # k => L2[j] = L[j]
    BY <1>1, StepFacts
  <1>5. PICK h \in 0 .. HashSize[2] - 1 : h = Hash(k, HashSize[2])
    BY <1>1, <1>2, HashIs
  <1>6. d \in Seq(0 .. HashSize[2] - 1) /\ d2 = Append(d, h)
    BY <1>2, <1>5 DEF Working
  <1>7. d2 \in Seq(0 .. HashSize[2] - 1)
    BY <1>6
  <1>8. d2[Len(d) + 1] = h /\ Len(d) + 1 \in DOMAIN d2 /\ \A n \in DOMAIN d : n \in DOMAIN d2 /\ d2[n] = d[n]
    BY <1>6
  <1>9. ASSUME NEW v \in Level, ListsOK(x, us, ks, hs, ns, L, v)
        PROVE  ListsOK(x, us, ks, hs, ns, L2, v)
    <2>1. Pushed(us, L2, v) = Pushed(us, L, v) /\ Old(us, L2, v) = Old(us, L, v)
      <3>1. Taken(us, v) = Taken(us, v) /\ (q.pc \in Unpushed <=> L[k].pc \in Unpushed)
        BY DEF Unpushed
      <3> QED
        BY <1>1, <3>1, SameSlots
    <2>2. \A y \in Pushed(us, L, v) : Pending(L2, v, y) <=> Pending(L, v, y)
      <3>1. \A j \in Cols : /\ L2[j].lvl = L[j].lvl /\ L2[j].my = L[j].my
                            /\ L2[j].pc \in {"track", "next"} <=> L[j].pc \in {"track", "next"}
        BY <1>4
      <3> QED
        BY <3>1 DEF Pending, OwnerIn
    <2>3. /\ \A y \in Pushed(us, L, v) : ks[v][y] = ks[v][y] /\ ns[v][y] = ns[v][y]
          /\ \A j \in Cols : j # k /\ L[j].lvl = v /\ L[j].pc \in Owning => ns[v][L[j].my] = ns[v][L[j].my]
          /\ hs[v] = hs[v]
      OBVIOUS
    <2>4. ASSUME NEW n \in Nat, NEW r \in [SlotsOf(v) -> Nat],
                 Chains(x, v, Pushed(us, L, v), Old(us, L, v), Class(ks, v), hs[v], ns[v], ks[v], L, r, n)
          PROVE  LaneListed(x, v, Pushed(us, L, v), Old(us, L, v), Class(ks, v), ns[v], ks[v], L2, r, n, k)
      <3>1. LaneListed(x, v, Pushed(us, L, v), Old(us, L, v), Class(ks, v), ns[v], ks[v], L, r, n, k)
        BY <2>4 DEF Chains
      <3>2. L2[k].lvl = L[k].lvl /\ L2[k].my = L[k].my /\ L2[k].tmp = L[k].tmp /\ L2[k].pc = "next"
        BY <1>4
      <3> QED
        BY <3>1, <3>2 DEF LaneListed
    <2> QED
      BY <1>1, <1>9, <2>1, <2>2, <2>3, <2>4, ListsKeep
  <1>10. ListsOK(x, us, ks, hs, ns, L2, 1) /\ ListsOK(x, us, ks, hs, ns, L2, 2)
    BY <1>9 DEF Working, Level
  <1>11. DirtyOK(d2, hs, L2)
    <2>1. SUFFICES ASSUME NEW f \in 0 .. HashSize[2] - 1, hs[2][f] # Nil
                   PROVE  \/ \E n \in DOMAIN d2 : d2[n] = f
                          \/ \E j \in Cols : L2[j].lvl = 2 /\ L2[j].pc = "track" /\ Hash(j, HashSize[2]) = f
      BY DEF DirtyOK
    <2>2. CASE f = h
      BY <1>8, <2>2
    <2>3. CASE f # h
      <3>1. \/ \E n \in DOMAIN d : d[n] = f
            \/ \E j \in Cols : L[j].lvl = 2 /\ L[j].pc = "track" /\ Hash(j, HashSize[2]) = f
        BY <2>1 DEF Working, DirtyOK
      <3>2. ASSUME NEW j \in Cols, Hash(j, HashSize[2]) = f PROVE L2[j] = L[j]
        BY <1>4, <1>5, <2>3, <3>2
      <3> QED
        BY <1>8, <3>1, <3>2
    <2> QED
      BY <2>2, <2>3
  <1>12. InStep(x, L2)
    <2>1. InStep(x, L) /\ q.lvl = L[k].lvl /\ L[k].pc \in {"exchange", "track", "next"}
      BY DEF Working
    <2>2. Stage(L[k]) <= Stage(q)
      <3>1. Stage(L[k]) = 10 * l + 9 /\ Stage(q) = 10 * l + 10
        BY Stages
      <3> QED
        BY <1>1, <3>1 DEF Level
    <2> QED
      BY <1>1, <2>1, <2>2, InStepKeeps
  <1> QED
    BY <1>3, <1>7, <1>10, <1>11, <1>12 DEF Working

\* The slot leads to the head that it has replaced; the lane is done.
LEMMA SetNextWorks ==
  ASSUME NEW x, NEW C, NEW I, NEW R, NEW D, NEW e, NEW hd, Fixed(x, C, I, R, D, e, hd), NEW d, NEW us, NEW ks, NEW vs,
         NEW hs, NEW ns, NEW L, Working(x, C, I, R, D, e, hd, d, us, ks, vs, hs, ns, L),
         NEW k \in Cols, TurnOf(x, L, k), NEW q, NEW L2, LaneStep(L, k, q, L2),
         NEW l, l = L[k].lvl, L[k].pc = "next", NEW ns2, WriteIn(ns, l, L[k].my, L[k].tmp, ns2),
         IsLane(q), q.lvl = l, q.my = L[k].my, q.pc = "done"
  PROVE  Working(x, C, I, R, D, e, hd, d, us, ks, vs, hs, ns2, L2)
  <1>1. LaneType(L) /\ l \in Level /\ SlotArrays(ns) /\ OneOwner(L)
    BY LaneIn
  <1>2. Core(x, C, I, R, D, e, hd, us, ks, vs, L) /\ FieldsOK(us, ks, vs, hs, ns)
    BY DEF Working
  <1>3. /\ Core(x, C, I, R, D, e, hd, us, ks, vs, L2) /\ LaneType(L2)
        /\ \A v \in Level : Old(us, L2, v) = Old(us, L, v)
    BY OwnerWorks
  <1>4. PICK m : m = L[k].my
    OBVIOUS
  <1>5. /\ m \in SlotsOf(l) /\ m \in Pushed(us, L, l) /\ m # Nil /\ Class(ks, l)[m] = Hash(k, HashSize[l])
        /\ \A j \in Cols : j # k /\ L[j].lvl = l /\ L[j].pc \in Owning => L[j].my \in SlotsOf(l) /\ L[j].my # m
    BY <1>1, <1>2, <1>4, OwnSlot
  <1>6. /\ ns2[l][m] = L[k].tmp
        /\ \A v \in Level : \A p \in SlotsOf(v) : v # l \/ p # m => ns2[v][p] = ns[v][p]
    BY <1>1, <1>4, <1>5, Written
  <1>7. \A v \in Level : v # l => ns2[v] = ns[v]
    BY DEF WriteIn
  <1>8. PICK n \in Nat, r \in [SlotsOf(l) -> Nat] :
          Chains(x, l, Pushed(us, L, l), Old(us, L, l), Class(ks, l), hs[l], ns[l], ks[l], L, r, n)
    <2>1. ListsOK(x, us, ks, hs, ns, L, l)
      BY <1>1 DEF Working, Level
    <2> QED
      BY <2>1 DEF ListsOK
  <1>9. L[k].tmp \in SlotsOf(l) \union {Nil}
    <2>1. LaneListed(x, l, Pushed(us, L, l), Old(us, L, l), Class(ks, l), ns[l], ks[l], L, r, n, k)
      BY <1>8 DEF Chains
    <2>2. L[k].tmp \in Pushed(us, L, l) \union {Nil}
      BY <2>1 DEF LaneListed, Latest, Reaches, OfClass
    <2> QED
      BY <1>1, <2>2, SlotSets
  <1>10. FieldsOK(us, ks, vs, hs, ns2)
    <2>1. ns2[l] = [ns[l] EXCEPT ![m] = L[k].tmp]
      BY <1>1, <1>4 DEF WriteIn
    <2>2. ns[l] \in [SlotsOf(l) -> SlotsOf(l) \union {Nil}]
      BY <1>1, <1>2 DEF FieldsOK
    <2>3. ns2[l] \in [SlotsOf(l) -> SlotsOf(l) \union {Nil}]
      BY <1>9, <2>1, <2>2
    <2> QED
      BY <1>2, <1>7, <2>3 DEF FieldsOK
  <1>11. ListsOK(x, us, ks, hs, ns2, L2, l)
    <2>1. Pushed(us, L2, l) = Pushed(us, L, l) /\ Old(us, L2, l) = Old(us, L, l)
      <3>1. Taken(us, l) = Taken(us, l) /\ (q.pc \in Unpushed <=> L[k].pc \in Unpushed)
        BY DEF Unpushed
      <3> QED
        BY <1>1, <3>1, SameSlots
    <2>2. \A y \in Pushed(us, L, l) : y # m => ns2[l][y] = ns[l][y]
      <3> TAKE y \in Pushed(us, L, l)
      <3>1. y \in SlotsOf(l)
        BY <1>1, SlotSets
      <3> QED
        BY <1>1, <1>6, <3>1
    <2>3. \A j \in Cols : j # k /\ L[j].lvl = l /\ L[j].pc \in Owning => ns2[l][L[j].my] = ns[l][L[j].my]
      BY <1>1, <1>5, <1>6
    <2>4. L[k].lvl = l /\ L[k].my = m
      BY <1>4
    <2>5. Chains(x, l, Pushed(us, L, l), Old(us, L, l), Class(ks, l), hs[l], ns2[l], ks[l], L2, r, n)
      BY <1>1, <1>5, <1>6, <1>8, <2>2, <2>3, <2>4, ChainsSetNext
    <2> QED
      BY <1>8, <2>1, <2>5 DEF ListsOK
  <1>12. ASSUME NEW v \in Level, ListsOK(x, us, ks, hs, ns, L, v)
         PROVE  ListsOK(x, us, ks, hs, ns2, L2, v)
    <2>1. CASE v = l
      BY <1>11, <2>1
    <2>2. CASE v # l
      <3>1. q.lvl # v /\ L[k].lvl # v /\ hs[v] = hs[v] /\ ns2[v] = ns[v]
        BY <1>7, <2>2
      <3> QED
        BY <1>1, <1>12, <3>1, ListsElsewhere
    <2> QED
      BY <2>1, <2>2
  <1>13. ListsOK(x, us, ks, hs, ns2, L2, 1) /\ ListsOK(x, us, ks, hs, ns2, L2, 2)
    BY <1>12 DEF Working, Level
  <1>14. DirtyOK(d, hs, L2)
    <2>1. DirtyOK(d, hs, L) /\ L[k].pc # "track"
      BY DEF Working
    <2> QED
      BY <1>1, <2>1, DirtyKeeps
  <1>15. InStep(x, L2)
    <2>1. InStep(x, L) /\ q.pc \notin {"track", "next"}
      BY DEF Working
    <2>2. Stage(L[k]) <= Stage(q)
      <3>1. Stage(q) = 100 /\ IsLane(L[k])
        BY <1>1, Stages, LaneFields
      <3> QED
        BY <3>1, StageType
    <2> QED
      BY <1>1, <2>1, <2>2, InStepKeeps
  <1> QED
    BY <1>3, <1>10, <1>13, <1>14, <1>15 DEF Working

-----------------------------------------------------------------------------
(***************************************************************************)
(* The insertions of a host thread, one after the other.                   *)
(***************************************************************************)
LEMMA NoOwners ==
  ASSUME NEW us, NEW L, \A j \in Cols : L[j].my = Nil, NEW l \in Level
  PROVE  /\ Old(us, L, l) = Taken(us, l) /\ Pushed(us, L, l) = Taken(us, l) /\ Filled(us, L, l) = Taken(us, l)
         /\ \A s \in Taken(us, l) : ~ Pending(L, l, s)
  <1>1. \A s \in Taken(us, l) : s # Nil
    BY Sizes, SlotSets
  <1>2. \A s \in Taken(us, l) : \A j \in Cols : ~ (L[j].lvl = l /\ L[j].my = s)
    BY <1>1
  <1> QED
    BY <1>2 DEF Old, Pushed, Filled, Pending, OwnerIn

\* there is one lane: all slots that are taken are in the second map and old
LEMMA HostLane ==
  ASSUME NEW C, NEW I, NEW R, NEW D, NEW e, NEW hd, NEW us \in [Level -> Nat], NEW ks, NEW vs, NEW L,
         Core("multicore", C, I, R, D, e, hd, us, ks, vs, L)
  PROVE  /\ \A j \in Cols : L[j].my = Nil /\ L[j].lvl = 1 /\ L[j].pc \in {"idle", "hash", "done"}
         /\ \A l \in Level : /\ Old(us, L, l) = Taken(us, l) /\ Pushed(us, L, l) = Taken(us, l)
                             /\ Filled(us, L, l) = Taken(us, l)
                             /\ \A s \in Taken(us, l) : ~ Pending(L, l, s)
         /\ us[1] = 0 /\ Taken(us, 1) = {}
  <1>1. \A j \in Cols : LaneOK("multicore", I, hd, us, ks, vs, L, j)
    BY DEF Core
  <1>2. \A j \in Cols : L[j].my = Nil /\ L[j].lvl = 1 /\ L[j].pc \in {"idle", "hash", "done"}
    BY <1>1 DEF LaneOK
  <1>3. us[1] = 0
    BY DEF Core, KeysOK
  <1>4. Taken(us, 1) = {}
    <2>1. \A s \in SlotsOf(1) : s \in Nat
      BY Sizes DEF Level
    <2> QED
      BY <1>3, <2>1 DEF Taken
  <1> QED
    BY <1>2, <1>3, <1>4, NoOwners

LinksAre(m, N) == m.nexts = N

HostChains(l, P, c, B, N, K, L, r, n, k, h) ==
  /\ P \subseteq SlotsOf(l) /\ N \in [SlotsOf(l) -> SlotsOf(l) \union {Nil}]
  /\ r \in [SlotsOf(l) -> Nat] /\ n \in Nat /\ h \in 0 .. HashSize[l] - 1
  /\ Chains("multicore", l, P, P, c, B, N, K, L, r, n) /\ \A s \in P : ~ Pending(L, l, s)
  /\ \A w \in P : K[w] = k => c[w] = h

\* The slots that the walk over the list of a column finds are those that have it.
LEMMA HostFinds ==
  ASSUME NEW l \in Level, NEW k \in Cols, NEW P, NEW c, NEW B, NEW N, NEW K, NEW L, NEW r, NEW n, NEW h,
         HostChains(l, P, c, B, N, K, L, r, n, k, h), NEW m, LinksAre(m, N)
  PROVE  \A i : i \in Ahead(m, B[h]) /\ K[i] = k <=> i \in P /\ K[i] = k
  <1> USE DEF LinksAre
  <1>0. /\ P \subseteq SlotsOf(l) /\ N \in [SlotsOf(l) -> SlotsOf(l) \union {Nil}]
        /\ r \in [SlotsOf(l) -> Nat] /\ n \in Nat /\ h \in 0 .. HashSize[l] - 1
        /\ Chains("multicore", l, P, P, c, B, N, K, L, r, n) /\ \A s \in P : ~ Pending(L, l, s)
        /\ \A w \in P : K[w] = k => c[w] = h
    BY DEF HostChains
  <1>1. P \subseteq DOMAIN m.nexts /\ \A y \in P : r[y] \in Nat
    BY <1>0
  <1>2. Ranked(P, r, n) /\ Latest(P, c, r, h, n, B[h]) /\ \A y \in P : Latest(P, c, r, c[y], r[y], N[y])
    BY <1>0 DEF Chains
  <1>3. SoughtAt(P, P, c, r, n, h, K, k, B[h])
    <2>1. P \subseteq P
      OBVIOUS
    <2> QED
      BY <1>0, <1>2, <2>1, HeadSought
  <1>4. \A y \in P : Reaches(P, P, c, r, c[y], r[y], m.nexts[y])
    BY <1>2 DEF Latest
  <1>5. ASSUME NEW w \in P, K[w] = k PROVE w \in Ahead(m, B[h])
    <2>1. c[w] = h /\ P \subseteq P
      BY <1>0, <1>5
    <2> QED
      BY <1>0, <1>1, <1>2, <1>3, <1>4, <1>5, <2>1, SoughtAhead
  <1>6. Ahead(m, B[h]) \subseteq P
    <2>1. B[h] \in P \union {Nil}
      BY <1>3 DEF SoughtAt, OfClass
    <2>2. \A y \in P : m.nexts[y] \in P \union {Nil}
      BY <1>4 DEF Reaches, OfClass
    <2> QED
      BY <1>0, <1>1, <2>1, <2>2, AheadInLists
  <1> QED
    BY <1>5, <1>6

LEMMA HostIdle ==
  ASSUME NEW C, NEW I, NEW R, NEW D, NEW e, NEW hd, NEW d, NEW us, NEW ks, NEW vs,
         NEW hs, NEW ns, NEW L, Working("multicore", C, I, R, D, e, hd, d, us, ks, vs, hs, ns, L), NEW j \in Cols
  PROVE  L[j].my = Nil
  <1>1. LaneOK("multicore", I, hd, us, ks, vs, L, j)
    BY DEF Working, Core
  <1> QED
    BY <1>1 DEF LaneOK

\* every taken slot of the second map is old and pushed
HostLists(l, us, ks, hs, N, L, P, r, n) ==
  /\ P = Taken(us, l) /\ P \subseteq SlotsOf(l) /\ \A s \in P : ~ Pending(L, l, s)
  /\ Chains("multicore", l, P, P, Class(ks, l), hs[l], N, ks[l], L, r, n)

LEMMA HostListsOK ==
  ASSUME NEW C, NEW I, NEW R, NEW D, NEW e, NEW hd, NEW d, NEW us, NEW ks, NEW vs,
         NEW hs, NEW ns, NEW L, Working("multicore", C, I, R, D, e, hd, d, us, ks, vs, hs, ns, L)
  PROVE  \E n \in Nat, r \in [SlotsOf(2) -> Nat] : HostLists(2, us, ks, hs, ns[2], L, Taken(us, 2), r, n)
  <1>1. 2 \in Level
    BY DEF Level
  <1>2. \A j \in Cols : L[j].my = Nil
    BY HostIdle
  <1>3. PICK n \in Nat, r \in [SlotsOf(2) -> Nat] :
          Chains("multicore", 2, Pushed(us, L, 2), Old(us, L, 2), Class(ks, 2), hs[2], ns[2], ks[2], L, r, n)
    BY DEF Working, ListsOK
  <1>4. /\ Old(us, L, 2) = Taken(us, 2) /\ Pushed(us, L, 2) = Taken(us, 2)
        /\ \A s \in Taken(us, 2) : ~ Pending(L, 2, s)
    BY <1>1, <1>2, NoOwners
  <1>5. Chains("multicore", 2, Taken(us, 2), Taken(us, 2), Class(ks, 2), hs[2], ns[2], ks[2], L, r, n)
    BY <1>3, <1>4
  <1>6. Taken(us, 2) \subseteq SlotsOf(2)
    BY DEF Taken
  <1> QED
    BY <1>4, <1>5, <1>6 DEF HostLists

LEMMA HostWalk ==
  ASSUME NEW us, NEW ks, NEW hs, NEW N \in [SlotsOf(2) -> SlotsOf(2) \union {Nil}], NEW L, NEW P,
         NEW r \in [SlotsOf(2) -> Nat], NEW n \in Nat, HostLists(2, us, ks, hs, N, L, P, r, n),
         NEW k \in Cols, NEW m, LinksAre(m, N)
  PROVE  \A i : i \in Ahead(m, hs[2][Hash(k, HashSize[2])]) /\ ks[2][i] = k <=> i \in P /\ ks[2][i] = k
  <1>1. 2 \in Level
    BY DEF Level
  <1>2. PICK h \in 0 .. HashSize[2] - 1 : h = Hash(k, HashSize[2])
    BY <1>1, HashIs
  <1>3. PICK K, B, c : K = ks[2] /\ B = hs[2] /\ c = Class(ks, 2)
    OBVIOUS
  <1>4. P \subseteq SlotsOf(2) /\ \A s \in P : ~ Pending(L, 2, s)
    BY DEF HostLists
  <1>5. Chains("multicore", 2, P, P, c, B, N, K, L, r, n)
    BY <1>3 DEF HostLists
  <1>6. \A w \in P : K[w] = k => c[w] = h
    BY <1>2, <1>3, <1>4 DEF Class
  <1>8. HostChains(2, P, c, B, N, K, L, r, n, k, h)
    BY <1>4, <1>5, <1>6 DEF HostChains
  <1>7. \A i : i \in Ahead(m, B[h]) /\ K[i] = k <=> i \in P /\ K[i] = k
    BY <1>1, <1>8, HostFinds
  <1> QED
    BY <1>2, <1>3, <1>7

LEMMA HostAt ==
  ASSUME NEW C, NEW I, NEW R, NEW D, NEW e, NEW hd, NEW d, NEW us, NEW ks, NEW vs,
         NEW hs, NEW ns, NEW L, Working("multicore", C, I, R, D, e, hd, d, us, ks, vs, hs, ns, L), NEW k \in Cols,
         NEW m, LinksAre(m, ns[2])
  PROVE  \A i : i \in Ahead(m, hs[2][Hash(k, HashSize[2])]) /\ ks[2][i] = k <=> i \in Taken(us, 2) /\ ks[2][i] = k
  <1>1. PICK N \in [SlotsOf(2) -> SlotsOf(2) \union {Nil}] : N = ns[2]
    BY DEF Working, FieldsOK, Level
  <1>2. PICK n \in Nat, r \in [SlotsOf(2) -> Nat] : HostLists(2, us, ks, hs, ns[2], L, Taken(us, 2), r, n)
    BY HostListsOK
  <1>3. PICK P : P = Taken(us, 2)
    OBVIOUS
  <1>4. HostLists(2, us, ks, hs, N, L, P, r, n) /\ LinksAre(m, N)
    BY <1>1, <1>2, <1>3
  <1>5. \A i : i \in Ahead(m, hs[2][Hash(k, HashSize[2])]) /\ ks[2][i] = k <=> i \in P /\ ks[2][i] = k
    BY <1>4, HostWalk
  <1> QED
    BY <1>3, <1>5

\* The column is in a slot.
LEMMA HostFoundWorks ==
  ASSUME NEW C, NEW I, NEW R, NEW D, NEW e, NEW hd, Fixed("multicore", C, I, R, D, e, hd), NEW d, NEW us, NEW ks, NEW vs,
         NEW hs, NEW ns, NEW L, Working("multicore", C, I, R, D, e, hd, d, us, ks, vs, hs, ns, L),
         NEW k \in Cols, NEW q, NEW L2, LaneStep(L, k, q, L2), L[k].pc = "hash",
         IsLane(q), q.lvl = L[k].lvl, q.my = L[k].my, q.pc = "done",
         NEW a \in Taken(us, 2), ks[2][a] = k, NEW vs2, WriteIn(vs, 2, a, vs[2][a] + Val[e], vs2)
  PROVE  Working("multicore", C, I, R, D, e, hd, d, us, ks, vs2, hs, ns, L2)
  <1>1. /\ LaneType(L) /\ us \in [Level -> Nat] /\ SlotArrays(vs) /\ Setting("multicore", C, I, R, D, e)
        /\ LaneOK("multicore", I, hd, us, ks, vs, L, k) /\ k \in I /\ 2 \in Level /\ 1 \in Level
    BY LaneIn
  <1>2. Core("multicore", C, I, R, D, e, hd, us, ks, vs, L) /\ FieldsOK(us, ks, vs, hs, ns)
    BY DEF Working
  <1>3. /\ \A j \in Cols : L[j].my = Nil /\ L[j].lvl = 1 /\ L[j].pc \in {"idle", "hash", "done"}
        /\ Old(us, L, 2) = Taken(us, 2) /\ Filled(us, L, 2) = Taken(us, 2)
    BY <1>1, <1>2, HostLane
  <1>4. Core("multicore", C, I, R, D, e, hd, us, ks, vs2, L2)
    <2>1. L[k].my = Nil /\ L[k].pc \notin After \union Unwritten
      BY <1>3 DEF After, Unwritten
    <2>2. a \in Old(us, L, 2)
      BY <1>3
    <2> QED
      BY <1>1, <1>2, <2>1, <2>2, CoreSum
  <1>5. FieldsOK(us, ks, vs2, hs, ns)
    <2>1. \A u \in Level : vs[u] \in [SlotsOf(u) -> Int]
      BY <1>2 DEF FieldsOK
    <2>2. vs[2][a] + Val[e] \in Int
      <3>1. Val[e] \in Int
        BY <1>1, DoneFacts
      <3>2. a \in SlotsOf(2)
        BY <1>1, SlotSets
      <3> QED
        BY <1>1, <2>1, <3>1, <3>2
    <2>3. \A u \in Level : vs2[u] \in [SlotsOf(u) -> Int]
      BY <1>1, <2>1, <2>2, WriteInType
    <2> QED
      BY <1>2, <2>3 DEF FieldsOK
  <1>6. LaneType(L2)
    BY <1>1, StepFacts
  <1>7. ASSUME NEW v \in Level, ListsOK("multicore", us, ks, hs, ns, L, v)
        PROVE  ListsOK("multicore", us, ks, hs, ns, L2, v)
    <2>1. Leaves("multicore", q, v) /\ Enters(L, k, v)
      BY DEF Leaves, Enters
    <2>2. Old(us, L2, v) = Old(us, L, v) /\ Pushed(us, L2, v) = Pushed(us, L, v)
      <3>1. Taken(us, v) = Taken(us, v) /\ (q.pc \in Unpushed <=> L[k].pc \in Unpushed)
        BY DEF Unpushed
      <3> QED
        BY <1>1, <3>1, SameSlots
    <2>3. \A y \in Pushed(us, L, v) : ks[v][y] = ks[v][y]
      OBVIOUS
    <2> QED
      BY <1>1, <1>7, <2>1, <2>2, <2>3, ListsLeave
  <1>8. ListsOK("multicore", us, ks, hs, ns, L2, 1) /\ ListsOK("multicore", us, ks, hs, ns, L2, 2)
    BY <1>7 DEF Working, Level
  <1>9. DirtyOK(d, hs, L2)
    <2>1. DirtyOK(d, hs, L) /\ L[k].pc # "track"
      BY DEF Working
    <2> QED
      BY <1>1, <2>1, DirtyKeeps
  <1> QED
    BY <1>4, <1>5, <1>6, <1>8, <1>9 DEF Working, InStep

-----------------------------------------------------------------------------
(***************************************************************************)
(* The host puts a column that is in no slot in the next one.              *)
(***************************************************************************)
HostLanes(L, I) ==
  \A j \in Cols : /\ L[j].pc \in {"idle", "hash", "done"} /\ L[j].lvl = 1 /\ L[j].my = Nil
                  /\ (L[j].pc = "idle" <=> j \notin I)

LEMMA HostLanesOK ==
  ASSUME NEW I, NEW hd, NEW us, NEW ks, NEW vs, NEW L, HostLanes(L, I)
  PROVE  OneOwner(L) /\ \A j \in Cols : LaneOK("multicore", I, hd, us, ks, vs, L, j)
  <1>1. OneOwner(L)
    BY DEF OneOwner, HostLanes
  <1> QED
    BY <1>1 DEF LaneOK, HostLanes, Owning

LEMMA HostLanesAre ==
  ASSUME NEW C, NEW I, NEW R, NEW D, NEW e, NEW hd, NEW us, NEW ks, NEW vs, NEW L,
         Core("multicore", C, I, R, D, e, hd, us, ks, vs, L)
  PROVE  HostLanes(L, I)
  BY DEF Core, LaneOK, HostLanes

LEMMA HostSlots ==
  ASSUME NEW I, NEW us, NEW L, HostLanes(L, I), NEW l \in Level
  PROVE  Old(us, L, l) = Taken(us, l) /\ Pushed(us, L, l) = Taken(us, l) /\ Filled(us, L, l) = Taken(us, l)
  <1>1. \A j \in Cols : L[j].my = Nil
    BY DEF HostLanes
  <1> QED
    BY <1>1, NoOwners

\* what the host changes: slot s of the second map is key k's
HostKeeps(us, ks, vs, us2, ks2, vs2, s, k, e) ==
  /\ us2 \in [Level -> Nat] /\ us[1] = 0 /\ us2[1] = 0
  /\ s \in SlotsOf(2) /\ s = us[2] /\ us2[2] = s + 1
  /\ s \notin Taken(us, 2) /\ Taken(us2, 2) = Taken(us, 2) \union {s} /\ Taken(us2, 1) = {} /\ Taken(us, 1) = {}
  /\ ks2[2][s] = k /\ \A p \in SlotsOf(2) : p # s => ks2[2][p] = ks[2][p]
  /\ vs2[2][s] = Val[e] /\ \A p \in SlotsOf(2) : p # s => vs2[2][p] = vs[2][p]

LEMMA HostKeys ==
  ASSUME NEW C, NEW I, NEW hd, hd = TRUE, NEW us \in [Level -> Nat], NEW us2, NEW ks, NEW ks2,
         NEW vs, NEW vs2, NEW L, NEW L2, NEW s, NEW k \in C, NEW e,
         HostLanes(L, I), HostLanes(L2, I),
         HostKeeps(us, ks, vs, us2, ks2, vs2, s, k, e), \A p \in Taken(us, 2) : ks[2][p] # k,
         KeysOK("multicore", C, hd, us, ks, L)
  PROVE  KeysOK("multicore", C, hd, us2, ks2, L2)
  <1>1. 1 \in Level /\ 2 \in Level /\ \A l \in Level : l = 1 \/ l = 2
    BY DEF Level
  <1>2. Filled(us, L, 2) = Taken(us, 2) /\ Filled(us2, L2, 2) = Taken(us2, 2) /\ Filled(us2, L2, 1) = {}
    <2>1. Filled(us, L, 2) = Taken(us, 2) /\ Filled(us2, L2, 2) = Taken(us2, 2) /\ Filled(us2, L2, 1) = Taken(us2, 1)
      BY <1>1, HostSlots
    <2> QED
      BY <2>1 DEF HostKeeps
  <1>3. \A p \in Taken(us, 2) : p \in SlotsOf(2) /\ p # s /\ ks2[2][p] = ks[2][p] /\ ks[2][p] \in C
    BY <1>1, <1>2 DEF HostKeeps, Taken, KeysOK
  <1>4. /\ Taken(us2, 2) = Taken(us, 2) \union {s} /\ ks2[2][s] = k
    BY DEF HostKeeps
  <1>5. \A l \in Level : \A p \in Filled(us2, L2, l) : ks2[l][p] \in C
    BY <1>1, <1>2, <1>3, <1>4
  <1>6. \A p, r \in Taken(us2, 2) : ks2[2][p] = ks2[2][r] => p = r
    <2>1. \A p, r \in Taken(us, 2) : ks[2][p] = ks[2][r] => p = r
      BY <1>1, <1>2 DEF KeysOK
    <2> QED
      BY <1>3, <1>4, <2>1
  <1>7. \A l, u \in Level : \A p \in Filled(us2, L2, l), r \in Filled(us2, L2, u) :
          ks2[l][p] = ks2[u][r] => l = u /\ p = r
    BY <1>1, <1>2, <1>6
  <1>8. us2[2] <= KeySize[2] /\ us2[1] = 0
    <2>1. s < KeySize[2] /\ s \in Nat /\ KeySize[2] \in Nat
      BY <1>1, Sizes DEF HostKeeps
    <2> QED
      BY <2>1 DEF HostKeeps
  <1>9. \A p \in SlotsOf(2) : p >= us2[2] => ks2[2][p] = Nil
    <2> SUFFICES ASSUME NEW p \in SlotsOf(2), p >= us2[2] PROVE ks2[2][p] = Nil
      OBVIOUS
    <2>1. p \in Nat /\ s \in Nat
      BY <1>1, Sizes DEF HostKeeps
    <2>2. us2[2] = s + 1 /\ us[2] = s
      BY DEF HostKeeps
    <2>3. p >= us[2] /\ p # s
      BY <2>1, <2>2
    <2>4. ks2[2][p] = ks[2][p]
      BY <2>3 DEF HostKeeps
    <2> QED
      BY <2>3, <2>4 DEF KeysOK
  <1> QED
    BY <1>5, <1>7, <1>8, <1>9 DEF KeysOK

LEMMA HostSums ==
  ASSUME NEW x, NEW C, NEW I, NEW R, NEW D, NEW e, Setting(x, C, I, R, D, e),
         NEW us \in [Level -> Nat], NEW us2, NEW ks, NEW ks2, NEW vs, NEW vs2,
         NEW L, LaneType(L), NEW k \in Cols, k \in I, NEW q, NEW L2, LaneStep(L, k, q, L2),
         L[k].pc = "hash", q.pc = "done", NEW s,
         HostLanes(L, I), HostLanes(L2, I),
         HostKeeps(us, ks, vs, us2, ks2, vs2, s, k, e), \A p \in Taken(us, 2) : ks[2][p] # k,
         SumsOK(R, D, e, us, ks, vs, L)
  PROVE  SumsOK(R, D, e, us2, ks2, vs2, L2)
  <1>1. 1 \in Level /\ 2 \in Level /\ \A l \in Level : l = 1 \/ l = 2
    BY DEF Level
  <1>2. /\ Filled(us, L, 2) = Taken(us, 2) /\ Filled(us2, L2, 2) = Taken(us2, 2)
        /\ Filled(us2, L2, 1) = {} /\ Filled(us, L, 1) = {}
    <2>1. /\ Filled(us, L, 2) = Taken(us, 2) /\ Filled(us2, L2, 2) = Taken(us2, 2)
          /\ Filled(us2, L2, 1) = Taken(us2, 1) /\ Filled(us, L, 1) = Taken(us, 1)
      BY <1>1, HostSlots
    <2> QED
      BY <2>1 DEF HostKeeps
  <1>3. \A p \in Taken(us, 2) : p \in SlotsOf(2) /\ p # s /\ ks2[2][p] = ks[2][p] /\ vs2[2][p] = vs[2][p]
    BY DEF HostKeeps, Taken
  <1>4. Taken(us2, 2) = Taken(us, 2) \union {s} /\ ks2[2][s] = k /\ vs2[2][s] = Val[e]
    BY DEF HostKeeps
  <1>5. /\ Done(R, D, e, L2, k) = Done(R, D, e, L, k) \union {e}
        /\ \A j : j # k => Done(R, D, e, L2, j) = Done(R, D, e, L, j)
    <2>1. L[k].pc \notin After /\ q.pc \in After
      BY DEF After
    <2> QED
      BY <2>1, DoneNext
  <1>6. Done(R, D, e, L, k) = {}
    <2>1. ~ In(us, ks, L, 1, k) /\ ~ In(us, ks, L, 2, k)
      BY <1>2 DEF In
    <2> QED
      BY <2>1 DEF SumsOK
  <1>7. Total(Val, Done(R, D, e, L2, k)) = Val[e]
    <2>1. Done(R, D, e, L2, k) = {e} /\ Val[e] \in Int
      BY <1>5, <1>6, DoneFacts
    <2> QED
      BY <2>1, OneTotal
  <1>8. \A p \in Taken(us2, 2) : vs2[2][p] = Total(Val, Done(R, D, e, L2, ks2[2][p]))
    <2> SUFFICES ASSUME NEW p \in Taken(us2, 2) PROVE vs2[2][p] = Total(Val, Done(R, D, e, L2, ks2[2][p]))
      OBVIOUS
    <2>1. CASE p = s
      BY <1>4, <1>7, <2>1
    <2>2. CASE p # s
      <3>1. p \in Taken(us, 2)
        BY <1>4, <2>2
      <3>2. vs[2][p] = Total(Val, Done(R, D, e, L, ks[2][p]))
        BY <1>1, <1>2, <3>1 DEF SumsOK
      <3>3. ks2[2][p] = ks[2][p] /\ vs2[2][p] = vs[2][p] /\ ks[2][p] # k
        BY <1>3, <3>1
      <3>4. Done(R, D, e, L2, ks[2][p]) = Done(R, D, e, L, ks[2][p])
        BY <1>5, <3>3
      <3> QED
        BY <3>2, <3>3, <3>4
    <2> QED
      BY <2>1, <2>2
  <1>9. \A l \in Level : \A p \in Filled(us2, L2, l) : vs2[l][p] = Total(Val, Done(R, D, e, L2, ks2[l][p]))
    BY <1>1, <1>2, <1>8
  <1>10. ASSUME NEW j \in Cols, Done(R, D, e, L2, j) # {} PROVE In(us2, ks2, L2, 2, j)
    <2>1. CASE j = k
      BY <1>2, <1>4, <2>1 DEF In
    <2>2. CASE j # k
      <3>1. Done(R, D, e, L, j) # {}
        BY <1>5, <1>10, <2>2
      <3>2. In(us, ks, L, 2, j)
        BY <1>2, <3>1 DEF SumsOK, In
      <3>3. PICK p \in Taken(us, 2) : ks[2][p] = j
        BY <1>2, <3>2 DEF In
      <3> QED
        BY <1>2, <1>3, <1>4, <3>3 DEF In
    <2> QED
      BY <2>1, <2>2
  <1> QED
    BY <1>9, <1>10 DEF SumsOK

HostNew(C, I, R, D, e, hd, us, ks, vs, us2, ks2, vs2, L, k, q, L2, s) ==
  /\ hd = TRUE /\ Setting("multicore", C, I, R, D, e) /\ us \in [Level -> Nat] /\ LaneType(L) /\ k \in I
  /\ LaneStep(L, k, q, L2) /\ L[k].pc = "hash" /\ q.pc = "done" /\ HostLanes(L2, I)
  /\ HostKeeps(us, ks, vs, us2, ks2, vs2, s, k, e) /\ \A p \in Taken(us, 2) : ks[2][p] # k

LEMMA HostNewCore ==
  ASSUME NEW C, NEW I, NEW R, NEW D, NEW e, NEW hd, NEW us, NEW us2, NEW ks, NEW ks2, NEW vs, NEW vs2,
         NEW L, NEW k \in Cols, NEW q, NEW L2, NEW s,
         HostNew(C, I, R, D, e, hd, us, ks, vs, us2, ks2, vs2, L, k, q, L2, s),
         Core("multicore", C, I, R, D, e, hd, us, ks, vs, L)
  PROVE  Core("multicore", C, I, R, D, e, hd, us2, ks2, vs2, L2)
  <1>0. /\ hd = TRUE /\ Setting("multicore", C, I, R, D, e) /\ us \in [Level -> Nat] /\ LaneType(L) /\ k \in I
        /\ LaneStep(L, k, q, L2) /\ L[k].pc = "hash" /\ q.pc = "done" /\ HostLanes(L2, I)
        /\ HostKeeps(us, ks, vs, us2, ks2, vs2, s, k, e) /\ \A p \in Taken(us, 2) : ks[2][p] # k
    BY DEF HostNew
  <1>1. HostLanes(L, I)
    BY HostLanesAre
  <1>2. k \in C
    BY <1>0 DEF Setting
  <1>3. KeysOK("multicore", C, hd, us, ks, L) /\ SumsOK(R, D, e, us, ks, vs, L)
    BY DEF Core
  <1>4. KeysOK("multicore", C, hd, us2, ks2, L2)
    BY <1>0, <1>1, <1>2, <1>3, HostKeys
  <1>5. SumsOK(R, D, e, us2, ks2, vs2, L2)
    BY <1>0, <1>1, <1>3, HostSums
  <1>6. OneOwner(L2) /\ \A j \in Cols : LaneOK("multicore", I, hd, us2, ks2, vs2, L2, j)
    BY <1>0, HostLanesOK
  <1> QED
    BY <1>4, <1>5, <1>6 DEF Core

-----------------------------------------------------------------------------
\* Slot s becomes the head of hash h, with rank n, and leads to the old head.
HostPush(P, c, c2, B, B2, N, N2, r, r2, n, s, h, l) ==
  /\ P \subseteq SlotsOf(l) /\ s \in SlotsOf(l) /\ s \notin P /\ h \in 0 .. HashSize[l] - 1
  /\ n \in Nat /\ r \in [SlotsOf(l) -> Nat] /\ r2 \in [SlotsOf(l) -> Nat]
  /\ r2[s] = n /\ \A y \in P : r2[y] = r[y]
  /\ c2[s] = h /\ \A y \in P : c2[y] = c[y]
  /\ B2[h] = s /\ \A f \in 0 .. HashSize[l] - 1 : f # h => B2[f] = B[f]
  /\ N2[s] = B[h] /\ \A y \in P : N2[y] = N[y]

LEMMA HostChainsPush ==
  ASSUME NEW l \in Level, NEW P, NEW c, NEW c2, NEW B, NEW B2, NEW N, NEW N2, NEW r, NEW r2, NEW n, NEW s, NEW h,
         NEW K, NEW K2, NEW L, NEW L2, \A j \in Cols : L2[j].pc \notin {"walk", "track", "next", "exchange"},
         HostPush(P, c, c2, B, B2, N, N2, r, r2, n, s, h, l),
         Chains("multicore", l, P, P, c, B, N, K, L, r, n), \A y \in P : ~ Pending(L, l, y)
  PROVE  Chains("multicore", l, P \union {s}, P \union {s}, c2, B2, N2, K2, L2, r2, n + 1)
  <1>1. /\ P \subseteq SlotsOf(l) /\ s \in SlotsOf(l) /\ s \notin P /\ h \in 0 .. HashSize[l] - 1
        /\ n \in Nat /\ r \in [SlotsOf(l) -> Nat] /\ r2 \in [SlotsOf(l) -> Nat]
        /\ r2[s] = n /\ \A y \in P : r2[y] = r[y]
    BY DEF HostPush
  <1>2. \A y \in P : r[y] \in Nat /\ r[y] < n /\ r2[y] = r[y]
    BY <1>1 DEF Chains, Ranked
  <1>3. Ranked(P \union {s}, r2, n + 1)
    BY <1>1, <1>2 DEF Chains, Ranked
  <1>4. ASSUME NEW b \in Nat, b <= n, NEW g, NEW f, Latest(P, c, r, f, b, g)
        PROVE  Latest(P \union {s}, c2, r2, f, b, g)
    <2>1. P \subseteq P /\ P \union {s} \subseteq P \union {s}
      OBVIOUS
    <2>2. Reaches(P, P, c, r, f, b, g)
      BY <1>4 DEF Latest
    <2>3. \A y \in P : c2[y] = c[y]
      BY DEF HostPush
    <2>4. Reaches(P, P, c2, r, f, b, g)
      BY <2>1, <2>2, <2>3, ReachesSame
    <2>5. Reaches(P \union {s}, P \union {s}, c2, r2, f, b, g)
      BY <1>1, <1>4, <2>1, <2>4, ReachesGrow
    <2> QED
      BY <2>5 DEF Latest
  <1>5. n <= n /\ c2[s] = h
    BY <1>1 DEF HostPush
  <1>6. ASSUME NEW f \in 0 .. HashSize[l] - 1 PROVE Latest(P \union {s}, c2, r2, f, n + 1, B2[f])
    <2>1. CASE f = h
      <3>1. B2[f] = s /\ s # Nil
        BY <1>1, <2>1, Sizes DEF HostPush
      <3>2. \A w \in P \union {s} : r2[w] <= r2[s]
        BY <1>1, <1>2
      <3>3. r2[s] < n + 1
        BY <1>1
      <3> QED
        BY <1>5, <2>1, <3>1, <3>2, <3>3 DEF Latest, Reaches, OfClass
    <2>2. CASE f # h
      <3>1. Latest(P, c, r, f, n, B[f]) /\ B2[f] = B[f]
        BY <2>2 DEF Chains, HostPush
      <3>2. Latest(P \union {s}, c2, r2, f, n, B[f])
        BY <1>1, <1>4, <1>5, <3>1
      <3>3. \A w \in P \union {s} : c2[w] = f => r2[w] < n
        BY <1>2, <1>5, <2>2
      <3>4. \A v \in Nat : v < n => v < n + 1
        BY <1>1
      <3>5. \A w \in P \union {s} : r2[w] < n => r2[w] < n + 1
        BY <1>1, <1>2, <3>4
      <3> QED
        BY <3>1, <3>2, <3>3, <3>5 DEF Latest, Reaches, OfClass
    <2> QED
      BY <2>1, <2>2
  <1>7. ASSUME NEW y \in P \union {s} PROVE Latest(P \union {s}, c2, r2, c2[y], r2[y], N2[y])
    <2>1. CASE y = s
      <3>1. Latest(P, c, r, h, n, B[h])
        BY <1>1 DEF Chains
      <3>2. Latest(P \union {s}, c2, r2, h, n, B[h])
        BY <1>1, <1>4, <1>5, <3>1
      <3> QED
        BY <1>1, <1>5, <2>1, <3>2 DEF HostPush
    <2>2. CASE y # s
      <3>1. y \in P /\ r[y] \in Nat /\ r[y] <= n
        BY <1>1, <1>2, <2>2
      <3>2. Latest(P, c, r, c[y], r[y], N[y])
        BY <3>1 DEF Chains
      <3>3. Latest(P \union {s}, c2, r2, c[y], r[y], N[y])
        BY <1>4, <3>1, <3>2
      <3>4. c2[y] = c[y] /\ r2[y] = r[y] /\ N2[y] = N[y]
        BY <3>1 DEF HostPush
      <3> QED
        BY <3>3, <3>4
    <2> QED
      BY <2>1, <2>2
  <1>8. \A j \in Cols : LaneListed("multicore", l, P \union {s}, P \union {s}, c2, N2, K2, L2, r2, n + 1, j)
    BY DEF LaneListed
  <1> QED
    BY <1>3, <1>6, <1>7, <1>8 DEF Chains

\* slot s becomes the head of hash h and leads to the old head
HostLinks(hs, hs2, ns, ns2, s, h) ==
  /\ hs2[2][h] = s /\ \A f \in 0 .. HashSize[2] - 1 : f # h => hs2[2][f] = hs[2][f]
  /\ ns2[2][s] = hs[2][h] /\ \A p \in SlotsOf(2) : p # s => ns2[2][p] = ns[2][p]

\* the list of hash h of the second map
LEMMA HostNewLists ==
  ASSUME NEW I, NEW us, NEW us2, NEW ks, NEW ks2, NEW vs, NEW vs2, NEW hs, NEW hs2, NEW ns, NEW ns2, NEW L, NEW L2, NEW s, NEW k \in Cols, NEW e, NEW h,
         HostLanes(L2, I), HostKeeps(us, ks, vs, us2, ks2, vs2, s, k, e),
         h \in 0 .. HashSize[2] - 1, h = Hash(k, HashSize[2]),
         HostLinks(hs, hs2, ns, ns2, s, h),
         \E n \in Nat, r \in [SlotsOf(2) -> Nat] : HostLists(2, us, ks, hs, ns[2], L, Taken(us, 2), r, n)
  PROVE  ListsOK("multicore", us2, ks2, hs2, ns2, L2, 2)
  <1>1. 2 \in Level
    BY DEF Level
  <1>2. PICK n \in Nat, r \in [SlotsOf(2) -> Nat] : HostLists(2, us, ks, hs, ns[2], L, Taken(us, 2), r, n)
    OBVIOUS
  <1>3. PICK P : P = Taken(us, 2)
    OBVIOUS
  <1>4. /\ P \subseteq SlotsOf(2) /\ \A y \in P : ~ Pending(L, 2, y)
        /\ Chains("multicore", 2, P, P, Class(ks, 2), hs[2], ns[2], ks[2], L, r, n)
    BY <1>2, <1>3 DEF HostLists
  <1>5. /\ s \in SlotsOf(2) /\ s \notin P /\ Taken(us2, 2) = P \union {s}
        /\ ks2[2][s] = k /\ \A p \in SlotsOf(2) : p # s => ks2[2][p] = ks[2][p]
    BY <1>3 DEF HostKeeps
  <1>6. PICK r2 \in [SlotsOf(2) -> Nat] : r2[s] = n /\ \A y \in P : r2[y] = r[y]
    <2>1. [r EXCEPT ![s] = n] \in [SlotsOf(2) -> Nat] /\ [r EXCEPT ![s] = n][s] = n
      BY <1>5
    <2>2. \A y \in P : [r EXCEPT ![s] = n][y] = r[y]
      BY <1>4, <1>5
    <2> QED
      BY <2>1, <2>2
  <1>7. PICK c, c2 : c = Class(ks, 2) /\ c2 = Class(ks2, 2)
    OBVIOUS
  <1>8. c2[s] = h /\ \A y \in P : c2[y] = c[y]
    <2>1. c2[s] = h
      BY <1>5, <1>7 DEF Class
    <2>2. \A y \in P : c2[y] = c[y]
      BY <1>4, <1>5, <1>7 DEF Class
    <2> QED
      BY <2>1, <2>2
  <1>9. PICK B, B2, N, N2 : B = hs[2] /\ B2 = hs2[2] /\ N = ns[2] /\ N2 = ns2[2]
    OBVIOUS
  <1>10. HostPush(P, c, c2, B, B2, N, N2, r, r2, n, s, h, 2)
    <2>1. B2[h] = s /\ \A f \in 0 .. HashSize[2] - 1 : f # h => B2[f] = B[f]
      BY <1>9 DEF HostLinks
    <2>2. N2[s] = B[h] /\ \A y \in P : N2[y] = N[y]
      BY <1>4, <1>5, <1>9 DEF HostLinks
    <2> QED
      BY <1>4, <1>5, <1>6, <1>8, <2>1, <2>2 DEF HostPush
  <1>11. \A j \in Cols : L2[j].pc \notin {"walk", "track", "next", "exchange"}
    BY DEF HostLanes
  <1>12. Chains("multicore", 2, P, P, c, B, N, ks[2], L, r, n)
    BY <1>4, <1>7, <1>9
  <1>13. Chains("multicore", 2, P \union {s}, P \union {s}, c2, B2, N2, ks2[2], L2, r2, n + 1)
    BY <1>1, <1>4, <1>10, <1>11, <1>12, HostChainsPush
  <1>14. Pushed(us2, L2, 2) = P \union {s} /\ Old(us2, L2, 2) = P \union {s}
    BY <1>1, <1>5, HostSlots
  <1>15. Chains("multicore", 2, Pushed(us2, L2, 2), Old(us2, L2, 2), Class(ks2, 2), hs2[2], ns2[2], ks2[2], L2, r2, n + 1)
    BY <1>7, <1>9, <1>13, <1>14
  <1> QED
    BY <1>15 DEF ListsOK

\* the first map has no slots
LEMMA HostFirstLists ==
  ASSUME NEW I, NEW us, NEW us2, NEW ks, NEW ks2, NEW hs, NEW hs2, NEW ns, NEW ns2, NEW L, NEW L2,
         HostLanes(L, I), HostLanes(L2, I), Taken(us, 1) = {}, Taken(us2, 1) = {}, hs2[1] = hs[1],
         ListsOK("multicore", us, ks, hs, ns, L, 1)
  PROVE  ListsOK("multicore", us2, ks2, hs2, ns2, L2, 1)
  <1>1. 1 \in Level
    BY DEF Level
  <1>2. Pushed(us, L, 1) = {} /\ Old(us, L, 1) = {} /\ Pushed(us2, L2, 1) = {} /\ Old(us2, L2, 1) = {}
    BY <1>1, HostSlots
  <1>3. PICK n \in Nat, r \in [SlotsOf(1) -> Nat] :
          Chains("multicore", 1, {}, {}, Class(ks, 1), hs[1], ns[1], ks[1], L, r, n)
    BY <1>2 DEF ListsOK
  <1>4. PICK S : S = {}
    OBVIOUS
  <1>5. \A h \in 0 .. HashSize[1] - 1 : Latest(S, Class(ks2, 1), r, h, n, hs2[1][h])
    <2> TAKE h \in 0 .. HashSize[1] - 1
    <2>1. Latest(S, Class(ks, 1), r, h, n, hs[1][h])
      BY <1>3, <1>4 DEF Chains
    <2>2. hs2[1][h] = Nil
      BY <1>4, <2>1 DEF Latest, Reaches, OfClass
    <2> QED
      BY <1>4, <2>2 DEF Latest, Reaches, OfClass
  <1>6. \A j \in Cols : L2[j].pc \notin {"walk", "track", "next", "exchange"}
    BY DEF HostLanes
  <1>7. Chains("multicore", 1, S, S, Class(ks2, 1), hs2[1], ns2[1], ks2[1], L2, r, n)
    BY <1>4, <1>5, <1>6 DEF Chains, Ranked, LaneListed
  <1> QED
    BY <1>2, <1>4, <1>7 DEF ListsOK

LEMMA NoFirst ==
  ASSUME NEW us, us[1] = 0
  PROVE  Taken(us, 1) = {}
  <1>1. \A s \in SlotsOf(1) : s \in Nat
    BY Sizes DEF Level
  <1> QED
    BY <1>1 DEF Taken

\* a write at s, of v, to the second of two arrays that map S to T
Fits(f, s, v, S, T) == f[2] \in [S -> T] /\ s \in S /\ v \in T
SecondIs(f, s, v, f2, S, T) ==
  /\ f2[2] \in [S -> T] /\ f2[1] = f[1]
  /\ f2[2][s] = v /\ \A p \in S : p # s => f2[2][p] = f[2][p]

LEMMA SecondWritten ==
  ASSUME NEW f, NEW S, NEW T, NEW s, NEW v, Fits(f, s, v, S, T), NEW f2, WriteIn(f, 2, s, v, f2)
  PROVE  SecondIs(f, s, v, f2, S, T)
  <1>1. f2[2] = [f[2] EXCEPT ![s] = v] /\ f2[1] = f[1]
    BY DEF WriteIn, Level
  <1>2. PICK g \in [S -> T] : g = f[2]
    BY DEF Fits
  <1>6. s \in S /\ v \in T
    BY DEF Fits
  <1>3. f2[2] = [g EXCEPT ![s] = v]
    BY <1>1, <1>2
  <1>4. [g EXCEPT ![s] = v] \in [S -> T] /\ [g EXCEPT ![s] = v][s] = v
    BY <1>6
  <1>5. \A p \in S : p # s => [g EXCEPT ![s] = v][p] = g[p]
    OBVIOUS
  <1> QED
    BY <1>1, <1>2, <1>3, <1>4, <1>5 DEF SecondIs

HostInserts(us, ks, vs, hs, ns, d, e, k, s, h, us2, ks2, vs2, hs2, ns2, d2) ==
  /\ \A p \in Taken(us, 2) : ks[2][p] # k
  /\ s = us[2] /\ h = Hash(k, HashSize[2])
  /\ CountUp(us, 2, us2) /\ WriteIn(ks, 2, s, k, ks2) /\ WriteIn(vs, 2, s, Val[e], vs2)
  /\ WriteIn(hs, 2, h, s, hs2) /\ WriteIn(ns, 2, s, hs[2][h], ns2)
  /\ d2 = IF hs[2][h] = Nil THEN Append(d, h) ELSE d

\* the lane has done its column
HostDone(L, k, q, L2) ==
  /\ LaneStep(L, k, q, L2) /\ L[k].pc = "hash"
  /\ IsLane(q) /\ q.lvl = L[k].lvl /\ q.my = L[k].my /\ q.pc = "done"

LEMMA HostNewWorks ==
  ASSUME NEW C, NEW I, NEW R, NEW D, NEW e, NEW hd, Fixed("multicore", C, I, R, D, e, hd), NEW d, NEW us, NEW ks, NEW vs,
         NEW hs, NEW ns, NEW L, Working("multicore", C, I, R, D, e, hd, d, us, ks, vs, hs, ns, L), hd = TRUE,
         NEW k \in Cols, NEW q, NEW L2, HostDone(L, k, q, L2), NEW s, NEW h, NEW us2, NEW ks2, NEW vs2, NEW hs2, NEW ns2,
         NEW d2, HostInserts(us, ks, vs, hs, ns, d, e, k, s, h, us2, ks2, vs2, hs2, ns2, d2)
  PROVE  Working("multicore", C, I, R, D, e, hd, d2, us2, ks2, vs2, hs2, ns2, L2)
  <1>1. /\ LaneType(L) /\ us \in [Level -> Nat] /\ Setting("multicore", C, I, R, D, e) /\ k \in I /\ k \in C
        /\ SlotArrays(ks) /\ SlotArrays(vs) /\ SlotArrays(ns) /\ 2 \in Level /\ 1 \in Level
    <2>1. L[k].pc = "hash"
      BY DEF HostDone
    <2> QED
      BY <2>1, LaneIn
  <1>24. LaneStep(L, k, q, L2) /\ L[k].pc = "hash" /\ IsLane(q) /\ q.lvl = L[k].lvl /\ q.my = L[k].my /\ q.pc = "done"
    BY DEF HostDone
  <1>25. (\A p \in Taken(us, 2) : ks[2][p] # k) /\ s = us[2] /\ h = Hash(k, HashSize[2])
    BY DEF HostInserts
  <1>26. /\ CountUp(us, 2, us2) /\ WriteIn(ks, 2, s, k, ks2) /\ WriteIn(vs, 2, s, Val[e], vs2)
         /\ WriteIn(hs, 2, h, s, hs2) /\ WriteIn(ns, 2, s, hs[2][h], ns2)
    BY DEF HostInserts
  <1>27. d2 = IF hs[2][h] = Nil THEN Append(d, h) ELSE d
    BY DEF HostInserts
  <1>2. Core("multicore", C, I, R, D, e, hd, us, ks, vs, L) /\ FieldsOK(us, ks, vs, hs, ns)
    BY DEF Working
  <1>3. HostLanes(L, I)
    BY <1>2, HostLanesAre
  <1>4. L2[k] = q /\ \A j \in Cols : j # k => L2[j] = L[j]
    BY <1>1, <1>24, StepFacts
  <1>5. HostLanes(L2, I)
    BY <1>1, <1>3, <1>4, <1>24 DEF HostLanes
  <1>6. s < KeySize[2]
    <2>1. L[k].my = Nil
      BY <1>3 DEF HostLanes
    <2>2. ~ In(us, ks, L, 2, k)
      BY <1>1, <1>3, <1>25, HostSlots DEF In
    <2>3. Cardinality(C) <= KeySize[2]
      BY DEF Fixed
    <2> QED
      BY <1>1, <1>2, <1>25, <2>1, <2>2, <2>3, RoomInSecond
  <1>7. /\ us2 \in [Level -> Nat] /\ us2[2] = s + 1 /\ us2[1] = us[1]
        /\ s \in SlotsOf(2) /\ s \notin Taken(us, 2) /\ Taken(us2, 2) = Taken(us, 2) \union {s}
        /\ Taken(us2, 1) = Taken(us, 1)
    <2>1. us[2] < KeySize[2]
      BY <1>6, <1>25
    <2> QED
      BY <1>1, <1>25, <1>26, <2>1, OneMoreTaken
  <1>8. us[1] = 0 /\ Taken(us, 1) = {}
    <2>1. us[1] = 0
      BY <1>2 DEF Core, KeysOK
    <2> QED
      BY <2>1, NoFirst
  <1>9. h \in 0 .. HashSize[2] - 1
    BY <1>1, <1>25, HashIs
  <1>10. ks2[2][s] = k /\ \A p \in SlotsOf(2) : p # s => ks2[2][p] = ks[2][p]
    BY <1>1, <1>7, <1>26, Written
  <1>11. vs2[2][s] = Val[e] /\ \A p \in SlotsOf(2) : p # s => vs2[2][p] = vs[2][p]
    BY <1>1, <1>7, <1>26, Written
  <1>14. hs[2] \in [0 .. HashSize[2] - 1 -> SlotsOf(2) \union {Nil}]
    BY <1>1, <1>2 DEF FieldsOK
  <1>12. /\ ns2[2] \in [SlotsOf(2) -> SlotsOf(2) \union {Nil}] /\ ns2[1] = ns[1]
         /\ ns2[2][s] = hs[2][h] /\ \A p \in SlotsOf(2) : p # s => ns2[2][p] = ns[2][p]
    <2>1. ns[2] \in [SlotsOf(2) -> SlotsOf(2) \union {Nil}]
      BY <1>1, <1>2 DEF FieldsOK
    <2>2. PICK v \in SlotsOf(2) \union {Nil} : v = hs[2][h]
      BY <1>9, <1>14
    <2>3. WriteIn(ns, 2, s, v, ns2)
      BY <1>26, <2>2
    <2>4. PICK S, T : S = SlotsOf(2) /\ T = SlotsOf(2) \union {Nil}
      OBVIOUS
    <2>5. Fits(ns, s, v, S, T)
      BY <1>7, <2>1, <2>4 DEF Fits
    <2>6. ns2[2] \in [S -> T] /\ ns2[1] = ns[1] /\ ns2[2][s] = v /\ \A p \in S : p # s => ns2[2][p] = ns[2][p]
      BY <2>3, <2>5, SecondWritten DEF SecondIs
    <2> QED
      BY <2>2, <2>4, <2>6
  <1>13. /\ hs2[2] \in [0 .. HashSize[2] - 1 -> SlotsOf(2) \union {Nil}] /\ hs2[1] = hs[1]
         /\ hs2[2][h] = s /\ \A f \in 0 .. HashSize[2] - 1 : f # h => hs2[2][f] = hs[2][f]
    <2>1. s \in SlotsOf(2) \union {Nil}
      BY <1>7
    <2>4. PICK S, T : S = 0 .. HashSize[2] - 1 /\ T = SlotsOf(2) \union {Nil}
      OBVIOUS
    <2>5. Fits(hs, h, s, S, T)
      BY <1>9, <1>14, <2>1, <2>4 DEF Fits
    <2>6. hs2[2] \in [S -> T] /\ hs2[1] = hs[1] /\ hs2[2][h] = s /\ \A p \in S : p # h => hs2[2][p] = hs[2][p]
      BY <1>26, <2>5, SecondWritten DEF SecondIs
    <2> QED
      BY <2>4, <2>6
  <1>16. HostKeeps(us, ks, vs, us2, ks2, vs2, s, k, e)
    BY <1>7, <1>8, <1>10, <1>11, <1>25 DEF HostKeeps
  <1>17. Core("multicore", C, I, R, D, e, hd, us2, ks2, vs2, L2)
    <2>1. HostNew(C, I, R, D, e, hd, us, ks, vs, us2, ks2, vs2, L, k, q, L2, s)
      BY <1>1, <1>5, <1>16, <1>24, <1>25 DEF HostNew
    <2> QED
      BY <1>2, <2>1, HostNewCore
  <1>18. FieldsOK(us2, ks2, vs2, hs2, ns2)
    <2>1. \A u \in Level : ks2[u] \in [SlotsOf(u) -> Cols \union {Nil}]
      <3>1. \A u \in Level : ks[u] \in [SlotsOf(u) -> Cols \union {Nil}]
        BY <1>2 DEF FieldsOK
      <3>2. k \in Cols \union {Nil}
        OBVIOUS
      <3> QED
        BY <1>1, <1>26, <3>1, <3>2, WriteInType
    <2>2. \A u \in Level : vs2[u] \in [SlotsOf(u) -> Int]
      <3>1. \A u \in Level : vs[u] \in [SlotsOf(u) -> Int]
        BY <1>2 DEF FieldsOK
      <3>2. Val[e] \in Int
        BY <1>1, DoneFacts
      <3> QED
        BY <1>1, <1>26, <3>1, <3>2, WriteInType
    <2>3. \A u \in Level : u = 1 \/ u = 2
      BY DEF Level
    <2>4. \A u \in Level : hs2[u] \in [0 .. HashSize[u] - 1 -> SlotsOf(u) \union {Nil}]
      <3>1. hs2[2] \in [0 .. HashSize[2] - 1 -> SlotsOf(2) \union {Nil}]
        BY <1>13
      <3>2. hs2[1] \in [0 .. HashSize[1] - 1 -> SlotsOf(1) \union {Nil}]
        BY <1>1, <1>2, <1>13 DEF FieldsOK
      <3> QED
        BY <2>3, <3>1, <3>2
    <2>5. \A u \in Level : ns2[u] \in [SlotsOf(u) -> SlotsOf(u) \union {Nil}]
      <3>1. ns2[2] \in [SlotsOf(2) -> SlotsOf(2) \union {Nil}]
        BY <1>12
      <3>2. ns2[1] \in [SlotsOf(1) -> SlotsOf(1) \union {Nil}]
        BY <1>1, <1>2, <1>12 DEF FieldsOK
      <3> QED
        BY <2>3, <3>1, <3>2
    <2> QED
      BY <1>7, <2>1, <2>2, <2>4, <2>5 DEF FieldsOK
  <1>19. ListsOK("multicore", us2, ks2, hs2, ns2, L2, 2)
    <2>1. \E n \in Nat, r \in [SlotsOf(2) -> Nat] : HostLists(2, us, ks, hs, ns[2], L, Taken(us, 2), r, n)
      BY HostListsOK
    <2>2. HostLinks(hs, hs2, ns, ns2, s, h)
      BY <1>12, <1>13 DEF HostLinks
    <2> QED
      BY <1>5, <1>9, <1>16, <1>25, <2>1, <2>2, HostNewLists
  <1>20. ListsOK("multicore", us2, ks2, hs2, ns2, L2, 1)
    <2>1. Taken(us, 1) = {} /\ Taken(us2, 1) = {} /\ hs2[1] = hs[1]
      BY <1>7, <1>8, <1>13
    <2>2. ListsOK("multicore", us, ks, hs, ns, L, 1)
      BY DEF Working
    <2> QED
      BY <1>3, <1>5, <2>1, <2>2, HostFirstLists
  <1>21. d2 \in Seq(0 .. HashSize[2] - 1)
    <2>1. d \in Seq(0 .. HashSize[2] - 1)
      BY DEF Working
    <2>2. Append(d, h) \in Seq(0 .. HashSize[2] - 1)
      BY <1>9, <2>1
    <2> QED
      BY <1>27, <2>1, <2>2
  <1>22. DirtyOK(d2, hs2, L2)
    <2>1. SUFFICES ASSUME NEW f \in 0 .. HashSize[2] - 1, hs2[2][f] # Nil PROVE \E n \in DOMAIN d2 : d2[n] = f
      BY DEF DirtyOK
    <2>2. d \in Seq(0 .. HashSize[2] - 1) /\ DirtyOK(d, hs, L)
      BY DEF Working
    <2>3. \A n \in DOMAIN d : n \in DOMAIN d2 /\ d2[n] = d[n]
      BY <1>9, <1>27, <2>2
    <2>4. CASE hs[2][f] # Nil
      <3>1. \A j \in Cols : L[j].lvl = 1
        BY <1>3 DEF HostLanes
      <3>4. hs[2][f] # Nil =>
              \/ \E n \in DOMAIN d : d[n] = f
              \/ \E j \in Cols : L[j].lvl = 2 /\ L[j].pc = "track" /\ Hash(j, HashSize[2]) = f
        BY <2>2 DEF DirtyOK
      <3>2. \E n \in DOMAIN d : d[n] = f
        BY <2>4, <3>1, <3>4
      <3> QED
        BY <2>3, <3>2
    <2>5. CASE hs[2][f] = Nil
      <3>1. f = h
        BY <1>13, <2>1, <2>5
      <3>2. d2 = Append(d, h)
        BY <1>27, <2>5, <3>1
      <3>3. Len(d) + 1 \in DOMAIN d2 /\ d2[Len(d) + 1] = h
        BY <1>9, <2>2, <3>2
      <3> QED
        BY <3>1, <3>3
    <2> QED
      BY <2>4, <2>5
  <1>23. LaneType(L2)
    BY <1>1, <1>24, StepFacts
  <1> QED
    BY <1>17, <1>18, <1>19, <1>20, <1>21, <1>22, <1>23 DEF Working, InStep

-----------------------------------------------------------------------------
(***************************************************************************)
(* Between the entries of a row, and at its start, no lane has a slot.     *)
(***************************************************************************)
Resting(L, I) == \A j \in Cols : /\ L[j].pc \in {"idle", "hash"} /\ L[j].lvl = 1 /\ L[j].my = Nil
                                 /\ (L[j].pc = "idle" <=> j \notin I)

LEMMA RestingLanes ==
  ASSUME NEW x, NEW I, NEW hd, NEW us, NEW ks, NEW vs, NEW L, Resting(L, I), NEW d, NEW hs
  PROVE  /\ OneOwner(L) /\ InStep(x, L)
         /\ \A j \in Cols : LaneOK(x, I, hd, us, ks, vs, L, j)
         /\ \A l \in Level : Old(us, L, l) = Taken(us, l) /\ Pushed(us, L, l) = Taken(us, l) /\ Filled(us, L, l) = Taken(us, l)
  <1>1. OneOwner(L) /\ InStep(x, L)
    BY DEF Resting, OneOwner, InStep
  <1>2. ASSUME NEW j \in Cols PROVE LaneOK(x, I, hd, us, ks, vs, L, j)
    <2>1. /\ L[j].pc \in {"idle", "hash"} /\ L[j].lvl = 1 /\ L[j].my = Nil
          /\ (L[j].pc = "idle" <=> j \notin I)
      BY DEF Resting
    <2> QED
      BY <2>1 DEF LaneOK, Owning
  <1>3. \A j \in Cols : L[j].my = Nil
    BY DEF Resting
  <1>4. \A l \in Level : Old(us, L, l) = Taken(us, l) /\ Pushed(us, L, l) = Taken(us, l) /\ Filled(us, L, l) = Taken(us, l)
    BY <1>3, NoOwners
  <1> QED
    BY <1>1, <1>2, <1>4

\* all lanes have ended
Ended(L) == \A j \in Cols : L[j].pc \in {"idle", "done"}

LEMMA EndedSlots ==
  ASSUME NEW us, NEW L, Ended(L), NEW l \in Level
  PROVE  /\ Filled(us, L, l) = Taken(us, l) /\ Pushed(us, L, l) = Taken(us, l)
         /\ \A s : ~ Pending(L, l, s)
  BY DEF Filled, Pushed, Pending, OwnerIn, Ended, Unwritten, Unpushed

LEMMA RestartLists ==
  ASSUME NEW x, NEW I, NEW us, NEW ks, NEW hs, NEW ns, NEW L, Ended(L), NEW L2, Resting(L2, I), NEW l \in Level,
         ListsOK(x, us, ks, hs, ns, L, l)
  PROVE  ListsOK(x, us, ks, hs, ns, L2, l)
  <1>1. PICK n \in Nat, r \in [SlotsOf(l) -> Nat] :
          Chains(x, l, Pushed(us, L, l), Old(us, L, l), Class(ks, l), hs[l], ns[l], ks[l], L, r, n)
    BY DEF ListsOK
  <1>2. PICK P : P = Taken(us, l)
    OBVIOUS
  <1>3. Pushed(us, L, l) = P /\ \A s : ~ Pending(L, l, s)
    BY <1>2, EndedSlots
  <1>4. PICK O : O = Old(us, L, l)
    OBVIOUS
  <1>5. Chains(x, l, P, O, Class(ks, l), hs[l], ns[l], ks[l], L, r, n)
    BY <1>1, <1>3, <1>4
  <1>6. \A j \in Cols : L2[j].pc \notin {"walk", "track", "next", "exchange"}
    BY DEF Resting
  <1>7. \A j \in Cols : LaneListed(x, l, P, P, Class(ks, l), ns[l], ks[l], L2, r, n, j)
    BY <1>6 DEF LaneListed
  <1>8. Chains(x, l, P, P, Class(ks, l), hs[l], ns[l], ks[l], L2, r, n)
    BY <1>3, <1>5, <1>7 DEF Chains
  <1>9. Pushed(us, L2, l) = P /\ Old(us, L2, l) = P
    BY <1>2, RestingLanes
  <1>10. Chains(x, l, Pushed(us, L2, l), Old(us, L2, l), Class(ks, l), hs[l], ns[l], ks[l], L2, r, n)
    BY <1>8, <1>9
  <1> QED
    BY <1>10 DEF ListsOK

LEMMA RestartCore ==
  ASSUME NEW x, NEW C, C \subseteq Cols, NEW I, NEW I2, NEW R, NEW D, NEW D2, NEW e, NEW e2, NEW hd, NEW us, NEW ks, NEW vs,
         NEW L, Ended(L), NEW L2, Resting(L2, I2),
         \A k \in Cols : Done(R, D2, e2, L2, k) = Done(R, D, e, L, k),
         Core(x, C, I, R, D, e, hd, us, ks, vs, L)
  PROVE  Core(x, C, I2, R, D2, e2, hd, us, ks, vs, L2)
  <1>1. \A l \in Level : Filled(us, L2, l) = Filled(us, L, l)
    <2> TAKE l \in Level
    <2>1. Filled(us, L, l) = Taken(us, l)
      BY EndedSlots
    <2>2. Filled(us, L2, l) = Taken(us, l)
      BY RestingLanes
    <2> QED
      BY <2>1, <2>2
  <1>2. \A l \in Level : \A k : In(us, ks, L2, l, k) <=> In(us, ks, L, l, k)
    BY <1>1 DEF In
  <1>3. KeysOK(x, C, hd, us, ks, L) /\ SumsOK(R, D, e, us, ks, vs, L)
    BY DEF Core
  <1>4. KeysOK(x, C, hd, us, ks, L2)
    <2>1. \A l \in Level : \A s \in Filled(us, L2, l) : ks[l][s] \in C
      BY <1>1, <1>3 DEF KeysOK
    <2>2. \A l, u \in Level : \A s \in Filled(us, L2, l), p \in Filled(us, L2, u) :
            ks[l][s] = ks[u][p] => l = u /\ s = p
      BY <1>1, <1>3 DEF KeysOK
    <2> QED
      BY <1>3, <2>1, <2>2 DEF KeysOK
  <1>5. SumsOK(R, D2, e2, us, ks, vs, L2)
    <2>1. \A l \in Level : \A s \in Filled(us, L2, l) : vs[l][s] = Total(Val, Done(R, D2, e2, L2, ks[l][s]))
      <3> SUFFICES ASSUME NEW l \in Level, NEW s \in Filled(us, L2, l)
                   PROVE  vs[l][s] = Total(Val, Done(R, D2, e2, L2, ks[l][s]))
        OBVIOUS
      <3>1. s \in Filled(us, L, l)
        BY <1>1
      <3>2. vs[l][s] = Total(Val, Done(R, D, e, L, ks[l][s])) /\ ks[l][s] \in Cols
        BY <1>3, <3>1 DEF SumsOK, KeysOK
      <3> QED
        BY <3>2
    <2>2. \A k \in Cols : Done(R, D2, e2, L2, k) # {} => In(us, ks, L2, 1, k) \/ In(us, ks, L2, 2, k)
      <3>1. \A k \in Cols : Done(R, D, e, L, k) # {} => In(us, ks, L, 1, k) \/ In(us, ks, L, 2, k)
        BY <1>3 DEF SumsOK
      <3> QED
        BY <1>2, <3>1 DEF Level
    <2> QED
      BY <2>1, <2>2 DEF SumsOK
  <1>6. OneOwner(L2) /\ \A j \in Cols : LaneOK(x, I2, hd, us, ks, vs, L2, j)
    BY RestingLanes
  <1> QED
    BY <1>4, <1>5, <1>6 DEF Core

LEMMA RestartWorks ==
  ASSUME NEW x, NEW C, C \subseteq Cols, NEW I, NEW I2, NEW R, NEW D, NEW D2, NEW e, NEW e2, NEW hd, NEW d, NEW us, NEW ks, NEW vs,
         NEW hs, NEW ns, NEW L, Working(x, C, I, R, D, e, hd, d, us, ks, vs, hs, ns, L),
         Ended(L), NEW L2, LaneType(L2), Resting(L2, I2),
         \A k \in Cols : Done(R, D2, e2, L2, k) = Done(R, D, e, L, k)
  PROVE  Working(x, C, I2, R, D2, e2, hd, d, us, ks, vs, hs, ns, L2)
  <1>1. /\ FieldsOK(us, ks, vs, hs, ns) /\ d \in Seq(0 .. HashSize[2] - 1)
        /\ Core(x, C, I, R, D, e, hd, us, ks, vs, L) /\ ListsOK(x, us, ks, hs, ns, L, 1) /\ ListsOK(x, us, ks, hs, ns, L, 2)
        /\ DirtyOK(d, hs, L) /\ (~ hd => hs[2] = Unlinked(2))
    BY DEF Working
  <1>2. Core(x, C, I2, R, D2, e2, hd, us, ks, vs, L2)
    BY <1>1, RestartCore
  <1>3. 1 \in Level /\ 2 \in Level
    BY DEF Level
  <1>4. ListsOK(x, us, ks, hs, ns, L2, 1) /\ ListsOK(x, us, ks, hs, ns, L2, 2)
    BY <1>1, <1>3, RestartLists
  <1>5. DirtyOK(d, hs, L2)
    BY <1>1 DEF DirtyOK, Ended
  <1>6. InStep(x, L2)
    BY RestingLanes
  <1> QED
    BY <1>1, <1>2, <1>4, <1>5, <1>6 DEF Working

\* what the maps are at the start of a row
Empty(us, ks, hs, L) ==
  /\ us[1] = 0 /\ us[2] = 0 /\ (\A s \in SlotsOf(2) : ks[2][s] = Nil)
  /\ hs[1] = Unlinked(1) /\ hs[2] = Unlinked(2) /\ \A j \in Cols : L[j].pc = "idle" /\ L[j].lvl = 1 /\ L[j].my = Nil

LEMMA StartWorks ==
  ASSUME NEW x, NEW C, NEW R, NEW e, NEW hd, NEW us, NEW ks, NEW vs, NEW hs, NEW ns, NEW L,
         FieldsOK(us, ks, vs, hs, ns), LaneType(L), Empty(us, ks, hs, L)
  PROVE  Working(x, C, {}, R, {}, e, hd, <<>>, us, ks, vs, hs, ns, L)
  <1>1. us[1] = 0 /\ us[2] = 0 /\ hs[1] = Unlinked(1) /\ hs[2] = Unlinked(2) /\ Resting(L, {})
    BY DEF Empty, Resting
  <1>2. \A l \in Level : l = 1 \/ l = 2
    BY DEF Level
  <1>3. \A l \in Level : us[l] = 0 /\ hs[l] = Unlinked(l)
    BY <1>1, <1>2
  <1>4. \A l \in Level : Taken(us, l) = {}
    <2> TAKE l \in Level
    <2>1. \A s \in SlotsOf(l) : s \in Nat
      BY Sizes
    <2> QED
      BY <1>3, <2>1 DEF Taken
  <1>5. \A l \in Level : Old(us, L, l) = {} /\ Pushed(us, L, l) = {} /\ Filled(us, L, l) = {}
    BY <1>1, <1>4, RestingLanes
  <1>6. KeysOK(x, C, hd, us, ks, L)
    <2>1. 0 <= KeySize[2]
      BY Sizes DEF Level
    <2> QED
      BY <1>1, <1>5, <2>1 DEF KeysOK, Empty
  <1>7. \A j \in Cols : Done(R, {}, e, L, j) = {}
    BY DEF Done, After, Empty
  <1>8. SumsOK(R, {}, e, us, ks, vs, L)
    BY <1>5, <1>7 DEF SumsOK
  <1>9. OneOwner(L) /\ InStep(x, L) /\ \A j \in Cols : LaneOK(x, {}, hd, us, ks, vs, L, j)
    BY <1>1, RestingLanes
  <1>10. Core(x, C, {}, R, {}, e, hd, us, ks, vs, L)
    BY <1>6, <1>8, <1>9 DEF Core
  <1>11. ASSUME NEW l \in Level PROVE ListsOK(x, us, ks, hs, ns, L, l)
    <2>1. PICK S, r : S = {} /\ r = [s \in SlotsOf(l) |-> 0]
      OBVIOUS
    <2>2. r \in [SlotsOf(l) -> Nat]
      BY <2>1
    <2>3. \A j \in Cols : L[j].pc \notin {"walk", "track", "next", "exchange"}
      BY DEF Empty
    <2>4. \A h \in 0 .. HashSize[l] - 1 : hs[l][h] = Nil
      BY <1>3 DEF Unlinked
    <2>5. \A h \in 0 .. HashSize[l] - 1 : Latest(S, Class(ks, l), r, h, 0, hs[l][h])
      BY <2>1, <2>4 DEF Latest, Reaches, OfClass
    <2>6. Chains(x, l, S, S, Class(ks, l), hs[l], ns[l], ks[l], L, r, 0)
      BY <2>1, <2>3, <2>5 DEF Chains, Ranked, LaneListed
    <2>7. Chains(x, l, Pushed(us, L, l), Old(us, L, l), Class(ks, l), hs[l], ns[l], ks[l], L, r, 0)
      BY <1>5, <2>1, <2>6
    <2> QED
      BY <2>2, <2>7 DEF ListsOK
  <1>12. DirtyOK(<<>>, hs, L)
    BY <1>1 DEF DirtyOK, Unlinked
  <1>13. <<>> \in Seq(0 .. HashSize[2] - 1)
    OBVIOUS
  <1> QED
    BY <1>1, <1>2, <1>9, <1>10, <1>11, <1>12, <1>13 DEF Working, Level

-----------------------------------------------------------------------------
(***************************************************************************)
(* The actions of the thread.  What they assign to a map, field by field.  *)
(***************************************************************************)
\* what is at s of array l becomes v
SetValue(m, l, s, v, m2) == m2 = [m EXCEPT ![l].values[s] = v]
SetKey(m, l, s, k, v, m2) == m2 = [m EXCEPT ![l] = [@ EXCEPT !.keys[s] = k, !.values[s] = v]]
SetLink(m, l, s, g, m2) == m2 = [m EXCEPT ![l].nexts[s] = g]
SetHead(m, l, h, s, m2) == m2 = [m EXCEPT ![l].begins[h] = s]
SetUsed(m, l, m2) == m2 = [m EXCEPT ![l].used = @ + 1]

SameKeys(m, m2) == KeysOf(m2) = KeysOf(m)
SameValues(m, m2) == ValuesOf(m2) = ValuesOf(m)
SameLinks(m, m2) == LinksOf(m2) = LinksOf(m)
SameHeads(m, m2) == HeadsOf(m2) = HeadsOf(m)
SameUsed(m, m2) == UsedOf(m2) = UsedOf(m)

\* a map of these fields
Fields(b, n, k, v, u) == [begins |-> b, nexts |-> n, keys |-> k, values |-> v, used |-> u]

LEMMA FieldsAre ==
  ASSUME NEW m, AreMaps(m)
  PROVE  /\ DOMAIN m = Level /\ m = [u \in Level |-> m[u]]
         /\ \A u \in Level : m[u] = Fields(m[u].begins, m[u].nexts, m[u].keys, m[u].values, m[u].used)
  BY DEF AreMaps, Fields

LEMMA FieldsMake ==
  ASSUME NEW m, m = [u \in Level |-> m[u]],
         \A u \in Level : \E b, n, k, v, z : m[u] = Fields(b, n, k, v, z)
  PROVE  AreMaps(m)
  <1>1. \A u \in Level : m[u] = [begins |-> m[u].begins, nexts |-> m[u].nexts, keys |-> m[u].keys,
                                values |-> m[u].values, used |-> m[u].used]
    <2> TAKE u \in Level
    <2>1. PICK b, n, k, v, z : m[u] = Fields(b, n, k, v, z)
      OBVIOUS
    <2> QED
      BY <2>1 DEF Fields
  <1> QED
    BY <1>1 DEF AreMaps

LEMMA ValueSet ==
  ASSUME NEW m, AreMaps(m), NEW l \in Level, NEW s, NEW v, NEW m2, SetValue(m, l, s, v, m2)
  PROVE  /\ AreMaps(m2) /\ SameHeads(m, m2) /\ SameLinks(m, m2) /\ SameKeys(m, m2) /\ SameUsed(m, m2)
         /\ WriteIn(ValuesOf(m), l, s, v, ValuesOf(m2))
  <1>1. /\ DOMAIN m = Level /\ m = [u \in Level |-> m[u]]
        /\ \A u \in Level : m[u] = Fields(m[u].begins, m[u].nexts, m[u].keys, m[u].values, m[u].used)
    BY FieldsAre
  <1>2. m2 = [u \in Level |-> m2[u]] /\ \A u \in Level : u # l => m2[u] = m[u]
    BY <1>1 DEF SetValue
  <1>3. m2[l] = Fields(m[l].begins, m[l].nexts, m[l].keys, [m[l].values EXCEPT ![s] = v], m[l].used)
    <2>1. m2[l] = [m[l] EXCEPT !.values[s] = v]
      BY <1>1 DEF SetValue
    <2>2. PICK b, n, c, a, z : m[l] = Fields(b, n, c, a, z)
      BY <1>1
    <2>3. m[l].begins = b /\ m[l].nexts = n /\ m[l].keys = c /\ m[l].values = a /\ m[l].used = z
      BY <2>2 DEF Fields
    <2> QED
      BY <2>1, <2>2, <2>3 DEF Fields
  <1>4. AreMaps(m2)
    BY <1>1, <1>2, <1>3, FieldsMake
  <1>5. SameHeads(m, m2)
    <2>1. \A u \in Level : m2[u].begins = m[u].begins
      BY <1>2, <1>3 DEF Fields
    <2> QED
      BY <2>1 DEF SameHeads, HeadsOf
  <1>6. SameLinks(m, m2)
    <2>1. \A u \in Level : m2[u].nexts = m[u].nexts
      BY <1>2, <1>3 DEF Fields
    <2> QED
      BY <2>1 DEF SameLinks, LinksOf
  <1>7. SameKeys(m, m2)
    <2>1. \A u \in Level : m2[u].keys = m[u].keys
      BY <1>2, <1>3 DEF Fields
    <2> QED
      BY <2>1 DEF SameKeys, KeysOf
  <1>8. SameUsed(m, m2)
    <2>1. \A u \in Level : m2[u].used = m[u].used
      BY <1>2, <1>3 DEF Fields
    <2> QED
      BY <2>1 DEF SameUsed, UsedOf
  <1>9. WriteIn(ValuesOf(m), l, s, v, ValuesOf(m2))
    <2>1. m2[l].values = [m[l].values EXCEPT ![s] = v]
      BY <1>3 DEF Fields
    <2>2. \A u \in Level : u # l => m2[u].values = m[u].values
      BY <1>2
    <2> QED
      BY <2>1, <2>2 DEF WriteIn, ValuesOf
  <1> QED
    BY <1>4, <1>5, <1>6, <1>7, <1>8, <1>9

LEMMA KeySet ==
  ASSUME NEW m, AreMaps(m), NEW l \in Level, NEW s, NEW k, NEW v, NEW m2, SetKey(m, l, s, k, v, m2)
  PROVE  /\ AreMaps(m2) /\ SameHeads(m, m2) /\ SameLinks(m, m2) /\ SameUsed(m, m2)
         /\ WriteIn(KeysOf(m), l, s, k, KeysOf(m2))
         /\ WriteIn(ValuesOf(m), l, s, v, ValuesOf(m2))
  <1>1. /\ DOMAIN m = Level /\ m = [u \in Level |-> m[u]]
        /\ \A u \in Level : m[u] = Fields(m[u].begins, m[u].nexts, m[u].keys, m[u].values, m[u].used)
    BY FieldsAre
  <1>2. m2 = [u \in Level |-> m2[u]] /\ \A u \in Level : u # l => m2[u] = m[u]
    BY <1>1 DEF SetKey
  <1>3. m2[l] = Fields(m[l].begins, m[l].nexts, [m[l].keys EXCEPT ![s] = k], [m[l].values EXCEPT ![s] = v], m[l].used)
    <2>1. m2[l] = [m[l] EXCEPT !.keys[s] = k, !.values[s] = v]
      BY <1>1 DEF SetKey
    <2>2. PICK b, n, c, a, z : m[l] = Fields(b, n, c, a, z)
      BY <1>1
    <2>3. m[l].begins = b /\ m[l].nexts = n /\ m[l].keys = c /\ m[l].values = a /\ m[l].used = z
      BY <2>2 DEF Fields
    <2> QED
      BY <2>1, <2>2, <2>3 DEF Fields
  <1>4. AreMaps(m2)
    BY <1>1, <1>2, <1>3, FieldsMake
  <1>5. SameHeads(m, m2)
    <2>1. \A u \in Level : m2[u].begins = m[u].begins
      BY <1>2, <1>3 DEF Fields
    <2> QED
      BY <2>1 DEF SameHeads, HeadsOf
  <1>6. SameLinks(m, m2)
    <2>1. \A u \in Level : m2[u].nexts = m[u].nexts
      BY <1>2, <1>3 DEF Fields
    <2> QED
      BY <2>1 DEF SameLinks, LinksOf
  <1>7. SameUsed(m, m2)
    <2>1. \A u \in Level : m2[u].used = m[u].used
      BY <1>2, <1>3 DEF Fields
    <2> QED
      BY <2>1 DEF SameUsed, UsedOf
  <1>8. WriteIn(KeysOf(m), l, s, k, KeysOf(m2))
    <2>1. m2[l].keys = [m[l].keys EXCEPT ![s] = k]
      BY <1>3 DEF Fields
    <2>2. \A u \in Level : u # l => m2[u].keys = m[u].keys
      BY <1>2
    <2> QED
      BY <2>1, <2>2 DEF WriteIn, KeysOf
  <1>9. WriteIn(ValuesOf(m), l, s, v, ValuesOf(m2))
    <2>1. m2[l].values = [m[l].values EXCEPT ![s] = v]
      BY <1>3 DEF Fields
    <2>2. \A u \in Level : u # l => m2[u].values = m[u].values
      BY <1>2
    <2> QED
      BY <2>1, <2>2 DEF WriteIn, ValuesOf
  <1> QED
    BY <1>4, <1>5, <1>6, <1>7, <1>8, <1>9

LEMMA LinkSet ==
  ASSUME NEW m, AreMaps(m), NEW l \in Level, NEW s, NEW g, NEW m2, SetLink(m, l, s, g, m2)
  PROVE  /\ AreMaps(m2) /\ SameHeads(m, m2) /\ SameKeys(m, m2) /\ SameValues(m, m2) /\ SameUsed(m, m2)
         /\ WriteIn(LinksOf(m), l, s, g, LinksOf(m2))
  <1>1. /\ DOMAIN m = Level /\ m = [u \in Level |-> m[u]]
        /\ \A u \in Level : m[u] = Fields(m[u].begins, m[u].nexts, m[u].keys, m[u].values, m[u].used)
    BY FieldsAre
  <1>2. m2 = [u \in Level |-> m2[u]] /\ \A u \in Level : u # l => m2[u] = m[u]
    BY <1>1 DEF SetLink
  <1>3. m2[l] = Fields(m[l].begins, [m[l].nexts EXCEPT ![s] = g], m[l].keys, m[l].values, m[l].used)
    <2>1. m2[l] = [m[l] EXCEPT !.nexts[s] = g]
      BY <1>1 DEF SetLink
    <2>2. PICK b, n, c, a, z : m[l] = Fields(b, n, c, a, z)
      BY <1>1
    <2>3. m[l].begins = b /\ m[l].nexts = n /\ m[l].keys = c /\ m[l].values = a /\ m[l].used = z
      BY <2>2 DEF Fields
    <2> QED
      BY <2>1, <2>2, <2>3 DEF Fields
  <1>4. AreMaps(m2)
    BY <1>1, <1>2, <1>3, FieldsMake
  <1>5. SameHeads(m, m2)
    <2>1. \A u \in Level : m2[u].begins = m[u].begins
      BY <1>2, <1>3 DEF Fields
    <2> QED
      BY <2>1 DEF SameHeads, HeadsOf
  <1>6. SameKeys(m, m2)
    <2>1. \A u \in Level : m2[u].keys = m[u].keys
      BY <1>2, <1>3 DEF Fields
    <2> QED
      BY <2>1 DEF SameKeys, KeysOf
  <1>7. SameValues(m, m2)
    <2>1. \A u \in Level : m2[u].values = m[u].values
      BY <1>2, <1>3 DEF Fields
    <2> QED
      BY <2>1 DEF SameValues, ValuesOf
  <1>8. SameUsed(m, m2)
    <2>1. \A u \in Level : m2[u].used = m[u].used
      BY <1>2, <1>3 DEF Fields
    <2> QED
      BY <2>1 DEF SameUsed, UsedOf
  <1>9. WriteIn(LinksOf(m), l, s, g, LinksOf(m2))
    <2>1. m2[l].nexts = [m[l].nexts EXCEPT ![s] = g]
      BY <1>3 DEF Fields
    <2>2. \A u \in Level : u # l => m2[u].nexts = m[u].nexts
      BY <1>2
    <2> QED
      BY <2>1, <2>2 DEF WriteIn, LinksOf
  <1> QED
    BY <1>4, <1>5, <1>6, <1>7, <1>8, <1>9

LEMMA HeadSet ==
  ASSUME NEW m, AreMaps(m), NEW l \in Level, NEW h, NEW s, NEW m2, SetHead(m, l, h, s, m2)
  PROVE  /\ AreMaps(m2) /\ SameLinks(m, m2) /\ SameKeys(m, m2) /\ SameValues(m, m2) /\ SameUsed(m, m2)
         /\ WriteIn(HeadsOf(m), l, h, s, HeadsOf(m2))
  <1>1. /\ DOMAIN m = Level /\ m = [u \in Level |-> m[u]]
        /\ \A u \in Level : m[u] = Fields(m[u].begins, m[u].nexts, m[u].keys, m[u].values, m[u].used)
    BY FieldsAre
  <1>2. m2 = [u \in Level |-> m2[u]] /\ \A u \in Level : u # l => m2[u] = m[u]
    BY <1>1 DEF SetHead
  <1>3. m2[l] = Fields([m[l].begins EXCEPT ![h] = s], m[l].nexts, m[l].keys, m[l].values, m[l].used)
    <2>1. m2[l] = [m[l] EXCEPT !.begins[h] = s]
      BY <1>1 DEF SetHead
    <2>2. PICK b, n, c, a, z : m[l] = Fields(b, n, c, a, z)
      BY <1>1
    <2>3. m[l].begins = b /\ m[l].nexts = n /\ m[l].keys = c /\ m[l].values = a /\ m[l].used = z
      BY <2>2 DEF Fields
    <2> QED
      BY <2>1, <2>2, <2>3 DEF Fields
  <1>4. AreMaps(m2)
    BY <1>1, <1>2, <1>3, FieldsMake
  <1>5. SameLinks(m, m2)
    <2>1. \A u \in Level : m2[u].nexts = m[u].nexts
      BY <1>2, <1>3 DEF Fields
    <2> QED
      BY <2>1 DEF SameLinks, LinksOf
  <1>6. SameKeys(m, m2)
    <2>1. \A u \in Level : m2[u].keys = m[u].keys
      BY <1>2, <1>3 DEF Fields
    <2> QED
      BY <2>1 DEF SameKeys, KeysOf
  <1>7. SameValues(m, m2)
    <2>1. \A u \in Level : m2[u].values = m[u].values
      BY <1>2, <1>3 DEF Fields
    <2> QED
      BY <2>1 DEF SameValues, ValuesOf
  <1>8. SameUsed(m, m2)
    <2>1. \A u \in Level : m2[u].used = m[u].used
      BY <1>2, <1>3 DEF Fields
    <2> QED
      BY <2>1 DEF SameUsed, UsedOf
  <1>9. WriteIn(HeadsOf(m), l, h, s, HeadsOf(m2))
    <2>1. m2[l].begins = [m[l].begins EXCEPT ![h] = s]
      BY <1>3 DEF Fields
    <2>2. \A u \in Level : u # l => m2[u].begins = m[u].begins
      BY <1>2
    <2> QED
      BY <2>1, <2>2 DEF WriteIn, HeadsOf
  <1> QED
    BY <1>4, <1>5, <1>6, <1>7, <1>8, <1>9

LEMMA UsedSet ==
  ASSUME NEW m, AreMaps(m), NEW l \in Level, NEW m2, SetUsed(m, l, m2)
  PROVE  /\ AreMaps(m2) /\ SameHeads(m, m2) /\ SameLinks(m, m2) /\ SameKeys(m, m2) /\ SameValues(m, m2)
         /\ CountUp(UsedOf(m), l, UsedOf(m2))
  <1>1. /\ DOMAIN m = Level /\ m = [u \in Level |-> m[u]]
        /\ \A u \in Level : m[u] = Fields(m[u].begins, m[u].nexts, m[u].keys, m[u].values, m[u].used)
    BY FieldsAre
  <1>2. m2 = [u \in Level |-> m2[u]] /\ \A u \in Level : u # l => m2[u] = m[u]
    BY <1>1 DEF SetUsed
  <1>3. m2[l] = Fields(m[l].begins, m[l].nexts, m[l].keys, m[l].values, m[l].used + 1)
    <2>1. m2[l] = [m[l] EXCEPT !.used = @ + 1]
      BY <1>1 DEF SetUsed
    <2>2. PICK b, n, c, a, z : m[l] = Fields(b, n, c, a, z)
      BY <1>1
    <2>3. m[l].begins = b /\ m[l].nexts = n /\ m[l].keys = c /\ m[l].values = a /\ m[l].used = z
      BY <2>2 DEF Fields
    <2> QED
      BY <2>1, <2>2, <2>3 DEF Fields
  <1>4. AreMaps(m2)
    BY <1>1, <1>2, <1>3, FieldsMake
  <1>5. SameHeads(m, m2)
    <2>1. \A u \in Level : m2[u].begins = m[u].begins
      BY <1>2, <1>3 DEF Fields
    <2> QED
      BY <2>1 DEF SameHeads, HeadsOf
  <1>6. SameLinks(m, m2)
    <2>1. \A u \in Level : m2[u].nexts = m[u].nexts
      BY <1>2, <1>3 DEF Fields
    <2> QED
      BY <2>1 DEF SameLinks, LinksOf
  <1>7. SameKeys(m, m2)
    <2>1. \A u \in Level : m2[u].keys = m[u].keys
      BY <1>2, <1>3 DEF Fields
    <2> QED
      BY <2>1 DEF SameKeys, KeysOf
  <1>8. SameValues(m, m2)
    <2>1. \A u \in Level : m2[u].values = m[u].values
      BY <1>2, <1>3 DEF Fields
    <2> QED
      BY <2>1 DEF SameValues, ValuesOf
  <1>9. CountUp(UsedOf(m), l, UsedOf(m2))
    <2>1. m2[l].used = m[l].used + 1
      BY <1>3 DEF Fields
    <2>2. \A u \in Level : u # l => m2[u].used = m[u].used
      BY <1>2
    <2> QED
      BY <2>1, <2>2 DEF CountUp, UsedOf
  <1> QED
    BY <1>4, <1>5, <1>6, <1>7, <1>8, <1>9

-----------------------------------------------------------------------------
(***************************************************************************)
(* What they assign to a lane.                                             *)
(***************************************************************************)
GotoStep(L, k, pc, L2) == L2 = [L EXCEPT ![k].pc = pc]
ReadStep(L, k, var, v, pc, L2) == L2 = [L EXCEPT ![k] = [@ EXCEPT ![var] = v, !.pc = pc]]
FullStep(L, k, L2) == L2 = [L EXCEPT ![k] = IF L[k].lvl = 1 THEN [Idle EXCEPT !.pc = "hash", !.lvl = 2]
                                            ELSE [@ EXCEPT !.pc = "done"]]

IsFields(q, pc, lvl, at, my, tmp) ==
  IsLane(q) /\ q.pc = pc /\ q.lvl = lvl /\ q.at = at /\ q.my = my /\ q.tmp = tmp

LEMMA LaneMade ==
  ASSUME NEW pc \in Pcs, NEW l \in Level, NEW at \in Slots, NEW my \in Slots, NEW tmp \in Int, NEW q,
         q = [pc |-> pc, lvl |-> l, at |-> at, my |-> my, tmp |-> tmp]
  PROVE  IsFields(q, pc, l, at, my, tmp)
  BY DEF IsFields, IsLane

LEMMA LaneOpened ==
  ASSUME NEW L, LaneType(L), NEW k \in Cols
  PROVE  \E pc \in Pcs, l \in Level, at \in Slots, my \in Slots, tmp \in Int :
           L[k] = [pc |-> pc, lvl |-> l, at |-> at, my |-> my, tmp |-> tmp]
  <1>1. L[k] \in [pc : Pcs, lvl : Level, at : Slots, my : Slots, tmp : Int]
    BY DEF LaneType
  <1> QED
    BY <1>1

LEMMA GotoIs ==
  ASSUME NEW L, LaneType(L), NEW k \in Cols, NEW pc \in Pcs, NEW L2, GotoStep(L, k, pc, L2)
  PROVE  \E q : LaneStep(L, k, q, L2) /\ IsFields(q, pc, L[k].lvl, L[k].at, L[k].my, L[k].tmp)
  <1>1. PICK p \in Pcs, l \in Level, at \in Slots, my \in Slots, tmp \in Int :
          L[k] = [pc |-> p, lvl |-> l, at |-> at, my |-> my, tmp |-> tmp]
    BY LaneOpened
  <1>2. PICK q : q = [pc |-> pc, lvl |-> l, at |-> at, my |-> my, tmp |-> tmp]
    OBVIOUS
  <1>3. LaneStep(L, k, q, L2)
    <2>1. [L[k] EXCEPT !.pc = pc] = q
      BY <1>1, <1>2
    <2>2. L2 = [L EXCEPT ![k] = [L[k] EXCEPT !.pc = pc]]
      BY DEF GotoStep
    <2> QED
      BY <2>1, <2>2 DEF LaneStep
  <1>4. IsFields(q, pc, l, at, my, tmp)
    BY <1>2, LaneMade
  <1> QED
    BY <1>1, <1>3, <1>4

LEMMA ReadAtIs ==
  ASSUME NEW L, LaneType(L), NEW k \in Cols, NEW pc \in Pcs, NEW v \in Slots, NEW L2, ReadStep(L, k, "at", v, pc, L2)
  PROVE  \E q : LaneStep(L, k, q, L2) /\ IsFields(q, pc, L[k].lvl, v, L[k].my, L[k].tmp)
  <1>1. PICK p \in Pcs, l \in Level, at \in Slots, my \in Slots, tmp \in Int :
          L[k] = [pc |-> p, lvl |-> l, at |-> at, my |-> my, tmp |-> tmp]
    BY LaneOpened
  <1>2. PICK q : q = [pc |-> pc, lvl |-> l, at |-> v, my |-> my, tmp |-> tmp]
    OBVIOUS
  <1>3. LaneStep(L, k, q, L2)
    <2>1. [L[k] EXCEPT !["at"] = v, !.pc = pc] = q
      <3>1. PICK z : z = L[k]
        OBVIOUS
      <3>2. [z EXCEPT !["at"] = v, !.pc = pc] = [[z EXCEPT !["at"] = v] EXCEPT !.pc = pc]
        OBVIOUS
      <3>3. [z EXCEPT !["at"] = v] = [pc |-> p, lvl |-> l, at |-> v, my |-> my, tmp |-> tmp]
        BY <1>1, <3>1
      <3>4. [[pc |-> p, lvl |-> l, at |-> v, my |-> my, tmp |-> tmp] EXCEPT !.pc = pc] = q
        BY <1>2
      <3> QED
        BY <3>1, <3>2, <3>3, <3>4, Zenon
    <2>2. L2 = [L EXCEPT ![k] = [L[k] EXCEPT !["at"] = v, !.pc = pc]]
      BY Zenon DEF ReadStep
    <2> QED
      BY <2>1, <2>2, Zenon DEF LaneStep
  <1>4. IsFields(q, pc, l, v, my, tmp)
    BY <1>2, LaneMade
  <1> QED
    BY <1>1, <1>3, <1>4

LEMMA ReadMyIs ==
  ASSUME NEW L, LaneType(L), NEW k \in Cols, NEW pc \in Pcs, NEW v \in Slots, NEW L2, ReadStep(L, k, "my", v, pc, L2)
  PROVE  \E q : LaneStep(L, k, q, L2) /\ IsFields(q, pc, L[k].lvl, L[k].at, v, L[k].tmp)
  <1>1. PICK p \in Pcs, l \in Level, at \in Slots, my \in Slots, tmp \in Int :
          L[k] = [pc |-> p, lvl |-> l, at |-> at, my |-> my, tmp |-> tmp]
    BY LaneOpened
  <1>2. PICK q : q = [pc |-> pc, lvl |-> l, at |-> at, my |-> v, tmp |-> tmp]
    OBVIOUS
  <1>3. LaneStep(L, k, q, L2)
    <2>1. [L[k] EXCEPT !["my"] = v, !.pc = pc] = q
      <3>1. PICK z : z = L[k]
        OBVIOUS
      <3>2. [z EXCEPT !["my"] = v, !.pc = pc] = [[z EXCEPT !["my"] = v] EXCEPT !.pc = pc]
        OBVIOUS
      <3>3. [z EXCEPT !["my"] = v] = [pc |-> p, lvl |-> l, at |-> at, my |-> v, tmp |-> tmp]
        BY <1>1, <3>1
      <3>4. [[pc |-> p, lvl |-> l, at |-> at, my |-> v, tmp |-> tmp] EXCEPT !.pc = pc] = q
        BY <1>2
      <3> QED
        BY <3>1, <3>2, <3>3, <3>4, Zenon
    <2>2. L2 = [L EXCEPT ![k] = [L[k] EXCEPT !["my"] = v, !.pc = pc]]
      BY Zenon DEF ReadStep
    <2> QED
      BY <2>1, <2>2, Zenon DEF LaneStep
  <1>4. IsFields(q, pc, l, at, v, tmp)
    BY <1>2, LaneMade
  <1> QED
    BY <1>1, <1>3, <1>4

LEMMA ReadTmpIs ==
  ASSUME NEW L, LaneType(L), NEW k \in Cols, NEW pc \in Pcs, NEW v \in Int, NEW L2, ReadStep(L, k, "tmp", v, pc, L2)
  PROVE  \E q : LaneStep(L, k, q, L2) /\ IsFields(q, pc, L[k].lvl, L[k].at, L[k].my, v)
  <1>1. PICK p \in Pcs, l \in Level, at \in Slots, my \in Slots, tmp \in Int :
          L[k] = [pc |-> p, lvl |-> l, at |-> at, my |-> my, tmp |-> tmp]
    BY LaneOpened
  <1>2. PICK q : q = [pc |-> pc, lvl |-> l, at |-> at, my |-> my, tmp |-> v]
    OBVIOUS
  <1>3. LaneStep(L, k, q, L2)
    <2>1. [L[k] EXCEPT !["tmp"] = v, !.pc = pc] = q
      <3>1. PICK z : z = L[k]
        OBVIOUS
      <3>2. [z EXCEPT !["tmp"] = v, !.pc = pc] = [[z EXCEPT !["tmp"] = v] EXCEPT !.pc = pc]
        OBVIOUS
      <3>3. [z EXCEPT !["tmp"] = v] = [pc |-> p, lvl |-> l, at |-> at, my |-> my, tmp |-> v]
        BY <1>1, <3>1
      <3>4. [[pc |-> p, lvl |-> l, at |-> at, my |-> my, tmp |-> v] EXCEPT !.pc = pc] = q
        BY <1>2
      <3> QED
        BY <3>1, <3>2, <3>3, <3>4, Zenon
    <2>2. L2 = [L EXCEPT ![k] = [L[k] EXCEPT !["tmp"] = v, !.pc = pc]]
      BY Zenon DEF ReadStep
    <2> QED
      BY <2>1, <2>2, Zenon DEF LaneStep
  <1>4. IsFields(q, pc, l, at, my, v)
    BY <1>2, LaneMade
  <1> QED
    BY <1>1, <1>3, <1>4

\* a full map sends the lane from the first level to the second
LEMMA FullIs ==
  ASSUME NEW L, LaneType(L), NEW k \in Cols, L[k].lvl = 1, NEW L2, FullStep(L, k, L2)
  PROVE  \E q : LaneStep(L, k, q, L2) /\ IsFields(q, "hash", 2, Nil, Nil, Nil)
  <1>1. PICK q : q = [pc |-> "hash", lvl |-> 2, at |-> Nil, my |-> Nil, tmp |-> Nil]
    OBVIOUS
  <1>2. LaneStep(L, k, q, L2)
    <2>1. [Idle EXCEPT !.pc = "hash", !.lvl = 2] = q
      <3>1. [Idle EXCEPT !.pc = "hash", !.lvl = 2] = [[Idle EXCEPT !.pc = "hash"] EXCEPT !.lvl = 2]
        OBVIOUS
      <3>2. [Idle EXCEPT !.pc = "hash"] = [pc |-> "hash", lvl |-> 1, at |-> Nil, my |-> Nil, tmp |-> Nil]
        BY DEF Idle
      <3>3. [[pc |-> "hash", lvl |-> 1, at |-> Nil, my |-> Nil, tmp |-> Nil] EXCEPT !.lvl = 2] = q
        BY <1>1
      <3> QED
        BY <3>1, <3>2, <3>3
    <2>2. L2 = [L EXCEPT ![k] = IF L[k].lvl = 1 THEN [Idle EXCEPT !.pc = "hash", !.lvl = 2]
                                ELSE [L[k] EXCEPT !.pc = "done"]]
      BY DEF FullStep
    <2>3. (IF L[k].lvl = 1 THEN [Idle EXCEPT !.pc = "hash", !.lvl = 2] ELSE [L[k] EXCEPT !.pc = "done"]) = q
      BY <2>1
    <2> QED
      BY <2>2, <2>3 DEF LaneStep
  <1>3. IsFields(q, "hash", 2, Nil, Nil, Nil)
    <2>1. "hash" \in Pcs /\ 2 \in Level /\ Nil \in Slots /\ Nil \in Int
      BY PcsAre, Sizes DEF Level, Slots
    <2> QED
      BY <1>1, <2>1, LaneMade
  <1> QED
    BY <1>2, <1>3

LEMMA HashLane ==
  ASSUME NEW I, NEW L, L = [k \in Cols |-> IF k \in I THEN [Idle EXCEPT !.pc = "hash"] ELSE Idle], NEW k \in Cols, k \in I
  PROVE  L[k] = [pc |-> "hash", lvl |-> 1, at |-> Nil, my |-> Nil, tmp |-> Nil]
  <1>1. PICK z : z = [Idle EXCEPT !.pc = "hash"]
    OBVIOUS
  <1>2. z = [pc |-> "hash", lvl |-> 1, at |-> Nil, my |-> Nil, tmp |-> Nil]
    BY <1>1 DEF Idle
  <1>3. L[k] = z
    <2>1. L = [j \in Cols |-> IF j \in I THEN z ELSE Idle]
      BY <1>1
    <2> QED
      BY <2>1
  <1> QED
    BY <1>2, <1>3

LEMMA RestingMade ==
  ASSUME NEW I, NEW L, L = [k \in Cols |-> IF k \in I THEN [Idle EXCEPT !.pc = "hash"] ELSE Idle]
  PROVE  LaneType(L) /\ Resting(L, I)
  <1>1. "hash" \in Pcs /\ "idle" \in Pcs /\ 1 \in Level /\ Nil \in Slots /\ Nil \in Int
    BY PcsAre, Sizes DEF Level, Slots
  <1>5. [Idle EXCEPT !.pc = "hash"] = [pc |-> "hash", lvl |-> 1, at |-> Nil, my |-> Nil, tmp |-> Nil]
    BY DEF Idle
  <1>2. \A k \in Cols : /\ k \in I => L[k] = [pc |-> "hash", lvl |-> 1, at |-> Nil, my |-> Nil, tmp |-> Nil]
                       /\ k \notin I => L[k] = [pc |-> "idle", lvl |-> 1, at |-> Nil, my |-> Nil, tmp |-> Nil]
    BY <1>5 DEF Idle
  <1>7. \A pc \in Pcs : [pc |-> pc, lvl |-> 1, at |-> Nil, my |-> Nil, tmp |-> Nil]
                            \in [pc : Pcs, lvl : Level, at : Slots, my : Slots, tmp : Int]
    BY <1>1
  <1>8. /\ [pc |-> "hash", lvl |-> 1, at |-> Nil, my |-> Nil, tmp |-> Nil] \in [pc : Pcs, lvl : Level, at : Slots, my : Slots, tmp : Int]
        /\ [pc |-> "idle", lvl |-> 1, at |-> Nil, my |-> Nil, tmp |-> Nil] \in [pc : Pcs, lvl : Level, at : Slots, my : Slots, tmp : Int]
    BY <1>1, <1>7
  <1>3. \A k \in Cols : L[k] \in [pc : Pcs, lvl : Level, at : Slots, my : Slots, tmp : Int]
    <2> TAKE k \in Cols
    <2>1. CASE k \in I
      <3>1. L[k] = [pc |-> "hash", lvl |-> 1, at |-> Nil, my |-> Nil, tmp |-> Nil]
        BY <2>1, HashLane
      <3> QED
        BY <1>8, <3>1, Zenon
    <2>2. CASE k \notin I
      <3>1. L[k] = [pc |-> "idle", lvl |-> 1, at |-> Nil, my |-> Nil, tmp |-> Nil]
        BY <1>2, <2>2
      <3> QED
        BY <1>8, <3>1, Zenon
    <2> QED
      BY <2>1, <2>2
  <1>4. LaneType(L)
    BY <1>3 DEF LaneType
  <1>6. \A k \in Cols : L[k].lvl = 1 /\ L[k].my = Nil /\ (k \in I => L[k].pc = "hash") /\ (k \notin I => L[k].pc = "idle")
    <2> TAKE k \in Cols
    <2>1. CASE k \in I
      <3>1. L[k] = [pc |-> "hash", lvl |-> 1, at |-> Nil, my |-> Nil, tmp |-> Nil]
        BY <2>1, HashLane
      <3>2. PICK z : z = L[k]
        OBVIOUS
      <3>3. z.pc = "hash" /\ z.lvl = 1 /\ z.my = Nil
        BY <3>1, <3>2
      <3> QED
        BY <2>1, <3>2, <3>3
    <2>2. CASE k \notin I
      <3>1. L[k] = [pc |-> "idle", lvl |-> 1, at |-> Nil, my |-> Nil, tmp |-> Nil]
        BY <1>2, <2>2
      <3>2. PICK z : z = L[k]
        OBVIOUS
      <3>3. z.pc = "idle" /\ z.lvl = 1 /\ z.my = Nil
        BY <3>1, <3>2
      <3> QED
        BY <2>2, <3>2, <3>3
    <2> QED
      BY <2>1, <2>2
  <1> QED
    BY <1>4, <1>6 DEF Resting

LEMMA IdleMade ==
  ASSUME NEW L, L = [k \in Cols |-> Idle]
  PROVE  LaneType(L) /\ Resting(L, {}) /\ Ended(L) /\ \A k \in Cols : L[k].pc = "idle" /\ L[k].lvl = 1 /\ L[k].my = Nil
  <1>1. PICK I : I = {}
    OBVIOUS
  <1>2. L = [k \in Cols |-> IF k \in I THEN [Idle EXCEPT !.pc = "hash"] ELSE Idle]
    BY <1>1
  <1>3. LaneType(L) /\ Resting(L, I)
    BY <1>2, RestingMade
  <1> QED
    BY <1>1, <1>3 DEF Resting, Ended

-----------------------------------------------------------------------------
(***************************************************************************)
(* The row in work.                                                        *)
(***************************************************************************)
LEMMA RowFacts ==
  ASSUME IInv, row <= Len(rows)
  PROVE  /\ row \in DOMAIN rows /\ Row \in Seq(SUBSET Cols) /\ DOMAIN Row \subseteq DOMAIN Val
         /\ DOMAIN Row = 1 .. Len(Row) /\ Len(Row) \in Nat
         /\ ColsOf(row) \subseteq Cols /\ (\A e \in DOMAIN Row : Row[e] \subseteq ColsOf(row))
         /\ CSize(row) <= KeySize[2] /\ CSize(row) = Cardinality(ColsOf(row)) /\ exec \in Execs
  <1>1. rows \in Problems /\ row \in 1 .. Len(rows) + 1 /\ exec \in Execs /\ \A r \in DOMAIN rows : CSize(r) <= KeySize[2]
    BY DEF IInv, Shape, Fitting
  <1>2. rows \in Seq(Seq(SUBSET Cols)) /\ \A r \in DOMAIN rows : DOMAIN rows[r] \subseteq DOMAIN Val
    BY <1>1, ProblemAssumption
  <1>3. row \in DOMAIN rows
    <2>1. DOMAIN rows = 1 .. Len(rows) /\ Len(rows) \in Nat
      BY <1>2
    <2> QED
      BY <1>1, <2>1
  <1>4. Row \in Seq(SUBSET Cols) /\ DOMAIN Row \subseteq DOMAIN Val
    BY <1>2, <1>3 DEF Row
  <1>5. DOMAIN Row = 1 .. Len(Row) /\ Len(Row) \in Nat
    BY <1>4
  <1>6. \A e \in DOMAIN Row : Row[e] \subseteq Cols
    BY <1>4
  <1>7. ColsOf(row) = UNION {Row[e] : e \in DOMAIN Row}
    BY DEF ColsOf, Row
  <1>8. ColsOf(row) \subseteq Cols
    BY <1>6, <1>7
  <1>9. \A e \in DOMAIN Row : Row[e] \subseteq ColsOf(row)
    BY <1>7
  <1> QED
    BY <1>1, <1>3, <1>4, <1>5, <1>8, <1>9 DEF CSize

LEMMA EntryFacts ==
  ASSUME IInv, ph \in {"entries", "lanes"}
  PROVE  /\ row <= Len(rows) /\ ii \in Nat /\ ii <= Len(Row) /\ Entry \notin Before /\ Before \subseteq DOMAIN Row
         /\ (ii # 0 => Entry \in DOMAIN Row)
  <1>1. row <= Len(rows) /\ ii \in Nat /\ ii <= Len(Row)
    BY DEF IInv, Phases, Shape
  <1>2. DOMAIN Row = 1 .. Len(Row) /\ Len(Row) \in Nat
    BY <1>1, RowFacts
  <1>3. Entry = IF Multi THEN Len(Row) + 1 - ii ELSE ii
    BY DEF Entry, Multi, Row
  <1>4. Entry \in Int
    BY <1>1, <1>2, <1>3
  <1>5. Entry \notin Before /\ Before \subseteq DOMAIN Row
    BY <1>4 DEF Before
  <1>6. ii # 0 => Entry \in DOMAIN Row
    BY <1>1, <1>2, <1>3
  <1> QED
    BY <1>1, <1>5, <1>6

LEMMA FixedNow ==
  ASSUME IInv, ph \in {"entries", "lanes"}
  PROVE  Fixed(exec, ColsOf(row), Inserting, Row, Before, Entry, held)
  <1>1. /\ row <= Len(rows) /\ ii \in Nat /\ Entry \notin Before /\ Before \subseteq DOMAIN Row
        /\ (ii # 0 => Entry \in DOMAIN Row)
    BY EntryFacts
  <1>2. /\ Row \in Seq(SUBSET Cols) /\ DOMAIN Row \subseteq DOMAIN Val /\ exec \in Execs
        /\ ColsOf(row) \subseteq Cols /\ (\A e \in DOMAIN Row : Row[e] \subseteq ColsOf(row))
        /\ CSize(row) <= KeySize[2] /\ CSize(row) = Cardinality(ColsOf(row))
    BY <1>1, RowFacts
  <1>3. held <=> Multi \/ CSize(row) > KeySize[1]
    BY DEF IInv, Phases
  <1>4. ph = "lanes" => ii # 0
    BY DEF IInv, Phases
  <1>5. Inserting \subseteq ColsOf(row) /\ (Inserting # {} => Entry \in DOMAIN Row /\ Inserting = Row[Entry])
    BY <1>1, <1>2, <1>4 DEF Inserting
  <1>6. Setting(exec, ColsOf(row), Inserting, Row, Before, Entry)
    BY <1>1, <1>2, <1>5 DEF Setting
  <1>7. exec = "multicore" \/ Cardinality(ColsOf(row)) > KeySize[1] => held
    BY <1>2, <1>3 DEF Multi
  <1> QED
    BY <1>2, <1>6, <1>7 DEF Fixed

WorkingNow ==
  Working(exec, ColsOf(row), Inserting, Row, Before, Entry, held, dirty, Used, Keys, Values, Heads, Links, lane)

Stays == UNCHANGED <<kernel, ph, ii, held>>

\* a step of a lane is about the maps, the tracked hashes and the lanes
LEMMA LaneKeeps ==
  ASSUME IInv, ph = "lanes", Stays, AreMaps(map)',
         Working(exec, ColsOf(row), Inserting, Row, Before, Entry, held, dirty', Used', Keys', Values', Heads', Links', lane')
  PROVE  IInv'
  <1>1. /\ exec' = exec /\ rows' = rows /\ row' = row /\ ph' = ph /\ ii' = ii /\ held' = held
    BY DEF Stays, kernel
  <1>2. /\ Row' = Row /\ ColsOf(row)' = ColsOf(row) /\ Multi' = Multi /\ Entry' = Entry /\ CSize(row)' = CSize(row)
    BY <1>1 DEF Row, ColsOf, Multi, Entry, CSize
  <1>3. Inserting' = Inserting /\ Before' = Before
    BY <1>1, <1>2 DEF Inserting, Before
  <1>4. WorkingNow'
    BY <1>1, <1>2, <1>3 DEF WorkingNow
  <1>5. FieldsOK(Used, Keys, Values, Heads, Links)' /\ LaneType(lane)' /\ dirty' \in Seq(0 .. HashSize[2] - 1)
    BY DEF Working
  <1>6. Shape'
    <2>1. /\ exec \in Execs /\ Fitting /\ row \in 1 .. Len(rows) + 1
          /\ ph \in {"row", "entries", "lanes", "reset", "copy", "written"}
          /\ ii \in Nat /\ held \in BOOLEAN
      BY DEF IInv, Shape
    <2>2. Fitting'
      BY <1>1, <2>1 DEF Fitting, CSize, ColsOf
    <2> QED
      BY <1>1, <1>5, <2>1, <2>2 DEF Shape
  <1>7. Phases'
    <2>1. Phases
      BY DEF IInv
    <2> QED
      BY <1>1, <1>2, <2>1 DEF Phases
  <1>8. Clean'
    <2>1. ~ held => Heads[2]' = Unlinked(2)
      BY DEF Working
    <2> QED
      BY <1>1, <2>1 DEF Clean
  <1>9. RowCorrect'
    BY <1>1 DEF RowCorrect
  <1> QED
    BY <1>1, <1>4, <1>6, <1>7, <1>8, <1>9 DEF IInv, WorkingNow

\* what holds when lane k takes a step
LEMMA TurnNow ==
  ASSUME IInv, NEW k \in Cols, NEW pc, At(k, pc)
  PROVE  /\ ph = "lanes" /\ lane[k].pc = pc /\ TurnOf(exec, lane, k)
         /\ AreMaps(map) /\ LaneType(lane) /\ FieldsOK(Used, Keys, Values, Heads, Links)
         /\ Fixed(exec, ColsOf(row), Inserting, Row, Before, Entry, held)
         /\ Working(exec, ColsOf(row), Inserting, Row, Before, Entry, held, dirty, Used, Keys, Values, Heads, Links, lane)
         /\ lane[k].lvl \in Level /\ lane[k].at \in Slots /\ lane[k].my \in Slots /\ lane[k].tmp \in Int
  <1>1. ph = "lanes" /\ lane[k].pc = pc /\ TurnOf(exec, lane, k)
    BY DEF At, Turn, TurnOf
  <1>2. AreMaps(map) /\ LaneType(lane) /\ FieldsOK(Used, Keys, Values, Heads, Links)
    BY DEF IInv, Shape
  <1>3. Fixed(exec, ColsOf(row), Inserting, Row, Before, Entry, held)
    BY <1>1, FixedNow
  <1>4. Working(exec, ColsOf(row), Inserting, Row, Before, Entry, held, dirty, Used, Keys, Values, Heads, Links, lane)
    BY <1>1 DEF IInv
  <1>5. lane[k].lvl \in Level /\ lane[k].at \in Slots /\ lane[k].my \in Slots /\ lane[k].tmp \in Int
    BY <1>2, LaneFields
  <1> QED
    BY <1>1, <1>2, <1>3, <1>4, <1>5

LEMMA FieldsNow ==
  \A l \in Level : /\ Used[l] = map[l].used /\ Keys[l] = map[l].keys /\ Values[l] = map[l].values
                   /\ Heads[l] = map[l].begins /\ Links[l] = map[l].nexts
  BY DEF Used, Keys, Values, Heads, Links, UsedOf, KeysOf, ValuesOf, HeadsOf, LinksOf

LEMMA ReadHeadKeeps ==
  ASSUME IInv, NEW k \in Cols, ReadHead(k)
  PROVE  IInv'
  <1>1. /\ At(k, "hash") /\ Stays /\ map' = map /\ dirty' = dirty
        /\ ReadStep(lane, k, "at", map[lane[k].lvl].begins[H(k)], "walk", lane')
    BY Zenon DEF ReadHead, Read, ReadStep, Stays, M
  <1>2. /\ ph = "lanes" /\ lane[k].pc = "hash" /\ TurnOf(exec, lane, k)
        /\ AreMaps(map) /\ LaneType(lane) /\ FieldsOK(Used, Keys, Values, Heads, Links)
        /\ Fixed(exec, ColsOf(row), Inserting, Row, Before, Entry, held)
        /\ Working(exec, ColsOf(row), Inserting, Row, Before, Entry, held, dirty, Used, Keys, Values, Heads, Links, lane)
    BY <1>1, TurnNow
  <1>3. PICK l \in Level : l = lane[k].lvl
    BY <1>1, TurnNow
  <1>4. PICK v : v = Heads[l][Hash(k, HashSize[l])]
    OBVIOUS
  <1>5. v \in Slots /\ "walk" \in Pcs
    <2>1. Hash(k, HashSize[l]) \in 0 .. HashSize[l] - 1 /\ Heads[l] \in [0 .. HashSize[l] - 1 -> SlotsOf(l) \union {Nil}]
      BY <1>2, HashIs DEF FieldsOK
    <2> QED
      BY <1>4, <2>1, PcsAre DEF Slots, Level
  <1>6. ReadStep(lane, k, "at", v, "walk", lane')
    BY <1>1, <1>3, <1>4, FieldsNow DEF H
  <1>7. PICK q : LaneStep(lane, k, q, lane') /\ IsFields(q, "walk", lane[k].lvl, v, lane[k].my, lane[k].tmp)
    BY <1>2, <1>5, <1>6, ReadAtIs
  <1>8. IsLane(q) /\ q.pc = "walk" /\ q.lvl = l /\ q.my = lane[k].my /\ q.at = Heads[l][Hash(k, HashSize[l])]
    BY <1>3, <1>4, <1>7 DEF IsFields
  <1>9. Working(exec, ColsOf(row), Inserting, Row, Before, Entry, held, dirty, Used, Keys, Values, Heads, Links, lane')
    BY <1>2, <1>3, <1>7, <1>8, ReadHeadWorks, Zenon
  <1>10. Used' = Used /\ Keys' = Keys /\ Values' = Values /\ Heads' = Heads /\ Links' = Links /\ AreMaps(map)'
    BY <1>1, <1>2, Zenon DEF Used, Keys, Values, Heads, Links, UsedOf, KeysOf, ValuesOf, HeadsOf, LinksOf, AreMaps
  <1>11. Working(exec, ColsOf(row), Inserting, Row, Before, Entry, held, dirty', Used', Keys', Values', Heads', Links', lane')
    BY <1>1, <1>9, <1>10
  <1> QED
    BY <1>1, <1>2, <1>10, <1>11, LaneKeeps

\* the slot at which a lane looks is one of its level
LEMMA WalksIn ==
  ASSUME NEW x, NEW C, NEW I, NEW R, NEW D, NEW e, NEW hd, NEW d, NEW us, NEW ks, NEW vs,
         NEW hs, NEW ns, NEW L, Working(x, C, I, R, D, e, hd, d, us, ks, vs, hs, ns, L),
         NEW l \in Level, NEW k \in Cols, L[k].pc = "walk", L[k].lvl = l
  PROVE  L[k].at \in SlotsOf(l) \union {Nil}
  <1>1. ListsOK(x, us, ks, hs, ns, L, l)
    BY DEF Working, Level
  <1>2. PICK n \in Nat, r \in [SlotsOf(l) -> Nat] :
          Chains(x, l, Pushed(us, L, l), Old(us, L, l), Class(ks, l), hs[l], ns[l], ks[l], L, r, n)
    BY <1>1 DEF ListsOK
  <1>3. Pushed(us, L, l) \subseteq SlotsOf(l)
    BY SlotSets
  <1> QED
    BY <1>2, <1>3 DEF Chains, LaneListed, SoughtAt, OfClass

LEMMA WalkOnKeeps ==
  ASSUME IInv, NEW k \in Cols, WalkOn(k)
  PROVE  IInv'
  <1>1. /\ At(k, "walk") /\ Stays /\ map' = map /\ dirty' = dirty
        /\ lane[k].at # Nil /\ map[lane[k].lvl].keys[lane[k].at] # k
        /\ ReadStep(lane, k, "at", map[lane[k].lvl].nexts[lane[k].at], "walk", lane')
    BY Zenon DEF WalkOn, Read, ReadStep, Stays, M
  <1>2. /\ ph = "lanes" /\ lane[k].pc = "walk" /\ TurnOf(exec, lane, k)
        /\ AreMaps(map) /\ LaneType(lane) /\ FieldsOK(Used, Keys, Values, Heads, Links)
        /\ Fixed(exec, ColsOf(row), Inserting, Row, Before, Entry, held)
        /\ Working(exec, ColsOf(row), Inserting, Row, Before, Entry, held, dirty, Used, Keys, Values, Heads, Links, lane)
    BY <1>1, TurnNow
  <1>3. PICK l \in Level : l = lane[k].lvl
    BY <1>1, TurnNow
  <1>4. PICK v : v = Links[l][lane[k].at]
    OBVIOUS
  <1>5. v \in Slots /\ "walk" \in Pcs
    <2>1. lane[k].at \in SlotsOf(l) \union {Nil}
      BY <1>2, <1>3, WalksIn
    <2>2. Links[l] \in [SlotsOf(l) -> SlotsOf(l) \union {Nil}]
      BY <1>2 DEF FieldsOK
    <2> QED
      BY <1>1, <1>4, <2>1, <2>2, PcsAre DEF Slots, Level
  <1>6. ReadStep(lane, k, "at", v, "walk", lane') /\ Keys[l][lane[k].at] # k
    BY <1>1, <1>3, <1>4, FieldsNow
  <1>7. PICK q : LaneStep(lane, k, q, lane') /\ IsFields(q, "walk", lane[k].lvl, v, lane[k].my, lane[k].tmp)
    BY <1>2, <1>5, <1>6, ReadAtIs
  <1>8. IsLane(q) /\ q.pc = "walk" /\ q.lvl = l /\ q.my = lane[k].my /\ q.at = Links[l][lane[k].at] /\ lane[k].at # Nil
    BY <1>1, <1>3, <1>4, <1>7 DEF IsFields
  <1>9. Working(exec, ColsOf(row), Inserting, Row, Before, Entry, held, dirty, Used, Keys, Values, Heads, Links, lane')
    BY <1>2, <1>3, <1>6, <1>7, <1>8, WalkOnWorks, Zenon
  <1>18. Used' = Used /\ Keys' = Keys /\ Values' = Values /\ Heads' = Heads /\ Links' = Links /\ AreMaps(map)'
    BY <1>1, <1>2, Zenon DEF Used, Keys, Values, Heads, Links, UsedOf, KeysOf, ValuesOf, HeadsOf, LinksOf, AreMaps
  <1>20. Working(exec, ColsOf(row), Inserting, Row, Before, Entry, held, dirty', Used', Keys', Values', Heads', Links', lane')
    BY <1>1, <1>9, <1>18
  <1> QED
    BY <1>1, <1>2, <1>18, <1>20, LaneKeeps

LEMMA FoundKeeps ==
  ASSUME IInv, NEW k \in Cols, Found(k)
  PROVE  IInv'
  <1>1. /\ At(k, "walk") /\ Stays /\ map' = map /\ dirty' = dirty
        /\ lane[k].at # Nil /\ map[lane[k].lvl].keys[lane[k].at] = k
        /\ ReadStep(lane, k, "tmp", map[lane[k].lvl].values[lane[k].at], "store", lane')
    BY Zenon DEF Found, Read, ReadStep, Stays, M
  <1>2. /\ ph = "lanes" /\ lane[k].pc = "walk" /\ TurnOf(exec, lane, k)
        /\ AreMaps(map) /\ LaneType(lane) /\ FieldsOK(Used, Keys, Values, Heads, Links)
        /\ Fixed(exec, ColsOf(row), Inserting, Row, Before, Entry, held)
        /\ Working(exec, ColsOf(row), Inserting, Row, Before, Entry, held, dirty, Used, Keys, Values, Heads, Links, lane)
    BY <1>1, TurnNow
  <1>3. PICK l \in Level : l = lane[k].lvl
    BY <1>1, TurnNow
  <1>4. PICK v : v = Values[l][lane[k].at]
    OBVIOUS
  <1>5. v \in Int /\ "store" \in Pcs
    <2>1. lane[k].at \in SlotsOf(l) \union {Nil}
      BY <1>2, <1>3, WalksIn
    <2>2. Values[l] \in [SlotsOf(l) -> Int]
      BY <1>2 DEF FieldsOK
    <2> QED
      BY <1>1, <1>4, <2>1, <2>2, PcsAre
  <1>6. ReadStep(lane, k, "tmp", v, "store", lane') /\ Keys[l][lane[k].at] = k
    BY <1>1, <1>3, <1>4, FieldsNow
  <1>7. PICK q : LaneStep(lane, k, q, lane') /\ IsFields(q, "store", lane[k].lvl, lane[k].at, lane[k].my, v)
    BY <1>2, <1>5, <1>6, ReadTmpIs
  <1>8. /\ IsLane(q) /\ q.pc = "store" /\ q.lvl = l /\ q.my = lane[k].my /\ q.at = lane[k].at
        /\ q.tmp = Values[l][lane[k].at] /\ lane[k].at # Nil
    BY <1>1, <1>3, <1>4, <1>7 DEF IsFields
  <1>9. Working(exec, ColsOf(row), Inserting, Row, Before, Entry, held, dirty, Used, Keys, Values, Heads, Links, lane')
    BY <1>2, <1>3, <1>6, <1>7, <1>8, FoundWorks, Zenon
  <1>18. Used' = Used /\ Keys' = Keys /\ Values' = Values /\ Heads' = Heads /\ Links' = Links /\ AreMaps(map)'
    BY <1>1, <1>2, Zenon DEF Used, Keys, Values, Heads, Links, UsedOf, KeysOf, ValuesOf, HeadsOf, LinksOf, AreMaps
  <1>20. Working(exec, ColsOf(row), Inserting, Row, Before, Entry, held, dirty', Used', Keys', Values', Heads', Links', lane')
    BY <1>1, <1>9, <1>18
  <1> QED
    BY <1>1, <1>2, <1>18, <1>20, LaneKeeps

LEMMA NotFoundKeeps ==
  ASSUME IInv, NEW k \in Cols, NotFound(k)
  PROVE  IInv'
  <1>1. /\ At(k, "walk") /\ Stays /\ map' = map /\ dirty' = dirty /\ lane[k].at = Nil
        /\ GotoStep(lane, k, IF lane[k].lvl = 1 THEN "check" ELSE "reserve", lane')
    BY DEF NotFound, Goto, GotoStep, Stays
  <1>2. /\ ph = "lanes" /\ lane[k].pc = "walk" /\ TurnOf(exec, lane, k)
        /\ AreMaps(map) /\ LaneType(lane) /\ FieldsOK(Used, Keys, Values, Heads, Links)
        /\ Fixed(exec, ColsOf(row), Inserting, Row, Before, Entry, held)
        /\ Working(exec, ColsOf(row), Inserting, Row, Before, Entry, held, dirty, Used, Keys, Values, Heads, Links, lane)
    BY <1>1, TurnNow
  <1>3. PICK l \in Level : l = lane[k].lvl
    BY <1>1, TurnNow
  <1>4. PICK pc : pc = IF l = 1 THEN "check" ELSE "reserve"
    OBVIOUS
  <1>5. pc \in Pcs /\ GotoStep(lane, k, pc, lane')
    BY <1>1, <1>3, <1>4, PcsAre
  <1>7. PICK q : LaneStep(lane, k, q, lane') /\ IsFields(q, pc, lane[k].lvl, lane[k].at, lane[k].my, lane[k].tmp)
    BY <1>2, <1>5, GotoIs
  <1>8. IsLane(q) /\ q.pc = (IF l = 1 THEN "check" ELSE "reserve") /\ q.lvl = l /\ q.my = lane[k].my /\ lane[k].at = Nil
    BY <1>1, <1>3, <1>4, <1>7 DEF IsFields
  <1>9. Working(exec, ColsOf(row), Inserting, Row, Before, Entry, held, dirty, Used, Keys, Values, Heads, Links, lane')
    BY <1>2, <1>3, <1>7, <1>8, NotFoundWorks, Zenon
  <1>18. Used' = Used /\ Keys' = Keys /\ Values' = Values /\ Heads' = Heads /\ Links' = Links /\ AreMaps(map)'
    BY <1>1, <1>2, Zenon DEF Used, Keys, Values, Heads, Links, UsedOf, KeysOf, ValuesOf, HeadsOf, LinksOf, AreMaps
  <1>20. Working(exec, ColsOf(row), Inserting, Row, Before, Entry, held, dirty', Used', Keys', Values', Heads', Links', lane')
    BY <1>1, <1>9, <1>18
  <1> QED
    BY <1>1, <1>2, <1>18, <1>20, LaneKeeps

LEMMA CheckKeeps ==
  ASSUME IInv, NEW k \in Cols, CheckUsed(k)
  PROVE  IInv'
  <1>1. /\ At(k, "check") /\ Stays /\ map' = map /\ dirty' = dirty
        /\ IF map[lane[k].lvl].used >= KeySize[1] THEN FullStep(lane, k, lane') ELSE GotoStep(lane, k, "reserve", lane')
    BY DEF CheckUsed, Goto, GotoStep, Full, FullStep, Stays, M
  <1>2. /\ ph = "lanes" /\ lane[k].pc = "check" /\ TurnOf(exec, lane, k)
        /\ AreMaps(map) /\ LaneType(lane) /\ FieldsOK(Used, Keys, Values, Heads, Links)
        /\ Fixed(exec, ColsOf(row), Inserting, Row, Before, Entry, held)
        /\ Working(exec, ColsOf(row), Inserting, Row, Before, Entry, held, dirty, Used, Keys, Values, Heads, Links, lane)
    BY <1>1, TurnNow
  <1>3. PICK l \in Level : l = lane[k].lvl
    BY <1>1, TurnNow
  <1>4. lane[k].lvl = 1
    <2>1. LaneOK(exec, Inserting, held, Used, Keys, Values, lane, k)
      BY <1>2 DEF Working, Core
    <2> QED
      BY <1>2, <2>1 DEF LaneOK
  <1>5. 1 \in Level /\ map[lane[k].lvl].used = Used[1] /\ Used[1] \in Nat /\ KeySize[1] \in Nat /\ Used = Used
    BY <1>2, <1>4, FieldsNow, Sizes DEF Level, FieldsOK
  <1>9. Working(exec, ColsOf(row), Inserting, Row, Before, Entry, held, dirty, Used, Keys, Values, Heads, Links, lane')
    <2>1. CASE Used[1] >= KeySize[1]
      <3>1. FullStep(lane, k, lane')
        BY <1>1, <1>5, <2>1
      <3>2. PICK q : LaneStep(lane, k, q, lane') /\ IsFields(q, "hash", 2, Nil, Nil, Nil)
        BY <1>2, <1>4, <3>1, FullIs
      <3>3. IsLane(q) /\ q.pc = "hash" /\ q.lvl = 2 /\ q.my = Nil /\ lane[k].pc \in {"check", "reserve"}
        BY <1>2, <3>2 DEF IsFields
      <3>4. Used = Used \/ CountUp(Used, 1, Used)
        OBVIOUS
      <3> QED
        BY <1>2, <1>4, <2>1, <3>2, <3>3, <3>4, FullWorks
    <2>2. CASE ~ (Used[1] >= KeySize[1])
      <3>1. GotoStep(lane, k, "reserve", lane') /\ "reserve" \in Pcs
        BY <1>1, <1>5, <2>2, PcsAre
      <3>2. PICK q : LaneStep(lane, k, q, lane') /\ IsFields(q, "reserve", lane[k].lvl, lane[k].at, lane[k].my, lane[k].tmp)
        BY <1>2, <3>1, GotoIs
      <3>3. IsLane(q) /\ q.pc = "reserve" /\ q.lvl = l /\ q.my = lane[k].my
        BY <1>3, <3>2, Zenon DEF IsFields
      <3> QED
        BY <1>2, <1>3, <3>2, <3>3, CheckWorks
    <2> QED
      BY <2>1, <2>2
  <1>18. Used' = Used /\ Keys' = Keys /\ Values' = Values /\ Heads' = Heads /\ Links' = Links /\ AreMaps(map)'
    BY <1>1, <1>2, Zenon DEF Used, Keys, Values, Heads, Links, UsedOf, KeysOf, ValuesOf, HeadsOf, LinksOf, AreMaps
  <1>20. Working(exec, ColsOf(row), Inserting, Row, Before, Entry, held, dirty', Used', Keys', Values', Heads', Links', lane')
    BY <1>1, <1>9, <1>18
  <1> QED
    BY <1>1, <1>2, <1>18, <1>20, LaneKeeps


LEMMA AccumulateKeeps ==
  ASSUME IInv, NEW k \in Cols, Accumulate(k)
  PROVE  IInv'
  <1>1. /\ At(k, "store") /\ Stays /\ dirty' = dirty
        /\ SetValue(map, lane[k].lvl, lane[k].at, lane[k].tmp + Val[Entry], map')
        /\ GotoStep(lane, k, "done", lane')
    BY DEF Accumulate, Goto, GotoStep, SetValue, Stays
  <1>2. /\ ph = "lanes" /\ lane[k].pc = "store" /\ TurnOf(exec, lane, k)
        /\ AreMaps(map) /\ LaneType(lane) /\ FieldsOK(Used, Keys, Values, Heads, Links)
        /\ Fixed(exec, ColsOf(row), Inserting, Row, Before, Entry, held)
        /\ Working(exec, ColsOf(row), Inserting, Row, Before, Entry, held, dirty, Used, Keys, Values, Heads, Links, lane)
    BY <1>1, TurnNow
  <1>3. PICK l \in Level : l = lane[k].lvl
    BY <1>1, TurnNow
  <1>6. SetValue(map, l, lane[k].at, lane[k].tmp + Val[Entry], map')
    BY <1>1, <1>3
  <1>7. PICK q : LaneStep(lane, k, q, lane') /\ IsFields(q, "done", lane[k].lvl, lane[k].at, lane[k].my, lane[k].tmp)
    <2>1. "done" \in Pcs /\ GotoStep(lane, k, "done", lane')
      BY <1>1, PcsAre
    <2> QED
      BY <1>2, <2>1, GotoIs
  <1>10. AreMaps(map') /\ SameUsed(map, map') /\ SameKeys(map, map') /\ SameHeads(map, map') /\ SameLinks(map, map')
         /\ WriteIn(ValuesOf(map), l, lane[k].at, lane[k].tmp + Val[Entry], ValuesOf(map'))
    BY <1>2, <1>6, ValueSet
  <1>18. AreMaps(map)' /\ Used' = Used /\ Keys' = Keys /\ Heads' = Heads /\ Links' = Links
    BY <1>10 DEF SameUsed, SameKeys, SameHeads, SameLinks, Used, Keys, Heads, Links
  <1>8. IsLane(q) /\ q.pc = "done" /\ q.lvl = l /\ q.my = lane[k].my
    BY <1>3, <1>7 DEF IsFields
  <1>11. WriteIn(Values, l, lane[k].at, lane[k].tmp + Val[Entry], Values')
    BY <1>10 DEF Values
  <1>9. Working(exec, ColsOf(row), Inserting, Row, Before, Entry, held, dirty, Used, Keys, Values', Heads, Links, lane')
    BY <1>2, <1>3, <1>7, <1>8, <1>11, AccumulateWorks
  <1>20. Working(exec, ColsOf(row), Inserting, Row, Before, Entry, held, dirty', Used', Keys', Values', Heads', Links', lane')
    BY <1>1, <1>9, <1>18
  <1> QED
    BY <1>1, <1>2, <1>18, <1>20, LaneKeeps

LEMMA ReserveKeeps ==
  ASSUME IInv, NEW k \in Cols, Reserve(k)
  PROVE  IInv'
  <1>1. /\ At(k, "reserve") /\ Stays /\ dirty' = dirty
        /\ SetUsed(map, lane[k].lvl, map')
        /\ IF map[lane[k].lvl].used >= KeySize[lane[k].lvl] THEN FullStep(lane, k, lane')
           ELSE ReadStep(lane, k, "my", map[lane[k].lvl].used, "write", lane')
    BY Zenon DEF Reserve, Read, ReadStep, Full, FullStep, SetUsed, Stays, M
  <1>2. /\ ph = "lanes" /\ lane[k].pc = "reserve" /\ TurnOf(exec, lane, k)
        /\ AreMaps(map) /\ LaneType(lane) /\ FieldsOK(Used, Keys, Values, Heads, Links)
        /\ Fixed(exec, ColsOf(row), Inserting, Row, Before, Entry, held)
        /\ Working(exec, ColsOf(row), Inserting, Row, Before, Entry, held, dirty, Used, Keys, Values, Heads, Links, lane)
    BY <1>1, TurnNow
  <1>3. PICK l \in Level : l = lane[k].lvl
    BY <1>1, TurnNow
  <1>6. SetUsed(map, l, map')
    BY <1>1, <1>3
  <1>10. AreMaps(map') /\ SameKeys(map, map') /\ SameValues(map, map') /\ SameHeads(map, map') /\ SameLinks(map, map')
         /\ CountUp(UsedOf(map), l, UsedOf(map'))
    BY <1>2, <1>6, UsedSet
  <1>18. AreMaps(map)' /\ Keys' = Keys /\ Values' = Values /\ Heads' = Heads /\ Links' = Links
    BY <1>10 DEF SameKeys, SameValues, SameHeads, SameLinks, Keys, Values, Heads, Links
  <1>11. CountUp(Used, l, Used')
    BY <1>10 DEF Used
  <1>12. map[lane[k].lvl].used = Used[l] /\ Used[l] \in Nat /\ KeySize[l] \in Nat
    BY <1>2, <1>3, FieldsNow, Sizes DEF FieldsOK
  <1>9. Working(exec, ColsOf(row), Inserting, Row, Before, Entry, held, dirty, Used', Keys, Values, Heads, Links, lane')
    <2>1. CASE Used[l] >= KeySize[l]
      <3>1. FullStep(lane, k, lane')
        BY <1>1, <1>3, <1>12, <2>1
      <3>2. lane[k].lvl = 1
        <4>1. CASE l = 2
          <5>1. Used[2] < KeySize[2]
            <6>1. lane[k].lvl = 2 /\ lane[k].pc \in {"check", "reserve"}
              BY <1>2, <1>3, <4>1
            <6> QED
              BY <1>2, <6>1, SecondHasRoom
          <5> QED
            BY <1>12, <2>1, <4>1, <5>1
        <4> QED
          BY <1>3, <4>1 DEF Level
      <3>3. PICK q : LaneStep(lane, k, q, lane') /\ IsFields(q, "hash", 2, Nil, Nil, Nil)
        BY <1>2, <3>1, <3>2, FullIs
      <3>4. IsLane(q) /\ q.pc = "hash" /\ q.lvl = 2 /\ q.my = Nil /\ lane[k].pc \in {"check", "reserve"}
        BY <1>2, <3>3 DEF IsFields
      <3>5. (Used' = Used \/ CountUp(Used, 1, Used')) /\ Used[1] >= KeySize[1]
        BY <1>3, <1>11, <2>1, <3>2
      <3> QED
        BY <1>2, <3>2, <3>3, <3>4, <3>5, FullWorks
    <2>2. CASE ~ (Used[l] >= KeySize[l])
      <3>1. Used[l] < KeySize[l]
        BY <1>12, <2>2
      <3>2. ReadStep(lane, k, "my", Used[l], "write", lane')
        BY <1>1, <1>3, <1>12, <2>2
      <3>3. "write" \in Pcs /\ Used[l] \in Slots
        BY <1>12, <3>1, Sizes, PcsAre DEF Slots, Level
      <3>4. PICK q : LaneStep(lane, k, q, lane') /\ IsFields(q, "write", lane[k].lvl, lane[k].at, Used[l], lane[k].tmp)
        BY <1>2, <3>2, <3>3, ReadMyIs
      <3>5. IsLane(q) /\ q.pc = "write" /\ q.lvl = l /\ q.my = Used[l]
        BY <1>3, <3>4 DEF IsFields
      <3> QED
        BY <1>2, <1>3, <1>11, <3>1, <3>4, <3>5, ReserveWorks
    <2> QED
      BY <2>1, <2>2
  <1>20. Working(exec, ColsOf(row), Inserting, Row, Before, Entry, held, dirty', Used', Keys', Values', Heads', Links', lane')
    BY <1>1, <1>9, <1>18
  <1> QED
    BY <1>1, <1>2, <1>18, <1>20, LaneKeeps

LEMMA WriteSlotKeeps ==
  ASSUME IInv, NEW k \in Cols, WriteSlot(k)
  PROVE  IInv'
  <1>1. /\ At(k, "write") /\ Stays /\ dirty' = dirty
        /\ SetKey(map, lane[k].lvl, lane[k].my, k, Val[Entry], map')
        /\ GotoStep(lane, k, IF exec = "independent" THEN "link" ELSE "exchange", lane')
    BY DEF WriteSlot, Goto, GotoStep, SetKey, Stays
  <1>2. /\ ph = "lanes" /\ lane[k].pc = "write" /\ TurnOf(exec, lane, k)
        /\ AreMaps(map) /\ LaneType(lane) /\ FieldsOK(Used, Keys, Values, Heads, Links)
        /\ Fixed(exec, ColsOf(row), Inserting, Row, Before, Entry, held)
        /\ Working(exec, ColsOf(row), Inserting, Row, Before, Entry, held, dirty, Used, Keys, Values, Heads, Links, lane)
    BY <1>1, TurnNow
  <1>3. PICK l \in Level : l = lane[k].lvl
    BY <1>1, TurnNow
  <1>6. SetKey(map, l, lane[k].my, k, Val[Entry], map')
    BY <1>1, <1>3
  <1>4. PICK pc : pc = IF exec = "independent" THEN "link" ELSE "exchange"
    OBVIOUS
  <1>5. pc \in Pcs /\ GotoStep(lane, k, pc, lane')
    BY <1>1, <1>4, PcsAre
  <1>7. PICK q : LaneStep(lane, k, q, lane') /\ IsFields(q, pc, lane[k].lvl, lane[k].at, lane[k].my, lane[k].tmp)
    BY <1>2, <1>5, GotoIs
  <1>10. AreMaps(map') /\ SameUsed(map, map') /\ SameHeads(map, map') /\ SameLinks(map, map')
         /\ WriteIn(KeysOf(map), l, lane[k].my, k, KeysOf(map'))
         /\ WriteIn(ValuesOf(map), l, lane[k].my, Val[Entry], ValuesOf(map'))
    BY <1>2, <1>6, KeySet
  <1>18. AreMaps(map)' /\ Used' = Used /\ Heads' = Heads /\ Links' = Links
    BY <1>10 DEF SameUsed, SameHeads, SameLinks, Used, Heads, Links
  <1>8. IsLane(q) /\ q.pc = (IF exec = "independent" THEN "link" ELSE "exchange") /\ q.lvl = l /\ q.my = lane[k].my
    BY <1>3, <1>4, <1>7 DEF IsFields
  <1>11. WriteIn(Keys, l, lane[k].my, k, Keys') /\ WriteIn(Values, l, lane[k].my, Val[Entry], Values')
    BY <1>10 DEF Keys, Values
  <1>9. Working(exec, ColsOf(row), Inserting, Row, Before, Entry, held, dirty, Used, Keys', Values', Heads, Links, lane')
    BY <1>2, <1>3, <1>7, <1>8, <1>11, WriteWorks
  <1>20. Working(exec, ColsOf(row), Inserting, Row, Before, Entry, held, dirty', Used', Keys', Values', Heads', Links', lane')
    BY <1>1, <1>9, <1>18
  <1> QED
    BY <1>1, <1>2, <1>18, <1>20, LaneKeeps

LEMMA LinkSlotKeeps ==
  ASSUME IInv, NEW k \in Cols, LinkSlot(k)
  PROVE  IInv'
  <1>1. /\ At(k, "link") /\ Stays /\ dirty' = dirty
        /\ SetLink(map, lane[k].lvl, lane[k].my, map[lane[k].lvl].begins[H(k)], map')
        /\ GotoStep(lane, k, "exchange", lane')
    BY DEF LinkSlot, Goto, GotoStep, SetLink, Stays, M
  <1>2. /\ ph = "lanes" /\ lane[k].pc = "link" /\ TurnOf(exec, lane, k)
        /\ AreMaps(map) /\ LaneType(lane) /\ FieldsOK(Used, Keys, Values, Heads, Links)
        /\ Fixed(exec, ColsOf(row), Inserting, Row, Before, Entry, held)
        /\ Working(exec, ColsOf(row), Inserting, Row, Before, Entry, held, dirty, Used, Keys, Values, Heads, Links, lane)
    BY <1>1, TurnNow
  <1>3. PICK l \in Level : l = lane[k].lvl
    BY <1>1, TurnNow
  <1>6. SetLink(map, l, lane[k].my, Heads[l][Hash(k, HashSize[l])], map')
    BY <1>1, <1>3, FieldsNow DEF H
  <1>7. PICK q : LaneStep(lane, k, q, lane') /\ IsFields(q, "exchange", lane[k].lvl, lane[k].at, lane[k].my, lane[k].tmp)
    <2>1. "exchange" \in Pcs /\ GotoStep(lane, k, "exchange", lane')
      BY <1>1, PcsAre
    <2> QED
      BY <1>2, <2>1, GotoIs
  <1>10. AreMaps(map') /\ SameUsed(map, map') /\ SameKeys(map, map') /\ SameValues(map, map') /\ SameHeads(map, map')
         /\ WriteIn(LinksOf(map), l, lane[k].my, Heads[l][Hash(k, HashSize[l])], LinksOf(map'))
    BY <1>2, <1>6, LinkSet
  <1>18. AreMaps(map)' /\ Used' = Used /\ Keys' = Keys /\ Values' = Values /\ Heads' = Heads
    BY <1>10 DEF SameUsed, SameKeys, SameValues, SameHeads, Used, Keys, Values, Heads
  <1>8. IsLane(q) /\ q.pc = "exchange" /\ q.lvl = l /\ q.my = lane[k].my
    BY <1>3, <1>7 DEF IsFields
  <1>11. WriteIn(Links, l, lane[k].my, Heads[l][Hash(k, HashSize[l])], Links')
    BY <1>10 DEF Links
  <1>9. Working(exec, ColsOf(row), Inserting, Row, Before, Entry, held, dirty, Used, Keys, Values, Heads, Links', lane')
    BY <1>2, <1>3, <1>7, <1>8, <1>11, LinkWorks
  <1>20. Working(exec, ColsOf(row), Inserting, Row, Before, Entry, held, dirty', Used', Keys', Values', Heads', Links', lane')
    BY <1>1, <1>9, <1>18
  <1> QED
    BY <1>1, <1>2, <1>18, <1>20, LaneKeeps

LEMMA ExchangeHeadKeeps ==
  ASSUME IInv, NEW k \in Cols, ExchangeHead(k)
  PROVE  IInv'
  <1>1. /\ At(k, "exchange") /\ Stays /\ dirty' = dirty
        /\ SetHead(map, lane[k].lvl, H(k), lane[k].my, map')
        /\ ReadStep(lane, k, "tmp", map[lane[k].lvl].begins[H(k)],
                    IF lane[k].lvl = 2 /\ map[lane[k].lvl].begins[H(k)] = Nil THEN "track" ELSE "next", lane')
    BY Zenon DEF ExchangeHead, Read, ReadStep, SetHead, Stays, M
  <1>2. /\ ph = "lanes" /\ lane[k].pc = "exchange" /\ TurnOf(exec, lane, k)
        /\ AreMaps(map) /\ LaneType(lane) /\ FieldsOK(Used, Keys, Values, Heads, Links)
        /\ Fixed(exec, ColsOf(row), Inserting, Row, Before, Entry, held)
        /\ Working(exec, ColsOf(row), Inserting, Row, Before, Entry, held, dirty, Used, Keys, Values, Heads, Links, lane)
    BY <1>1, TurnNow
  <1>3. PICK l \in Level : l = lane[k].lvl
    BY <1>1, TurnNow
  <1>4. PICK h, v, pc : /\ h = Hash(k, HashSize[l]) /\ v = Heads[l][h]
                       /\ pc = IF l = 2 /\ v = Nil THEN "track" ELSE "next"
    OBVIOUS
  <1>6. SetHead(map, l, h, lane[k].my, map')
    BY <1>1, <1>3, <1>4 DEF H
  <1>5. /\ v \in Int /\ pc \in Pcs
    <2>1. Hash(k, HashSize[l]) \in 0 .. HashSize[l] - 1 /\ Heads[l] \in [0 .. HashSize[l] - 1 -> SlotsOf(l) \union {Nil}]
      BY <1>2, HashIs DEF FieldsOK
    <2>2. v \in SlotsOf(l) \union {Nil}
      BY <1>4, <2>1
    <2> QED
      BY <1>4, <2>2, Sizes, PcsAre
  <1>12. ReadStep(lane, k, "tmp", v, pc, lane')
    BY <1>1, <1>3, <1>4, FieldsNow DEF H
  <1>7. PICK q : LaneStep(lane, k, q, lane') /\ IsFields(q, pc, lane[k].lvl, lane[k].at, lane[k].my, v)
    BY <1>2, <1>5, <1>12, ReadTmpIs
  <1>10. AreMaps(map') /\ SameUsed(map, map') /\ SameKeys(map, map') /\ SameValues(map, map') /\ SameLinks(map, map')
         /\ WriteIn(HeadsOf(map), l, h, lane[k].my, HeadsOf(map'))
    BY <1>2, <1>6, HeadSet
  <1>18. AreMaps(map)' /\ Used' = Used /\ Keys' = Keys /\ Values' = Values /\ Links' = Links
    BY <1>10 DEF SameUsed, SameKeys, SameValues, SameLinks, Used, Keys, Values, Links
  <1>8. /\ IsLane(q) /\ q.pc = (IF l = 2 /\ Heads[l][h] = Nil THEN "track" ELSE "next")
        /\ q.lvl = l /\ q.my = lane[k].my /\ q.tmp = Heads[l][h]
    BY <1>3, <1>4, <1>7 DEF IsFields
  <1>11. WriteIn(Heads, l, h, lane[k].my, Heads')
    BY <1>10 DEF Heads
  <1>9. Working(exec, ColsOf(row), Inserting, Row, Before, Entry, held, dirty, Used, Keys, Values, Heads', Links, lane')
    BY <1>2, <1>3, <1>4, <1>7, <1>8, <1>11, ExchangeWorks
  <1>20. Working(exec, ColsOf(row), Inserting, Row, Before, Entry, held, dirty', Used', Keys', Values', Heads', Links', lane')
    BY <1>1, <1>9, <1>18
  <1> QED
    BY <1>1, <1>2, <1>18, <1>20, LaneKeeps

LEMMA SetNextKeeps ==
  ASSUME IInv, NEW k \in Cols, SetNext(k)
  PROVE  IInv'
  <1>1. /\ At(k, "next") /\ Stays /\ dirty' = dirty
        /\ SetLink(map, lane[k].lvl, lane[k].my, lane[k].tmp, map')
        /\ GotoStep(lane, k, "done", lane')
    BY DEF SetNext, Goto, GotoStep, SetLink, Stays
  <1>2. /\ ph = "lanes" /\ lane[k].pc = "next" /\ TurnOf(exec, lane, k)
        /\ AreMaps(map) /\ LaneType(lane) /\ FieldsOK(Used, Keys, Values, Heads, Links)
        /\ Fixed(exec, ColsOf(row), Inserting, Row, Before, Entry, held)
        /\ Working(exec, ColsOf(row), Inserting, Row, Before, Entry, held, dirty, Used, Keys, Values, Heads, Links, lane)
    BY <1>1, TurnNow
  <1>3. PICK l \in Level : l = lane[k].lvl
    BY <1>1, TurnNow
  <1>6. SetLink(map, l, lane[k].my, lane[k].tmp, map')
    BY <1>1, <1>3
  <1>7. PICK q : LaneStep(lane, k, q, lane') /\ IsFields(q, "done", lane[k].lvl, lane[k].at, lane[k].my, lane[k].tmp)
    <2>1. "done" \in Pcs /\ GotoStep(lane, k, "done", lane')
      BY <1>1, PcsAre
    <2> QED
      BY <1>2, <2>1, GotoIs
  <1>10. AreMaps(map') /\ SameUsed(map, map') /\ SameKeys(map, map') /\ SameValues(map, map') /\ SameHeads(map, map')
         /\ WriteIn(LinksOf(map), l, lane[k].my, lane[k].tmp, LinksOf(map'))
    BY <1>2, <1>6, LinkSet
  <1>18. AreMaps(map)' /\ Used' = Used /\ Keys' = Keys /\ Values' = Values /\ Heads' = Heads
    BY <1>10 DEF SameUsed, SameKeys, SameValues, SameHeads, Used, Keys, Values, Heads
  <1>8. IsLane(q) /\ q.pc = "done" /\ q.lvl = l /\ q.my = lane[k].my
    BY <1>3, <1>7 DEF IsFields
  <1>11. WriteIn(Links, l, lane[k].my, lane[k].tmp, Links')
    BY <1>10 DEF Links
  <1>9. Working(exec, ColsOf(row), Inserting, Row, Before, Entry, held, dirty, Used, Keys, Values, Heads, Links', lane')
    BY <1>2, <1>3, <1>7, <1>8, <1>11, SetNextWorks
  <1>20. Working(exec, ColsOf(row), Inserting, Row, Before, Entry, held, dirty', Used', Keys', Values', Heads', Links', lane')
    BY <1>1, <1>9, <1>18
  <1> QED
    BY <1>1, <1>2, <1>18, <1>20, LaneKeeps

LEMMA TrackHashKeeps ==
  ASSUME IInv, NEW k \in Cols, TrackHash(k)
  PROVE  IInv'
  <1>1. /\ At(k, "track") /\ Stays /\ map' = map /\ dirty' = Append(dirty, H(k))
        /\ GotoStep(lane, k, "next", lane')
    BY DEF TrackHash, Goto, GotoStep, Stays
  <1>2. /\ ph = "lanes" /\ lane[k].pc = "track" /\ TurnOf(exec, lane, k)
        /\ AreMaps(map) /\ LaneType(lane) /\ FieldsOK(Used, Keys, Values, Heads, Links)
        /\ Fixed(exec, ColsOf(row), Inserting, Row, Before, Entry, held)
        /\ Working(exec, ColsOf(row), Inserting, Row, Before, Entry, held, dirty, Used, Keys, Values, Heads, Links, lane)
    BY <1>1, TurnNow
  <1>3. PICK l \in Level : l = lane[k].lvl
    BY <1>1, TurnNow
  <1>7. PICK q : LaneStep(lane, k, q, lane') /\ IsFields(q, "next", lane[k].lvl, lane[k].at, lane[k].my, lane[k].tmp)
    <2>1. "next" \in Pcs /\ GotoStep(lane, k, "next", lane')
      BY <1>1, PcsAre
    <2> QED
      BY <1>2, <2>1, GotoIs
  <1>8. IsLane(q) /\ q.pc = "next" /\ q.lvl = l /\ q.my = lane[k].my /\ q.tmp = lane[k].tmp
    BY <1>3, <1>7 DEF IsFields
  <1>11. dirty' = Append(dirty, Hash(k, HashSize[l]))
    BY <1>1, <1>3 DEF H
  <1>9. Working(exec, ColsOf(row), Inserting, Row, Before, Entry, held, dirty', Used, Keys, Values, Heads, Links, lane')
    BY <1>2, <1>3, <1>7, <1>8, <1>11, TrackWorks, Zenon
  <1>18. Used' = Used /\ Keys' = Keys /\ Values' = Values /\ Heads' = Heads /\ Links' = Links /\ AreMaps(map)'
    BY <1>1, <1>2, Zenon DEF Used, Keys, Values, Heads, Links, UsedOf, KeysOf, ValuesOf, HeadsOf, LinksOf, AreMaps
  <1>20. Working(exec, ColsOf(row), Inserting, Row, Before, Entry, held, dirty', Used', Keys', Values', Heads', Links', lane')
    BY <1>1, <1>9, <1>18
  <1> QED
    BY <1>1, <1>2, <1>18, <1>20, LaneKeeps


\* the second map becomes one of these fields
SetSecond(m, z, m2) == m2 = [m EXCEPT ![2] = z]

LEMMA SecondSet ==
  ASSUME NEW m, AreMaps(m), NEW b, NEW n, NEW c, NEW v, NEW u, NEW z, z = Fields(b, n, c, v, u), NEW m2, SetSecond(m, z, m2)
  PROVE  /\ AreMaps(m2) /\ m2[1] = m[1]
         /\ m2[2].begins = b /\ m2[2].nexts = n /\ m2[2].keys = c /\ m2[2].values = v /\ m2[2].used = u
  <1>1. /\ DOMAIN m = Level /\ m = [w \in Level |-> m[w]]
        /\ \A w \in Level : m[w] = Fields(m[w].begins, m[w].nexts, m[w].keys, m[w].values, m[w].used)
    BY FieldsAre
  <1>2. m2 = [w \in Level |-> m2[w]] /\ m2[2] = z /\ m2[1] = m[1]
    <2>1. 2 \in Level /\ 1 \in Level /\ 1 # 2
      BY DEF Level
    <2>2. \A l \in Level : m2 = [m EXCEPT ![l] = z] => m2 = [w \in Level |-> m2[w]] /\ m2[l] = z /\ \A w \in Level : w # l => m2[w] = m[w]
      BY <1>1
    <2> QED
      BY <2>1, <2>2 DEF SetSecond
  <1>3. \A w \in Level : w = 1 \/ w = 2
    BY DEF Level
  <1>4. AreMaps(m2)
    <2>1. \A w \in Level : \E f, g, h, a, e : m2[w] = Fields(f, g, h, a, e)
      BY <1>1, <1>2, <1>3
    <2> QED
      BY <1>2, <2>1, FieldsMake
  <1>5. z.begins = b /\ z.nexts = n /\ z.keys = c /\ z.values = v /\ z.used = u
    BY DEF Fields
  <1> QED
    BY <1>2, <1>4, <1>5

\* where a sequential insertion finds its key
Matches(m, k, h) == {i \in Ahead(m, m.begins[h]) : m.keys[i] = k}

\* the fields of the map that it leaves
Finds(m, k, h, a, v, w, v2) == Matches(m, k, h) = {a} /\ v2 = [v EXCEPT ![a] = v[a] + w]
Takes(m, k, w, h, b, n, c, v, u, b2, n2, c2, v2) ==
  /\ Matches(m, k, h) = {}
  /\ b2 = [b EXCEPT ![h] = u] /\ n2 = [n EXCEPT ![u] = b[h]] /\ c2 = [c EXCEPT ![u] = k] /\ v2 = [v EXCEPT ![u] = w]

LEMMA InsertFound ==
  ASSUME NEW b, NEW n, NEW c, NEW v, NEW u, NEW m, m = Fields(b, n, c, v, u), NEW k, NEW w, NEW size,
         NEW a, NEW v2, Finds(m, k, Hash(k, size), a, v, w, v2), NEW S, v \in [S -> Int]
  PROVE  SequentialInsert(m, k, w, size) = Fields(b, n, c, v2, u)
  <1>0. PICK h : h = Hash(k, size)
    OBVIOUS
  <1>1. {i \in Ahead(m, m.begins[h]) : m.keys[i] = k} = {a}
    BY <1>0 DEF Finds, Matches
  <1>2. SequentialInsert(m, k, w, size) = [m EXCEPT !.values = [i \in DOMAIN @ |-> IF i \in {a} THEN @[i] + w ELSE @[i]]]
    BY <1>0, <1>1 DEF SequentialInsert
  <1>3. m.values = v
    BY DEF Fields
  <1>4. PICK f : f = [i \in DOMAIN v |-> IF i \in {a} THEN v[i] + w ELSE v[i]]
    OBVIOUS
  <1>5. f = v2
    BY <1>4 DEF Finds
  <1>6. SequentialInsert(m, k, w, size) = [m EXCEPT !.values = f]
    BY <1>2, <1>3, <1>4
  <1>7. [m EXCEPT !.values = f] = Fields(b, n, c, f, u)
    BY DEF Fields
  <1> QED
    BY <1>5, <1>6, <1>7

LEMMA InsertNew ==
  ASSUME NEW b, NEW n, NEW c, NEW v, NEW u, NEW m, m = Fields(b, n, c, v, u), NEW k, NEW w, NEW size,
         NEW b2, NEW n2, NEW c2, NEW v2, Takes(m, k, w, Hash(k, size), b, n, c, v, u, b2, n2, c2, v2)
  PROVE  SequentialInsert(m, k, w, size) = Fields(b2, n2, c2, v2, u + 1)
  <1>0. PICK h : h = Hash(k, size)
    OBVIOUS
  <1>1. {i \in Ahead(m, m.begins[h]) : m.keys[i] = k} = {}
    BY <1>0 DEF Takes, Matches
  <1>2. m.begins = b /\ m.nexts = n /\ m.keys = c /\ m.values = v /\ m.used = u
    BY DEF Fields
  <1>3. SequentialInsert(m, k, w, size) = [m EXCEPT !.used = m.used + 1,
                                                    !.nexts[m.used] = m.begins[h],
                                                    !.begins[h] = m.used,
                                                    !.keys[m.used] = k,
                                                    !.values[m.used] = w]
    BY <1>0, <1>1 DEF SequentialInsert
  <1>4. SequentialInsert(m, k, w, size) = [m EXCEPT !.used = u + 1, !.nexts[u] = b[h], !.begins[h] = u,
                                                    !.keys[u] = k, !.values[u] = w]
    BY <1>2, <1>3
  <1>5. [m EXCEPT !.used = u + 1, !.nexts[u] = b[h], !.begins[h] = u, !.keys[u] = k, !.values[u] = w]
          = [[[[[m EXCEPT !.used = u + 1] EXCEPT !.nexts[u] = b[h]] EXCEPT !.begins[h] = u] EXCEPT !.keys[u] = k] EXCEPT !.values[u] = w]
    OBVIOUS
  <1>6. PICK m1 : m1 = [m EXCEPT !.used = u + 1]
    OBVIOUS
  <1>7. PICK m2 : m2 = [m1 EXCEPT !.nexts[u] = b[h]]
    OBVIOUS
  <1>8. PICK m3 : m3 = [m2 EXCEPT !.begins[h] = u]
    OBVIOUS
  <1>9. PICK m4 : m4 = [m3 EXCEPT !.keys[u] = k]
    OBVIOUS
  <1>10. SequentialInsert(m, k, w, size) = [m4 EXCEPT !.values[u] = w]
    BY <1>4, <1>5, <1>6, <1>7, <1>8, <1>9
  <1>11. m1 = Fields(b, n, c, v, u + 1)
    BY <1>6 DEF Fields
  <1>12. m2 = Fields(b, n2, c, v, u + 1)
    BY <1>0, <1>7, <1>11 DEF Fields, Takes
  <1>13. m3 = Fields(b2, n2, c, v, u + 1)
    BY <1>0, <1>8, <1>12 DEF Fields, Takes
  <1>14. m4 = Fields(b2, n2, c2, v, u + 1)
    BY <1>0, <1>9, <1>13 DEF Fields, Takes
  <1>15. [m4 EXCEPT !.values[u] = w] = Fields(b2, n2, c2, v2, u + 1)
    BY <1>0, <1>14, SMTT(30) DEF Fields, Takes
  <1> QED
    BY <1>10, <1>15

\* the new second map, in terms of the fields of both
LEMMA FoundSet ==
  ASSUME NEW m, AreMaps(m), NEW k, NEW h, h = Hash(k, HashSize[2]), NEW a, Matches(m[2], k, h) = {a}, NEW w,
         ValuesOf(m)[2] \in [SlotsOf(2) -> Int],
         NEW m2, SetSecond(m, SequentialInsert(m[2], k, w, HashSize[2]), m2)
  PROVE  /\ AreMaps(m2) /\ SameHeads(m, m2) /\ SameLinks(m, m2) /\ SameKeys(m, m2) /\ SameUsed(m, m2)
         /\ WriteIn(ValuesOf(m), 2, a, ValuesOf(m)[2][a] + w, ValuesOf(m2))
  <1>1. PICK b, n, c, v, u : /\ m[2] = Fields(b, n, c, v, u)
                             /\ b = m[2].begins /\ n = m[2].nexts /\ c = m[2].keys /\ v = m[2].values /\ u = m[2].used
    BY FieldsAre DEF Level
  <1>2. ValuesOf(m)[2] = v
    BY <1>1, Zenon DEF ValuesOf, Level
  <1>3. v \in [SlotsOf(2) -> Int]
    BY <1>2
  <1>4. PICK z : z = SequentialInsert(m[2], k, w, HashSize[2])
    OBVIOUS
  <1>5. PICK v2 : v2 = [v EXCEPT ![a] = v[a] + w]
    OBVIOUS
  <1>6. z = Fields(b, n, c, v2, u)
    <2>1. PICK y : y = m[2]
      OBVIOUS
    <2>2. y = Fields(b, n, c, v, u)
      BY <1>1, <2>1, Zenon
    <2>3. Finds(y, k, Hash(k, HashSize[2]), a, v, w, v2)
      BY <1>5, <2>1 DEF Finds
    <2>4. SequentialInsert(y, k, w, HashSize[2]) = Fields(b, n, c, v2, u)
      BY <1>3, <2>2, <2>3, InsertFound
    <2> QED
      BY <1>4, <2>1, <2>4
  <1>7. SetSecond(m, z, m2)
    BY <1>4
  <1>8. /\ AreMaps(m2) /\ m2[1] = m[1]
        /\ m2[2].begins = b /\ m2[2].nexts = n /\ m2[2].keys = c /\ m2[2].values = v2 /\ m2[2].used = u
    BY <1>6, <1>7, SecondSet
  <1>9. \A l \in Level : l = 1 \/ l = 2
    BY Zenon DEF Level
  <1>10. \A l \in Level : m2[l].begins = m[l].begins /\ m2[l].nexts = m[l].nexts /\ m2[l].keys = m[l].keys /\ m2[l].used = m[l].used
    BY <1>1, <1>8, <1>9, Zenon
  <1>11. SameHeads(m, m2) /\ SameLinks(m, m2) /\ SameKeys(m, m2) /\ SameUsed(m, m2)
    BY <1>10 DEF SameHeads, SameLinks, SameKeys, SameUsed, HeadsOf, LinksOf, KeysOf, UsedOf
  <1>12. WriteIn(ValuesOf(m), 2, a, ValuesOf(m)[2][a] + w, ValuesOf(m2))
    <2>1. ValuesOf(m2)[2] = v2 /\ ValuesOf(m2)[1] = ValuesOf(m)[1]
      BY <1>8 DEF ValuesOf, Level
    <2>2. \A l \in Level : ValuesOf(m2)[l] = IF l = 2 THEN [ValuesOf(m)[l] EXCEPT ![a] = ValuesOf(m)[2][a] + w] ELSE ValuesOf(m)[l]
      BY <1>2, <1>5, <1>9, <2>1
    <2> QED
      BY <2>2 DEF WriteIn
  <1> QED
    BY <1>8, <1>11, <1>12

LEMMA WriteSecond ==
  ASSUME NEW f, NEW s, NEW v, NEW f2, f2[1] = f[1], NEW g, g = [f[2] EXCEPT ![s] = v], f2[2] = g
  PROVE  WriteIn(f, 2, s, v, f2)
  BY DEF WriteIn, Level

LEMMA NewSet ==
  ASSUME NEW m, AreMaps(m), NEW k, NEW h, h = Hash(k, HashSize[2]), Matches(m[2], k, h) = {}, NEW w,
         NEW s, s = UsedOf(m)[2], NEW m2, SetSecond(m, SequentialInsert(m[2], k, w, HashSize[2]), m2)
  PROVE  /\ AreMaps(m2) /\ CountUp(UsedOf(m), 2, UsedOf(m2))
         /\ WriteIn(KeysOf(m), 2, s, k, KeysOf(m2)) /\ WriteIn(ValuesOf(m), 2, s, w, ValuesOf(m2))
         /\ WriteIn(HeadsOf(m), 2, h, s, HeadsOf(m2)) /\ WriteIn(LinksOf(m), 2, s, HeadsOf(m)[2][h], LinksOf(m2))
  <1>1. PICK b, n, c, v, u : /\ m[2] = Fields(b, n, c, v, u)
                             /\ b = m[2].begins /\ n = m[2].nexts /\ c = m[2].keys /\ v = m[2].values /\ u = m[2].used
    BY FieldsAre, SMTT(30) DEF Level
  <1>2. ValuesOf(m)[2] = v /\ UsedOf(m)[2] = u /\ KeysOf(m)[2] = c /\ HeadsOf(m)[2] = b /\ LinksOf(m)[2] = n
    BY <1>1, Zenon DEF ValuesOf, UsedOf, KeysOf, HeadsOf, LinksOf, Level
  <1>4. PICK z : z = SequentialInsert(m[2], k, w, HashSize[2])
    OBVIOUS
  <1>5. PICK n2, b2, c2, v2 : n2 = [n EXCEPT ![u] = b[h]] /\ b2 = [b EXCEPT ![h] = u] /\ c2 = [c EXCEPT ![u] = k] /\ v2 = [v EXCEPT ![u] = w]
    BY Zenon
  <1>6. z = Fields(b2, n2, c2, v2, u + 1)
    <2>1. PICK y : y = m[2]
      OBVIOUS
    <2>2. y = Fields(b, n, c, v, u)
      BY <1>1, <2>1, Zenon
    <2>3. Takes(y, k, w, Hash(k, HashSize[2]), b, n, c, v, u, b2, n2, c2, v2)
      BY <1>5, <2>1 DEF Takes
    <2>4. SequentialInsert(y, k, w, HashSize[2]) = Fields(b2, n2, c2, v2, u + 1)
      BY <2>2, <2>3, InsertNew
    <2> QED
      BY <1>4, <2>1, <2>4
  <1>7. SetSecond(m, z, m2)
    BY <1>4
  <1>8. /\ AreMaps(m2) /\ m2[1] = m[1]
        /\ m2[2].begins = b2 /\ m2[2].nexts = n2 /\ m2[2].keys = c2 /\ m2[2].values = v2 /\ m2[2].used = u + 1
    BY <1>6, <1>7, SecondSet
  <1>9. /\ ValuesOf(m2)[2] = v2 /\ UsedOf(m2)[2] = u + 1 /\ KeysOf(m2)[2] = c2 /\ HeadsOf(m2)[2] = b2 /\ LinksOf(m2)[2] = n2
        /\ ValuesOf(m2)[1] = ValuesOf(m)[1] /\ UsedOf(m2)[1] = UsedOf(m)[1] /\ KeysOf(m2)[1] = KeysOf(m)[1]
        /\ HeadsOf(m2)[1] = HeadsOf(m)[1] /\ LinksOf(m2)[1] = LinksOf(m)[1]
    BY <1>8 DEF ValuesOf, UsedOf, KeysOf, HeadsOf, LinksOf, Level
  <1>10. CountUp(UsedOf(m), 2, UsedOf(m2))
    <2>1. UsedOf(m) = [l \in Level |-> UsedOf(m)[l]] /\ UsedOf(m2) = [l \in Level |-> UsedOf(m2)[l]]
      BY DEF UsedOf
    <2>2. PICK f, g : f = UsedOf(m) /\ g = UsedOf(m2)
      OBVIOUS
    <2>3. f = [l \in Level |-> f[l]] /\ g = [l \in Level |-> g[l]] /\ g[2] = f[2] + 1 /\ g[1] = f[1]
      BY <1>2, <1>9, <2>1, <2>2
    <2>4. g = [f EXCEPT ![2] = f[2] + 1]
      BY <2>3 DEF Level
    <2> QED
      BY <2>2, <2>4 DEF CountUp
  <1>11. WriteIn(KeysOf(m), 2, s, k, KeysOf(m2)) /\ WriteIn(ValuesOf(m), 2, s, w, ValuesOf(m2))
    BY <1>2, <1>5, <1>9, WriteSecond
  <1>12. WriteIn(HeadsOf(m), 2, h, s, HeadsOf(m2)) /\ WriteIn(LinksOf(m), 2, s, HeadsOf(m)[2][h], LinksOf(m2))
    BY <1>2, <1>5, <1>9, WriteSecond
  <1> QED
    BY <1>8, <1>10, <1>11, <1>12

LEMMA InsertKeeps ==
  ASSUME IInv, NEW k \in Cols, InsertSequentially(k)
  PROVE  IInv'
  <1>1. /\ exec = "multicore" /\ ph = "lanes" /\ lane[k].pc = "hash" /\ Stays
        /\ SetSecond(map, SequentialInsert(map[2], k, Val[Entry], HashSize[2]), map')
        /\ dirty' = IF map'[2].used > map[2].used /\ map[2].begins[Hash(k, HashSize[2])] = Nil
                    THEN Append(dirty, Hash(k, HashSize[2])) ELSE dirty
        /\ GotoStep(lane, k, "done", lane')
    BY DEF InsertSequentially, Goto, GotoStep, SetSecond, Stays
  <1>2. AreMaps(map) /\ LaneType(lane) /\ FieldsOK(Used, Keys, Values, Heads, Links)
    BY DEF IInv, Shape
  <1>3. Fixed("multicore", ColsOf(row), Inserting, Row, Before, Entry, held)
    BY <1>1, FixedNow
  <1>4. Working("multicore", ColsOf(row), Inserting, Row, Before, Entry, held, dirty, Used, Keys, Values, Heads, Links, lane)
    BY <1>1 DEF IInv
  <1>5. held = TRUE
    BY <1>1 DEF IInv, Shape, Phases, Multi
  <1>6. PICK q : LaneStep(lane, k, q, lane') /\ IsFields(q, "done", lane[k].lvl, lane[k].at, lane[k].my, lane[k].tmp)
    <2>1. "done" \in Pcs
      BY PcsAre
    <2> QED
      BY <1>1, <1>2, <2>1, GotoIs
  <1>7. IsLane(q) /\ q.lvl = lane[k].lvl /\ q.my = lane[k].my /\ q.pc = "done"
    BY <1>6 DEF IsFields
  <1>8. /\ Used[2] = map[2].used /\ Keys[2] = map[2].keys /\ Values[2] = map[2].values
        /\ Heads[2] = map[2].begins /\ Links[2] = map[2].nexts
    BY FieldsNow DEF Level
  <1>9. PICK h : h = Hash(k, HashSize[2])
    OBVIOUS
  <1>10. \A i : i \in Matches(map[2], k, h) <=> i \in Taken(Used, 2) /\ Keys[2][i] = k
    <2>1. LinksAre(map[2], Links[2])
      BY <1>8 DEF LinksAre
    <2>2. \A i : i \in Ahead(map[2], Heads[2][h]) /\ Keys[2][i] = k <=> i \in Taken(Used, 2) /\ Keys[2][i] = k
      BY <1>4, <1>9, <2>1, HostAt
    <2> QED
      BY <1>8, <2>2 DEF Matches
  <1>11. CASE Matches(map[2], k, h) = {}
    <2>1. PICK s : s = Used[2]
      OBVIOUS
    <2>2. AreMaps(map')
          /\ CountUp(UsedOf(map), 2, UsedOf(map'))
          /\ WriteIn(KeysOf(map), 2, s, k, KeysOf(map')) /\ WriteIn(ValuesOf(map), 2, s, Val[Entry], ValuesOf(map'))
          /\ WriteIn(HeadsOf(map), 2, h, s, HeadsOf(map')) /\ WriteIn(LinksOf(map), 2, s, HeadsOf(map)[2][h], LinksOf(map'))
      <3>1. s = UsedOf(map)[2]
        BY <2>1 DEF Used
      <3> QED
        BY <1>1, <1>2, <1>9, <1>11, <3>1, NewSet
    <2>3. /\ CountUp(Used, 2, Used')
          /\ WriteIn(Keys, 2, s, k, Keys') /\ WriteIn(Values, 2, s, Val[Entry], Values')
          /\ WriteIn(Heads, 2, h, s, Heads') /\ WriteIn(Links, 2, s, Heads[2][h], Links')
      BY <2>2 DEF Used, Keys, Values, Heads, Links
    <2>4. \A p \in Taken(Used, 2) : Keys[2][p] # k
      BY <1>10, <1>11
    <2>5. dirty' = IF Heads[2][h] = Nil THEN Append(dirty, h) ELSE dirty
      <3>1. map'[2].used > map[2].used
        <4>1. map'[2].used = UsedOf(map')[2] /\ map[2].used = UsedOf(map)[2]
          BY DEF UsedOf, Level
        <4>2. Used \in [Level -> Nat] /\ 2 \in Level
          BY <1>2 DEF FieldsOK, Level
        <4>3. Used'[2] = Used[2] + 1
          BY <2>3, <4>2 DEF CountUp
        <4> QED
          BY <4>1, <4>2, <4>3 DEF Used
      <3> QED
        BY <1>1, <1>8, <1>9, <3>1
    <2>6. HostInserts(Used, Keys, Values, Heads, Links, dirty, Entry, k, s, h, Used', Keys', Values', Heads', Links', dirty')
      BY <1>9, <2>1, <2>3, <2>4, <2>5 DEF HostInserts
    <2>7. HostDone(lane, k, q, lane')
      BY <1>1, <1>6, <1>7 DEF HostDone
    <2>8. Working("multicore", ColsOf(row), Inserting, Row, Before, Entry, held, dirty', Used', Keys', Values', Heads', Links', lane')
      BY <1>3, <1>4, <1>5, <2>6, <2>7, HostNewWorks
    <2>9. AreMaps(map)'
      BY <2>2
    <2> QED
      BY <1>1, <2>8, <2>9, LaneKeeps
  <1>12. CASE Matches(map[2], k, h) # {}
    <2>1. PICK a \in Taken(Used, 2) : Keys[2][a] = k /\ a \in Matches(map[2], k, h)
      BY <1>10, <1>12
    <2>2. Matches(map[2], k, h) = {a}
      <3>1. Core("multicore", ColsOf(row), Inserting, Row, Before, Entry, held, Used, Keys, Values, lane)
        BY <1>4 DEF Working
      <3>2. HostLanes(lane, Inserting)
        BY <3>1, HostLanesAre
      <3>3. 2 \in Level /\ Filled(Used, lane, 2) = Taken(Used, 2)
        BY <3>2, HostSlots DEF Level
      <3>4. \A s, p \in Taken(Used, 2) : Keys[2][s] = Keys[2][p] => s = p
        BY <3>1, <3>3 DEF Core, KeysOK
      <3>5. \A i : i \in Matches(map[2], k, h) => i = a
        BY <1>10, <2>1, <3>4
      <3> QED
        BY <2>1, <3>5
    <2>3. AreMaps(map') /\ SameHeads(map, map') /\ SameLinks(map, map') /\ SameKeys(map, map') /\ SameUsed(map, map')
          /\ WriteIn(ValuesOf(map), 2, a, ValuesOf(map)[2][a] + Val[Entry], ValuesOf(map'))
      <3>1. ValuesOf(map)[2] \in [SlotsOf(2) -> Int]
        BY <1>2 DEF FieldsOK, Values, Level
      <3> QED
        BY <1>1, <1>2, <1>9, <2>2, <3>1, FoundSet
    <2>4. AreMaps(map)' /\ Used' = Used /\ Keys' = Keys /\ Heads' = Heads /\ Links' = Links
      BY <2>3 DEF SameUsed, SameKeys, SameHeads, SameLinks, Used, Keys, Heads, Links
    <2>5. WriteIn(Values, 2, a, Values[2][a] + Val[Entry], Values')
      BY <2>3 DEF Values
    <2>6. dirty' = dirty
      <3>1. map'[2].used = UsedOf(map')[2] /\ map[2].used = UsedOf(map)[2]
        BY DEF UsedOf, Level
      <3>2. map'[2].used = map[2].used
        BY <2>3, <3>1 DEF SameUsed
      <3>3. map[2].used \in Nat
        BY <1>2, <1>8 DEF FieldsOK, Level
      <3> QED
        BY <1>1, <3>2, <3>3
    <2>7. Working("multicore", ColsOf(row), Inserting, Row, Before, Entry, held, dirty, Used, Keys, Values', Heads, Links, lane')
      BY <1>1, <1>3, <1>4, <1>6, <1>7, <2>1, <2>5, HostFoundWorks
    <2>8. Working(exec, ColsOf(row), Inserting, Row, Before, Entry, held, dirty', Used', Keys', Values', Heads', Links', lane')
      BY <1>1, <2>4, <2>6, <2>7
    <2> QED
      BY <1>1, <2>4, <2>8, LaneKeeps
  <1> QED
    BY <1>11, <1>12

-----------------------------------------------------------------------------
(***************************************************************************)
(* The steps of the thread.  A field of one map is assigned.               *)
(***************************************************************************)
ToHeads(m, l, y, m2) == m2 = [m EXCEPT ![l].begins = y]
ToKeys(m, l, y, m2) == m2 = [m EXCEPT ![l].keys = y]
ToValues(m, l, y, m2) == m2 = [m EXCEPT ![l].values = y]
ToUsed(m, l, y, m2) == m2 = [m EXCEPT ![l].used = y]
ToMap(m, l, y, m2) == m2 = [m EXCEPT ![l] = y]
OneIs(m, l, z, m2) == AreMaps(m2) /\ m2[l] = z /\ \A w \in Level : w # l => m2[w] = m[w]

LEMMA OneSet ==
  ASSUME NEW m, AreMaps(m), NEW l \in Level, NEW b, NEW n, NEW c, NEW v, NEW u, NEW z, z = Fields(b, n, c, v, u),
         NEW m2, ToMap(m, l, z, m2)
  PROVE  OneIs(m, l, z, m2)
  <1>1. /\ DOMAIN m = Level /\ m = [w \in Level |-> m[w]]
        /\ \A w \in Level : m[w] = Fields(m[w].begins, m[w].nexts, m[w].keys, m[w].values, m[w].used)
    BY FieldsAre
  <1>2. m2 = [w \in Level |-> m2[w]] /\ m2[l] = z /\ \A w \in Level : w # l => m2[w] = m[w]
    BY <1>1 DEF ToMap
  <1>3. AreMaps(m2)
    <2>1. \A w \in Level : \E f, g, h, a, o : m2[w] = Fields(f, g, h, a, o)
      <3> TAKE w \in Level
      <3>1. CASE w = l
        BY <1>2, <3>1
      <3>2. CASE w # l
        BY <1>1, <1>2, <3>2
      <3> QED
        BY <3>1, <3>2
    <2>2. m2 = [w \in Level |-> m2[w]]
      BY <1>2
    <2> QED
      BY <2>1, <2>2, FieldsMake
  <1> QED
    BY <1>2, <1>3 DEF OneIs

LEMMA AssignIs ==
  ASSUME NEW m, AreMaps(m), NEW l \in Level, NEW b, NEW n, NEW c, NEW v, NEW u, m[l] = Fields(b, n, c, v, u), NEW y, NEW m2
  PROVE  /\ ToHeads(m, l, y, m2) => OneIs(m, l, Fields(y, n, c, v, u), m2)
         /\ ToKeys(m, l, y, m2) => OneIs(m, l, Fields(b, n, y, v, u), m2)
         /\ ToValues(m, l, y, m2) => OneIs(m, l, Fields(b, n, c, y, u), m2)
         /\ ToUsed(m, l, y, m2) => OneIs(m, l, Fields(b, n, c, v, y), m2)
  <1>1. ASSUME ToHeads(m, l, y, m2) PROVE OneIs(m, l, Fields(y, n, c, v, u), m2)
    <2>1. PICK z : z = Fields(y, n, c, v, u)
      OBVIOUS
    <2>2. m2 = [m EXCEPT ![l] = [m[l] EXCEPT !.begins = y]]
      BY <1>1 DEF ToHeads
    <2>3. [m[l] EXCEPT !.begins = y] = z
      BY <2>1 DEF Fields
    <2> QED
      BY <2>1, <2>2, <2>3, OneSet DEF ToMap
  <1>2. ASSUME ToKeys(m, l, y, m2) PROVE OneIs(m, l, Fields(b, n, y, v, u), m2)
    <2>1. PICK z : z = Fields(b, n, y, v, u)
      OBVIOUS
    <2>2. m2 = [m EXCEPT ![l] = [m[l] EXCEPT !.keys = y]]
      BY <1>2 DEF ToKeys
    <2>3. [m[l] EXCEPT !.keys = y] = z
      BY <2>1 DEF Fields
    <2> QED
      BY <2>1, <2>2, <2>3, OneSet DEF ToMap
  <1>3. ASSUME ToValues(m, l, y, m2) PROVE OneIs(m, l, Fields(b, n, c, y, u), m2)
    <2>1. PICK z : z = Fields(b, n, c, y, u)
      OBVIOUS
    <2>2. m2 = [m EXCEPT ![l] = [m[l] EXCEPT !.values = y]]
      BY <1>3 DEF ToValues
    <2>3. [m[l] EXCEPT !.values = y] = z
      BY <2>1 DEF Fields
    <2> QED
      BY <2>1, <2>2, <2>3, OneSet DEF ToMap
  <1>4. ASSUME ToUsed(m, l, y, m2) PROVE OneIs(m, l, Fields(b, n, c, v, y), m2)
    <2>1. PICK z : z = Fields(b, n, c, v, y)
      OBVIOUS
    <2>2. m2 = [m EXCEPT ![l] = [m[l] EXCEPT !.used = y]]
      BY <1>4 DEF ToUsed
    <2>3. [m[l] EXCEPT !.used = y] = z
      BY <2>1 DEF Fields
    <2> QED
      BY <2>1, <2>2, <2>3, OneSet DEF ToMap
  <1> QED
    BY <1>1, <1>2, <1>3, <1>4

\* two maps, of these fields
MapsAre(m, b1, n1, c1, v1, u1, b2, n2, c2, v2, u2) ==
  AreMaps(m) /\ m[1] = Fields(b1, n1, c1, v1, u1) /\ m[2] = Fields(b2, n2, c2, v2, u2)

LEMMA MapsOpen ==
  ASSUME NEW m, AreMaps(m)
  PROVE  MapsAre(m, m[1].begins, m[1].nexts, m[1].keys, m[1].values, m[1].used,
                 m[2].begins, m[2].nexts, m[2].keys, m[2].values, m[2].used)
  BY FieldsAre DEF MapsAre, Level

LEMMA MapsSet ==
  ASSUME NEW m, NEW b1, NEW n1, NEW c1, NEW v1, NEW u1, NEW b2, NEW n2, NEW c2, NEW v2, NEW u2,
         MapsAre(m, b1, n1, c1, v1, u1, b2, n2, c2, v2, u2), NEW y, NEW m2
  PROVE  /\ ToHeads(m, 1, y, m2) => MapsAre(m2, y, n1, c1, v1, u1, b2, n2, c2, v2, u2)
         /\ ToUsed(m, 1, y, m2) => MapsAre(m2, b1, n1, c1, v1, y, b2, n2, c2, v2, u2)
         /\ ToHeads(m, 2, y, m2) => MapsAre(m2, b1, n1, c1, v1, u1, y, n2, c2, v2, u2)
         /\ ToKeys(m, 2, y, m2) => MapsAre(m2, b1, n1, c1, v1, u1, b2, n2, y, v2, u2)
         /\ ToValues(m, 2, y, m2) => MapsAre(m2, b1, n1, c1, v1, u1, b2, n2, c2, y, u2)
         /\ ToUsed(m, 2, y, m2) => MapsAre(m2, b1, n1, c1, v1, u1, b2, n2, c2, v2, y)
  <1>1. 1 \in Level /\ 2 \in Level /\ 1 # 2
    BY DEF Level
  <1>2. AreMaps(m) /\ m[1] = Fields(b1, n1, c1, v1, u1) /\ m[2] = Fields(b2, n2, c2, v2, u2)
    BY DEF MapsAre
  <1>3. /\ ToHeads(m, 1, y, m2) => OneIs(m, 1, Fields(y, n1, c1, v1, u1), m2)
        /\ ToUsed(m, 1, y, m2) => OneIs(m, 1, Fields(b1, n1, c1, v1, y), m2)
    BY <1>1, <1>2, AssignIs
  <1>4. /\ ToHeads(m, 2, y, m2) => OneIs(m, 2, Fields(y, n2, c2, v2, u2), m2)
        /\ ToKeys(m, 2, y, m2) => OneIs(m, 2, Fields(b2, n2, y, v2, u2), m2)
        /\ ToValues(m, 2, y, m2) => OneIs(m, 2, Fields(b2, n2, c2, y, u2), m2)
        /\ ToUsed(m, 2, y, m2) => OneIs(m, 2, Fields(b2, n2, c2, v2, y), m2)
    BY <1>1, <1>2, AssignIs
  <1>5. ASSUME NEW z, OneIs(m, 1, z, m2) PROVE AreMaps(m2) /\ m2[1] = z /\ m2[2] = Fields(b2, n2, c2, v2, u2)
    BY <1>1, <1>2, <1>5 DEF OneIs
  <1>6. ASSUME NEW z, OneIs(m, 2, z, m2) PROVE AreMaps(m2) /\ m2[2] = z /\ m2[1] = Fields(b1, n1, c1, v1, u1)
    BY <1>1, <1>2, <1>6 DEF OneIs
  <1> QED
    BY <1>3, <1>4, <1>5, <1>6 DEF MapsAre

\* the fields of both maps, one after the other
LEMMA MapsFields ==
  ASSUME NEW m, NEW b1, NEW n1, NEW c1, NEW v1, NEW u1, NEW b2, NEW n2, NEW c2, NEW v2, NEW u2,
         MapsAre(m, b1, n1, c1, v1, u1, b2, n2, c2, v2, u2)
  PROVE  /\ AreMaps(m)
         /\ UsedOf(m)[1] = u1 /\ UsedOf(m)[2] = u2 /\ KeysOf(m)[1] = c1 /\ KeysOf(m)[2] = c2
         /\ ValuesOf(m)[1] = v1 /\ ValuesOf(m)[2] = v2 /\ HeadsOf(m)[1] = b1 /\ HeadsOf(m)[2] = b2
         /\ LinksOf(m)[1] = n1 /\ LinksOf(m)[2] = n2
         /\ m[2].keys = c2 /\ m[2].values = v2
         /\ UsedOf(m) = [l \in Level |-> UsedOf(m)[l]]
  <1>1. AreMaps(m) /\ m[1] = Fields(b1, n1, c1, v1, u1) /\ m[2] = Fields(b2, n2, c2, v2, u2)
    BY DEF MapsAre
  <1>2. m[1].used = u1 /\ m[2].used = u2 /\ m[1].keys = c1 /\ m[2].keys = c2 /\ m[1].values = v1 /\ m[2].values = v2
    BY <1>1 DEF Fields
  <1>3. m[1].begins = b1 /\ m[2].begins = b2 /\ m[1].nexts = n1 /\ m[2].nexts = n2
    BY <1>1 DEF Fields
  <1> QED
    BY <1>1, <1>2, <1>3 DEF UsedOf, KeysOf, ValuesOf, HeadsOf, LinksOf, Level

\* The start of a row: five assignments.
LEMMA StartMaps ==
  ASSUME NEW m, AreMaps(m), NEW b, NEW c, NEW v, NEW m2,
         m2 = [m EXCEPT ![1].begins = b, ![1].used = 0, ![2].used = 0, ![2].keys = c, ![2].values = v]
  PROVE  MapsAre(m2, b, m[1].nexts, m[1].keys, m[1].values, 0, m[2].begins, m[2].nexts, c, v, 0)
  <1>1. MapsAre(m, m[1].begins, m[1].nexts, m[1].keys, m[1].values, m[1].used,
                m[2].begins, m[2].nexts, m[2].keys, m[2].values, m[2].used)
    BY MapsOpen
  <1>2. PICK b1, n1, c1, v1, u1, b2, n2, c2, v2, u2 :
          /\ b1 = m[1].begins /\ n1 = m[1].nexts /\ c1 = m[1].keys /\ v1 = m[1].values /\ u1 = m[1].used
          /\ b2 = m[2].begins /\ n2 = m[2].nexts /\ c2 = m[2].keys /\ v2 = m[2].values /\ u2 = m[2].used
    OBVIOUS
  <1>3. PICK y1 : ToHeads(m, 1, b, y1)
    BY DEF ToHeads
  <1>4. PICK y2 : ToUsed(y1, 1, 0, y2)
    BY DEF ToUsed
  <1>5. PICK y3 : ToUsed(y2, 2, 0, y3)
    BY DEF ToUsed
  <1>6. PICK y4 : ToKeys(y3, 2, c, y4)
    BY DEF ToKeys
  <1>7. ToValues(y4, 2, v, m2)
    <2>1. m2 = [[[[[m EXCEPT ![1].begins = b] EXCEPT ![1].used = 0] EXCEPT ![2].used = 0] EXCEPT ![2].keys = c] EXCEPT ![2].values = v]
      OBVIOUS
    <2> QED
      BY <1>3, <1>4, <1>5, <1>6, <2>1 DEF ToHeads, ToUsed, ToKeys, ToValues
  <1>8. MapsAre(m, b1, n1, c1, v1, u1, b2, n2, c2, v2, u2)
    BY <1>1, <1>2
  <1>9. MapsAre(y1, b, n1, c1, v1, u1, b2, n2, c2, v2, u2)
    BY <1>3, <1>8, MapsSet
  <1>10. MapsAre(y2, b, n1, c1, v1, 0, b2, n2, c2, v2, u2)
    BY <1>4, <1>9, MapsSet
  <1>11. MapsAre(y3, b, n1, c1, v1, 0, b2, n2, c2, v2, 0)
    BY <1>5, <1>10, MapsSet
  <1>12. MapsAre(y4, b, n1, c1, v1, 0, b2, n2, c, v2, 0)
    BY <1>6, <1>11, MapsSet
  <1>13. MapsAre(m2, b, n1, c1, v1, 0, b2, n2, c, v, 0)
    BY <1>7, <1>12, MapsSet
  <1> QED
    BY <1>2, <1>13

LEMMA FieldsMade ==
  ASSUME NEW us, us = [l \in Level |-> us[l]], us[1] \in Nat, us[2] \in Nat, NEW ks, NEW vs, NEW hs, NEW ns,
         ks[1] \in [SlotsOf(1) -> Cols \union {Nil}], ks[2] \in [SlotsOf(2) -> Cols \union {Nil}],
         vs[1] \in [SlotsOf(1) -> Int], vs[2] \in [SlotsOf(2) -> Int],
         hs[1] \in [0 .. HashSize[1] - 1 -> SlotsOf(1) \union {Nil}], hs[2] \in [0 .. HashSize[2] - 1 -> SlotsOf(2) \union {Nil}],
         ns[1] \in [SlotsOf(1) -> SlotsOf(1) \union {Nil}], ns[2] \in [SlotsOf(2) -> SlotsOf(2) \union {Nil}]
  PROVE  FieldsOK(us, ks, vs, hs, ns)
  <1>1. \A l \in Level : l = 1 \/ l = 2
    BY DEF Level
  <1>2. us \in [Level -> Nat]
    <2>1. \A l \in Level : us[l] \in Nat
      BY <1>1
    <2> QED
      BY <2>1
  <1>3. \A l \in Level : ks[l] \in [SlotsOf(l) -> Cols \union {Nil}] /\ vs[l] \in [SlotsOf(l) -> Int]
    BY <1>1
  <1>4. \A l \in Level : /\ hs[l] \in [0 .. HashSize[l] - 1 -> SlotsOf(l) \union {Nil}]
                         /\ ns[l] \in [SlotsOf(l) -> SlotsOf(l) \union {Nil}]
    BY <1>1
  <1> QED
    BY <1>2, <1>3, <1>4 DEF FieldsOK

LEMMA FieldsOpen ==
  ASSUME NEW us, NEW ks, NEW vs, NEW hs, NEW ns, FieldsOK(us, ks, vs, hs, ns)
  PROVE  /\ us[1] \in Nat /\ us[2] \in Nat
         /\ ks[1] \in [SlotsOf(1) -> Cols \union {Nil}] /\ ks[2] \in [SlotsOf(2) -> Cols \union {Nil}]
         /\ vs[1] \in [SlotsOf(1) -> Int] /\ vs[2] \in [SlotsOf(2) -> Int]
         /\ hs[1] \in [0 .. HashSize[1] - 1 -> SlotsOf(1) \union {Nil}] /\ hs[2] \in [0 .. HashSize[2] - 1 -> SlotsOf(2) \union {Nil}]
         /\ ns[1] \in [SlotsOf(1) -> SlotsOf(1) \union {Nil}] /\ ns[2] \in [SlotsOf(2) -> SlotsOf(2) \union {Nil}]
  <1>1. 1 \in Level /\ 2 \in Level
    BY DEF Level
  <1> QED
    BY <1>1 DEF FieldsOK

StartMap(m, m2) ==
  m2 = [m EXCEPT ![1].begins = Unlinked(1), ![1].used = 0, ![2].used = 0,
                 ![2].keys = [s \in SlotsOf(2) |-> Nil], ![2].values = [s \in SlotsOf(2) |-> 0]]

LEMMA StartFields ==
  ASSUME NEW m, AreMaps(m), FieldsOK(UsedOf(m), KeysOf(m), ValuesOf(m), HeadsOf(m), LinksOf(m)),
         NEW m2, StartMap(m, m2), HeadsOf(m)[2] = Unlinked(2),
         NEW L, \A k \in Cols : L[k].pc = "idle" /\ L[k].lvl = 1 /\ L[k].my = Nil
  PROVE  /\ AreMaps(m2) /\ FieldsOK(UsedOf(m2), KeysOf(m2), ValuesOf(m2), HeadsOf(m2), LinksOf(m2))
         /\ Empty(UsedOf(m2), KeysOf(m2), HeadsOf(m2), L) /\ HeadsOf(m2)[2] = HeadsOf(m)[2]
  <1>1. PICK b, c, v : b = Unlinked(1) /\ c = [s \in SlotsOf(2) |-> Nil] /\ v = [s \in SlotsOf(2) |-> 0]
    OBVIOUS
  <1>2. MapsAre(m2, b, m[1].nexts, m[1].keys, m[1].values, 0, m[2].begins, m[2].nexts, c, v, 0)
    <2>1. m2 = [m EXCEPT ![1].begins = b, ![1].used = 0, ![2].used = 0, ![2].keys = c, ![2].values = v]
      BY <1>1 DEF StartMap
    <2> QED
      BY <2>1, StartMaps, Zenon
  <1>3. /\ AreMaps(m2)
        /\ UsedOf(m2)[1] = 0 /\ UsedOf(m2)[2] = 0 /\ KeysOf(m2)[1] = m[1].keys /\ KeysOf(m2)[2] = c
        /\ ValuesOf(m2)[1] = m[1].values /\ ValuesOf(m2)[2] = v /\ HeadsOf(m2)[1] = b /\ HeadsOf(m2)[2] = m[2].begins
        /\ LinksOf(m2)[1] = m[1].nexts /\ LinksOf(m2)[2] = m[2].nexts
        /\ UsedOf(m2) = [l \in Level |-> UsedOf(m2)[l]]
    BY <1>2, MapsFields
  <1>4. /\ KeysOf(m)[1] = m[1].keys /\ ValuesOf(m)[1] = m[1].values /\ HeadsOf(m)[2] = m[2].begins
        /\ LinksOf(m)[1] = m[1].nexts /\ LinksOf(m)[2] = m[2].nexts
    BY DEF KeysOf, ValuesOf, HeadsOf, LinksOf, Level
  <1>5. /\ KeysOf(m)[1] \in [SlotsOf(1) -> Cols \union {Nil}] /\ ValuesOf(m)[1] \in [SlotsOf(1) -> Int]
        /\ HeadsOf(m)[2] \in [0 .. HashSize[2] - 1 -> SlotsOf(2) \union {Nil}]
        /\ LinksOf(m)[1] \in [SlotsOf(1) -> SlotsOf(1) \union {Nil}] /\ LinksOf(m)[2] \in [SlotsOf(2) -> SlotsOf(2) \union {Nil}]
    BY FieldsOpen
  <1>6. /\ b \in [0 .. HashSize[1] - 1 -> SlotsOf(1) \union {Nil}] /\ c \in [SlotsOf(2) -> Cols \union {Nil}]
        /\ v \in [SlotsOf(2) -> Int]
    BY <1>1 DEF Unlinked
  <1>7. FieldsOK(UsedOf(m2), KeysOf(m2), ValuesOf(m2), HeadsOf(m2), LinksOf(m2))
    <2>1. /\ KeysOf(m2)[1] \in [SlotsOf(1) -> Cols \union {Nil}] /\ KeysOf(m2)[2] \in [SlotsOf(2) -> Cols \union {Nil}]
          /\ ValuesOf(m2)[1] \in [SlotsOf(1) -> Int] /\ ValuesOf(m2)[2] \in [SlotsOf(2) -> Int]
      BY <1>3, <1>4, <1>5, <1>6
    <2>2. /\ HeadsOf(m2)[1] \in [0 .. HashSize[1] - 1 -> SlotsOf(1) \union {Nil}]
          /\ HeadsOf(m2)[2] \in [0 .. HashSize[2] - 1 -> SlotsOf(2) \union {Nil}]
          /\ LinksOf(m2)[1] \in [SlotsOf(1) -> SlotsOf(1) \union {Nil}] /\ LinksOf(m2)[2] \in [SlotsOf(2) -> SlotsOf(2) \union {Nil}]
      BY <1>3, <1>4, <1>5, <1>6
    <2>3. UsedOf(m2)[1] \in Nat /\ UsedOf(m2)[2] \in Nat
      BY <1>3
    <2> QED
      BY <1>3, <2>1, <2>2, <2>3, FieldsMade
  <1>8. Empty(UsedOf(m2), KeysOf(m2), HeadsOf(m2), L)
    <2>1. \A s \in SlotsOf(2) : KeysOf(m2)[2][s] = Nil
      BY <1>1, <1>3
    <2>2. HeadsOf(m2)[1] = Unlinked(1) /\ HeadsOf(m2)[2] = Unlinked(2)
      BY <1>1, <1>3, <1>4
    <2> QED
      BY <1>3, <2>1, <2>2 DEF Empty
  <1> QED
    BY <1>3, <1>4, <1>7, <1>8

LEMMA IdleNow ==
  ASSUME IInv, ph # "lanes"
  PROVE  /\ LaneType(lane) /\ Resting(lane, {}) /\ Ended(lane)
         /\ \A k \in Cols : lane[k].pc = "idle" /\ lane[k].lvl = 1 /\ lane[k].my = Nil
  <1>1. lane = [k \in Cols |-> Idle]
    BY DEF IInv, Phases
  <1> QED
    BY <1>1, IdleMade

\* what a step that leaves the rows alone must show of the fields
LEMMA ShapeKeeps ==
  ASSUME IInv, UNCHANGED <<exec, rows, row>>, ph' \in {"row", "entries", "lanes", "reset", "copy", "written"}, ii' \in Nat,
         held' \in BOOLEAN, dirty' \in Seq(0 .. HashSize[2] - 1), AreMaps(map)', FieldsOK(Used, Keys, Values, Heads, Links)',
         LaneType(lane)'
  PROVE  Shape' /\ Row' = Row /\ Multi' = Multi /\ CSize(row)' = CSize(row) /\ ColsOf(row)' = ColsOf(row)
  <1>1. exec \in Execs /\ Fitting /\ row \in 1 .. Len(rows) + 1
    BY DEF IInv, Shape
  <1>2. Fitting'
    BY <1>1 DEF Fitting, CSize, ColsOf
  <1>3. Row' = Row /\ Multi' = Multi /\ CSize(row)' = CSize(row) /\ ColsOf(row)' = ColsOf(row)
    BY DEF Row, Multi, CSize, ColsOf
  <1> QED
    BY <1>1, <1>2, <1>3 DEF Shape

LEMMA StartRowKeeps ==
  ASSUME IInv, StartRow
  PROVE  IInv'
  <1>1. /\ ph = "row" /\ row <= Len(rows) /\ held' = (exec = "multicore" \/ CSize(row) > KeySize[1])
        /\ StartMap(map, map') /\ dirty' = <<>> /\ ii' = Len(rows[row]) /\ ph' = "entries"
        /\ UNCHANGED <<exec, rows, row>> /\ lane' = lane
    BY DEF StartRow, StartMap, kernel
  <1>2. AreMaps(map) /\ FieldsOK(Used, Keys, Values, Heads, Links)
    BY DEF IInv, Shape
  <1>3. LaneType(lane) /\ \A k \in Cols : lane[k].pc = "idle" /\ lane[k].lvl = 1 /\ lane[k].my = Nil
    BY <1>1, IdleNow
  <1>4. Heads[2] = Unlinked(2)
    BY <1>1 DEF IInv, Clean
  <1>5. /\ AreMaps(map') /\ FieldsOK(UsedOf(map'), KeysOf(map'), ValuesOf(map'), HeadsOf(map'), LinksOf(map'))
        /\ Empty(UsedOf(map'), KeysOf(map'), HeadsOf(map'), lane) /\ HeadsOf(map')[2] = HeadsOf(map)[2]
    <2>1. FieldsOK(UsedOf(map), KeysOf(map), ValuesOf(map), HeadsOf(map), LinksOf(map))
      BY <1>2 DEF Used, Keys, Values, Heads, Links
    <2>2. HeadsOf(map)[2] = Unlinked(2)
      BY <1>4 DEF Heads
    <2> QED
      BY <1>1, <1>2, <1>3, <2>1, <2>2, StartFields
  <1>6. AreMaps(map)' /\ FieldsOK(Used, Keys, Values, Heads, Links)' /\ Empty(Used', Keys', Heads', lane') /\ Heads'[2] = Heads[2]
    BY <1>1, <1>5 DEF Used, Keys, Values, Heads, Links
  <1>7. /\ row \in DOMAIN rows /\ Row \in Seq(SUBSET Cols) /\ DOMAIN Row = 1 .. Len(Row) /\ Len(Row) \in Nat
    BY <1>1, RowFacts
  <1>8. held' \in BOOLEAN /\ ii' \in Nat /\ ii' = Len(Row) /\ LaneType(lane)' /\ dirty' \in Seq(0 .. HashSize[2] - 1)
    BY <1>1, <1>3, <1>7 DEF Row
  <1>9. Shape' /\ Row' = Row /\ Multi' = Multi /\ CSize(row)' = CSize(row) /\ ColsOf(row)' = ColsOf(row)
    BY <1>1, <1>6, <1>8, ShapeKeeps
  <1>10. Phases'
    <2>1. lane = [k \in Cols |-> Idle]
      BY <1>1 DEF IInv, Phases
    <2>2. held' <=> Multi' \/ CSize(row)' > KeySize[1]
      BY <1>1, <1>9 DEF Multi
    <2>3. ph' = "entries" /\ row' <= Len(rows') /\ lane' = [k \in Cols |-> Idle] /\ ii' <= Len(Row)'
      BY <1>1, <1>7, <1>8, <1>9, <2>1
    <2> QED
      BY <2>2, <2>3 DEF Phases
  <1>11. Inserting' = {} /\ Before' = {}
    <2>1. Inserting' = {}
      BY <1>1 DEF Inserting
    <2>2. exec' = exec /\ Row' = Row /\ Multi' = Multi /\ rows'[row'] = Row
      BY <1>1, <1>9 DEF Row
    <2>3. Entry' = IF Multi THEN Len(Row) + 1 - ii' ELSE ii'
      BY <2>2 DEF Entry, Multi
    <2>4. PICK e : e = Entry'
      BY Zenon
    <2>5. PICK z \in Nat : z = Len(Row) /\ DOMAIN Row = 1 .. z
      BY <1>7, Zenon
    <2>8. e = IF Multi THEN z + 1 - z ELSE z
      BY <1>8, <2>3, <2>4, <2>5
    <2>6. \A d \in DOMAIN Row : ~ IF Multi THEN d < e ELSE d > e
      <3>1. CASE Multi
        <4>1. e = 1
          BY <2>8, <3>1
        <4>2. \A d \in 1 .. z : ~ (d < e)
          BY <4>1
        <4> QED
          BY <2>5, <3>1, <4>2
      <3>2. CASE ~ Multi
        <4>1. e = z
          BY <2>8, <3>2
        <4>2. \A d \in 1 .. z : ~ (d > e)
          BY <4>1
        <4> QED
          BY <2>5, <3>2, <4>2
      <3> QED
        BY <3>1, <3>2
    <2>7. Before' = {d \in DOMAIN Row : IF Multi THEN d < e ELSE d > e}
      BY <2>2, <2>4 DEF Before
    <2> QED
      BY <2>1, <2>6, <2>7
  <1>12. WorkingNow'
    <2>1. Working(exec', ColsOf(row)', {}, Row', {}, Entry', held', <<>>, Used', Keys', Values', Heads', Links', lane')
      BY <1>6, <1>8, StartWorks
    <2> QED
      BY <1>1, <1>11, <2>1 DEF WorkingNow
  <1>13. Clean'
    BY <1>4, <1>6 DEF Clean
  <1>14. RowCorrect'
    BY <1>1 DEF RowCorrect
  <1> QED
    BY <1>1, <1>9, <1>10, <1>12, <1>13, <1>14 DEF IInv, WorkingNow

\* The fields are those of the map: a step that leaves it alone leaves them alone.
LEMMA SameMap ==
  ASSUME map' = map
  PROVE  /\ Used' = Used /\ Keys' = Keys /\ Values' = Values /\ Heads' = Heads /\ Links' = Links
         /\ AreMaps(map)' = AreMaps(map)
  BY DEF Used, Keys, Values, Heads, Links, UsedOf, KeysOf, ValuesOf, HeadsOf, LinksOf, AreMaps

LEMMA ShapeOpen ==
  ASSUME IInv
  PROVE  /\ ii \in Nat /\ held \in BOOLEAN /\ dirty \in Seq(0 .. HashSize[2] - 1) /\ AreMaps(map)
         /\ FieldsOK(Used, Keys, Values, Heads, Links) /\ LaneType(lane)
  BY DEF IInv, Shape

LEMMA NextEntryKeeps ==
  ASSUME IInv, NextEntry
  PROVE  IInv'
  <1>1. /\ ph = "entries" /\ ii > 0 /\ ph' = "lanes" /\ UNCHANGED <<exec, rows, row>>
        /\ ii' = ii /\ held' = held /\ map' = map /\ dirty' = dirty
        /\ lane' = [k \in Cols |-> IF k \in rows[row][Entry] THEN [Idle EXCEPT !.pc = "hash"] ELSE Idle]
    BY DEF NextEntry, kernel
  <1>2. PICK I : I = Row[Entry]
    OBVIOUS
  <1>3. LaneType(lane') /\ Resting(lane', I)
    <2>1. lane' = [k \in Cols |-> IF k \in I THEN [Idle EXCEPT !.pc = "hash"] ELSE Idle]
      BY <1>1, <1>2 DEF Row
    <2> QED
      BY <2>1, RestingMade
  <1>4. LaneType(lane) /\ Ended(lane) /\ \A k \in Cols : lane[k].pc = "idle"
    BY <1>1, IdleNow
  <1>5. /\ ii \in Nat /\ held \in BOOLEAN /\ dirty \in Seq(0 .. HashSize[2] - 1) /\ AreMaps(map)
        /\ FieldsOK(Used, Keys, Values, Heads, Links)
    BY ShapeOpen
  <1>6. Used' = Used /\ Keys' = Keys /\ Values' = Values /\ Heads' = Heads /\ Links' = Links /\ AreMaps(map)'
    BY <1>1, <1>5, SameMap
  <1>7. Shape' /\ Row' = Row /\ Multi' = Multi /\ CSize(row)' = CSize(row) /\ ColsOf(row)' = ColsOf(row)
    <2>1. FieldsOK(Used, Keys, Values, Heads, Links)'
      BY <1>5, <1>6
    <2>2. LaneType(lane)'
      BY <1>3
    <2> QED
      BY <1>1, <1>5, <1>6, <2>1, <2>2, ShapeKeeps
  <1>8. row <= Len(rows) /\ ii <= Len(Row) /\ (held <=> Multi \/ CSize(row) > KeySize[1])
    BY <1>1 DEF IInv, Phases
  <1>9. Phases'
    BY <1>1, <1>5, <1>7, <1>8 DEF Phases
  <1>10. Entry' = Entry /\ Before' = Before /\ Inserting' = I
    <2>1. Entry' = Entry
      BY <1>1 DEF Entry
    <2>2. Inserting' = I
      BY <1>1, <1>2, <1>7, <2>1 DEF Inserting
    <2>3. Before' = Before
      BY <1>7, <2>1 DEF Before
    <2> QED
      BY <2>1, <2>2, <2>3
  <1>11. Working(exec, ColsOf(row), I, Row, Before, Entry, held, dirty, Used, Keys, Values, Heads, Links, lane')
    <2>1. Working(exec, ColsOf(row), Inserting, Row, Before, Entry, held, dirty, Used, Keys, Values, Heads, Links, lane)
      BY <1>1 DEF IInv
    <2>2. \A k \in Cols : Done(Row, Before, Entry, lane', k) = Done(Row, Before, Entry, lane, k)
      <3>1. \A k \in Cols : lane'[k].pc \notin After /\ lane[k].pc \notin After
        BY <1>3, <1>4 DEF Resting, After
      <3> QED
        BY <3>1 DEF Done
    <2>3. ColsOf(row) \subseteq Cols
      BY <1>8, RowFacts
    <2> QED
      BY <1>3, <1>4, <2>1, <2>2, <2>3, RestartWorks
  <1>12. WorkingNow'
    BY <1>1, <1>6, <1>7, <1>10, <1>11 DEF WorkingNow
  <1>13. Clean'
    <2>1. ~ held => Heads[2] = Unlinked(2)
      BY DEF IInv, Clean
    <2> QED
      BY <1>1, <1>6, <2>1 DEF Clean
  <1>14. RowCorrect'
    BY <1>1 DEF RowCorrect
  <1> QED
    BY <1>1, <1>7, <1>9, <1>12, <1>13, <1>14 DEF IInv, WorkingNow

\* The entry is now one of those before.
LEMMA BeforeMore ==
  ASSUME NEW m \in BOOLEAN, NEW z \in Nat, NEW i \in Nat, i # 0, i <= z, NEW e, e = IF m THEN z + 1 - i ELSE i,
         NEW f, f = IF m THEN z + 1 - (i - 1) ELSE i - 1
  PROVE  {d \in 1 .. z : IF m THEN d < f ELSE d > f} = {d \in 1 .. z : IF m THEN d < e ELSE d > e} \union {e}
  <1>1. CASE m
    <2>1. e = z + 1 - i /\ f = e + 1 /\ e \in 1 .. z
      BY <1>1
    <2>2. \A d \in 1 .. z : d < f <=> d < e \/ d = e
      BY <2>1
    <2> QED
      BY <1>1, <2>1, <2>2
  <1>2. CASE ~ m
    <2>1. e = i /\ f = e - 1 /\ e \in 1 .. z
      BY <1>2
    <2>2. \A d \in 1 .. z : d > f <=> d > e \/ d = e
      BY <2>1
    <2> QED
      BY <1>2, <2>1, <2>2
  <1> QED
    BY <1>1, <1>2

LEMMA EntryDoneKeeps ==
  ASSUME IInv, EntryDone
  PROVE  IInv'
  <1>1. /\ ph = "lanes" /\ Ended(lane) /\ ph' = "entries" /\ UNCHANGED <<exec, rows, row>>
        /\ ii' = ii - 1 /\ held' = held /\ map' = map /\ dirty' = dirty
        /\ lane' = [k \in Cols |-> Idle]
    BY DEF EntryDone, kernel, Ended
  <1>3. LaneType(lane') /\ Resting(lane', {}) /\ \A k \in Cols : lane'[k].pc = "idle"
    BY <1>1, IdleMade
  <1>5. /\ ii \in Nat /\ held \in BOOLEAN /\ dirty \in Seq(0 .. HashSize[2] - 1) /\ AreMaps(map)
        /\ FieldsOK(Used, Keys, Values, Heads, Links)
    BY ShapeOpen
  <1>6. Used' = Used /\ Keys' = Keys /\ Values' = Values /\ Heads' = Heads /\ Links' = Links /\ AreMaps(map)'
    BY <1>1, <1>5, SameMap
  <1>8. row <= Len(rows) /\ ii <= Len(Row) /\ ii # 0 /\ (held <=> Multi \/ CSize(row) > KeySize[1])
    BY <1>1 DEF IInv, Phases
  <1>15. ii' \in Nat /\ ii' <= ii
    BY <1>1, <1>5, <1>8
  <1>7. Shape' /\ Row' = Row /\ Multi' = Multi /\ CSize(row)' = CSize(row) /\ ColsOf(row)' = ColsOf(row)
    <2>1. FieldsOK(Used, Keys, Values, Heads, Links)'
      BY <1>5, <1>6
    <2>2. LaneType(lane)'
      BY <1>3
    <2> QED
      BY <1>1, <1>5, <1>6, <1>15, <2>1, <2>2, ShapeKeeps
  <1>16. /\ Row \in Seq(SUBSET Cols) /\ DOMAIN Row = 1 .. Len(Row) /\ Len(Row) \in Nat /\ ColsOf(row) \subseteq Cols
         /\ \A e \in DOMAIN Row : Row[e] \subseteq ColsOf(row)
    BY <1>8, RowFacts
  <1>9. Phases'
    <2>1. ii' <= Len(Row)
      BY <1>5, <1>8, <1>15, <1>16
    <2> QED
      BY <1>1, <1>7, <1>8, <2>1 DEF Phases
  <1>10. Before' = Before \union {Entry} /\ Inserting' = {}
    <2>1. Inserting' = {}
      BY <1>1 DEF Inserting
    <2>2. exec' = exec /\ rows'[row'] = Row
      BY <1>1 DEF Row
    <2>3. PICK m \in BOOLEAN : m = Multi
      BY DEF Multi
    <2>4. PICK z \in Nat : z = Len(Row) /\ DOMAIN Row = 1 .. z
      BY <1>16, Zenon
    <2>5. PICK i \in Nat : i = ii
      BY <1>5
    <2>6. PICK e : e = Entry
      OBVIOUS
    <2>7. PICK f : f = Entry'
      OBVIOUS
    <2>8. e = IF m THEN z + 1 - i ELSE i
      BY <2>3, <2>4, <2>5, <2>6 DEF Entry, Multi, Row
    <2>9. f = IF m THEN z + 1 - (i - 1) ELSE i - 1
      <3>1. Entry' = IF Multi' THEN Len(rows'[row']) + 1 - ii' ELSE ii'
        BY DEF Entry, Multi
      <3> QED
        BY <1>1, <1>7, <2>2, <2>3, <2>4, <2>5, <2>7, <3>1
    <2>10. i # 0 /\ i <= z
      BY <1>8, <2>4, <2>5
    <2>11. {d \in 1 .. z : IF m THEN d < f ELSE d > f} = {d \in 1 .. z : IF m THEN d < e ELSE d > e} \union {e}
      BY <2>8, <2>9, <2>10, BeforeMore
    <2>12. Before = {d \in 1 .. z : IF m THEN d < e ELSE d > e}
      BY <2>3, <2>4, <2>6 DEF Before
    <2>13. Before' = {d \in 1 .. z : IF m THEN d < f ELSE d > f}
      BY <1>7, <2>3, <2>4, <2>7 DEF Before
    <2> QED
      BY <2>1, <2>6, <2>11, <2>12, <2>13
  <1>11. Working(exec, ColsOf(row), {}, Row, Before', Entry', held, dirty, Used, Keys, Values, Heads, Links, lane')
    <2>1. Working(exec, ColsOf(row), Inserting, Row, Before, Entry, held, dirty, Used, Keys, Values, Heads, Links, lane)
      BY <1>1 DEF IInv
    <2>2. \A k \in Cols : Done(Row, Before', Entry', lane', k) = Done(Row, Before, Entry, lane, k)
      <3> TAKE k \in Cols
      <3>1. lane'[k].pc \notin After
        BY <1>3 DEF After
      <3>2. lane[k].pc \in After <=> k \in Row[Entry]
        <4>1. LaneOK(exec, Inserting, held, Used, Keys, Values, lane, k)
          BY <2>1 DEF Working, Core
        <4>2. lane[k].pc = "idle" <=> k \notin Inserting
          BY <4>1 DEF LaneOK
        <4>3. lane[k].pc \in {"idle", "done"} /\ Inserting = Row[Entry]
          BY <1>1 DEF Ended, Inserting
        <4> QED
          BY <4>2, <4>3 DEF After
      <3>3. Done(Row, Before', Entry', lane', k) = {d \in Before' : k \in Row[d]}
        BY <3>1 DEF Done
      <3>4. Done(Row, Before, Entry, lane, k) = {d \in Before : k \in Row[d]} \union {d \in {Entry} : k \in Row[d]}
        BY <3>2 DEF Done
      <3> QED
        BY <1>10, <3>3, <3>4
    <2> QED
      BY <1>1, <1>3, <1>16, <2>1, <2>2, RestartWorks
  <1>12. WorkingNow'
    BY <1>1, <1>6, <1>7, <1>10, <1>11 DEF WorkingNow
  <1>13. Clean'
    <2>1. ~ held => Heads[2] = Unlinked(2)
      BY DEF IInv, Clean
    <2> QED
      BY <1>1, <1>6, <2>1 DEF Clean
  <1>14. RowCorrect'
    BY <1>1 DEF RowCorrect
  <1> QED
    BY <1>1, <1>7, <1>9, <1>12, <1>13, <1>14 DEF IInv, WorkingNow

LEMMA NextRowKeeps ==
  ASSUME IInv, NextRow
  PROVE  IInv'
  <1>1. /\ ph = "written" /\ row' = row + 1 /\ ph' = "row"
        /\ UNCHANGED <<exec, rows, ii, held, map, dirty, lane>>
    BY DEF NextRow
  <1>2. row <= Len(rows) /\ rows \in Seq(Seq(SUBSET Cols)) /\ row \in 1 .. Len(rows) + 1 /\ exec \in Execs /\ Fitting
    BY <1>1, ProblemAssumption DEF IInv, Phases, Shape, Fitting
  <1>3. row' \in 1 .. Len(rows) + 1
    <2>1. Len(rows) \in Nat
      BY <1>2
    <2> QED
      BY <1>1, <1>2, <2>1
  <1>4. Fitting'
    BY <1>1, <1>2 DEF Fitting, CSize, ColsOf
  <1>5. /\ ii \in Nat /\ held \in BOOLEAN /\ dirty \in Seq(0 .. HashSize[2] - 1) /\ AreMaps(map)
        /\ FieldsOK(Used, Keys, Values, Heads, Links) /\ LaneType(lane)
    BY ShapeOpen
  <1>6. Used' = Used /\ Keys' = Keys /\ Values' = Values /\ Heads' = Heads /\ Links' = Links /\ AreMaps(map)'
    BY <1>1, <1>5, SameMap
  <1>7. Shape'
    BY <1>1, <1>2, <1>3, <1>4, <1>5, <1>6 DEF Shape
  <1>8. Phases'
    BY <1>1 DEF IInv, Phases, Multi
  <1>9. Clean'
    <2>1. Heads[2] = Unlinked(2)
      BY <1>1 DEF IInv, Clean
    <2> QED
      BY <1>6, <2>1 DEF Clean
  <1>10. RowCorrect'
    BY <1>1 DEF RowCorrect
  <1> QED
    BY <1>1, <1>7, <1>8, <1>9, <1>10 DEF IInv

\* Every head that is set was tracked: the reset leaves none.
LEMMA HeadsReset ==
  ASSUME NEW d, NEW hs, NEW L, DirtyOK(d, hs, L), \A k \in Cols : L[k].pc = "idle",
         NEW B, B = [h \in 0 .. HashSize[2] - 1 |-> IF \E n \in DOMAIN d : d[n] = h THEN Nil ELSE hs[2][h]]
  PROVE  B = Unlinked(2)
  <1>1. \A h \in 0 .. HashSize[2] - 1 : hs[2][h] = Nil \/ \E n \in DOMAIN d : d[n] = h
    BY DEF DirtyOK
  <1> QED
    BY <1>1 DEF Unlinked

LEMMA ResetBeginsKeeps ==
  ASSUME IInv, ResetBegins
  PROVE  IInv'
  <1>1. /\ ph = "entries" /\ ii = 0 /\ ph' = "reset" /\ UNCHANGED <<exec, rows, row>>
        /\ ii' = ii /\ held' = held /\ dirty' = dirty /\ lane' = lane
        /\ ~ held => map' = map
        /\ held => ToHeads(map, 2, [h \in DOMAIN map[2].begins |->
                             IF \E n \in DOMAIN dirty : dirty[n] = h THEN Nil ELSE map[2].begins[h]], map')
    BY DEF ResetBegins, kernel, ToHeads
  <1>2. LaneType(lane) /\ \A k \in Cols : lane[k].pc = "idle"
    BY <1>1, IdleNow
  <1>3. /\ ii \in Nat /\ held \in BOOLEAN /\ dirty \in Seq(0 .. HashSize[2] - 1) /\ AreMaps(map)
        /\ FieldsOK(Used, Keys, Values, Heads, Links)
    BY ShapeOpen
  <1>4. Working(exec, ColsOf(row), Inserting, Row, Before, Entry, held, dirty, Used, Keys, Values, Heads, Links, lane)
    BY <1>1 DEF IInv
  <1>5. /\ AreMaps(map)' /\ Used' = Used /\ Keys'[1] = Keys[1] /\ Keys'[2] = Keys[2]
        /\ Values'[1] = Values[1] /\ Values'[2] = Values[2] /\ Heads'[1] = Heads[1] /\ Heads'[2] = Unlinked(2)
        /\ Links'[1] = Links[1] /\ Links'[2] = Links[2]
    <2>1. CASE ~ held
      <3>1. Used' = Used /\ Keys' = Keys /\ Values' = Values /\ Heads' = Heads /\ Links' = Links /\ AreMaps(map)'
        BY <1>1, <1>3, <2>1, SameMap
      <3>2. Heads[2] = Unlinked(2)
        BY <1>4, <2>1 DEF Working
      <3> QED
        BY <3>1, <3>2
    <2>2. CASE held
      <3>1. PICK B : B = [h \in DOMAIN map[2].begins |->
                             IF \E n \in DOMAIN dirty : dirty[n] = h THEN Nil ELSE map[2].begins[h]]
        OBVIOUS
      <3>2. ToHeads(map, 2, B, map')
        BY <1>1, <2>2, <3>1
      <3>3. B = Unlinked(2)
        <4>1. Heads[2] = map[2].begins /\ Heads[2] \in [0 .. HashSize[2] - 1 -> SlotsOf(2) \union {Nil}]
          BY <1>3, FieldsNow, FieldsOpen DEF Level
        <4>2. DOMAIN map[2].begins = 0 .. HashSize[2] - 1
          BY <4>1
        <4>3. B = [h \in 0 .. HashSize[2] - 1 |-> IF \E n \in DOMAIN dirty : dirty[n] = h THEN Nil ELSE Heads[2][h]]
          BY <3>1, <4>1, <4>2
        <4>4. DirtyOK(dirty, Heads, lane)
          BY <1>4 DEF Working
        <4> QED
          BY <1>2, <4>3, <4>4, HeadsReset
      <3>4. PICK b1, n1, c1, v1, u1, b2, n2, c2, v2, u2 : MapsAre(map, b1, n1, c1, v1, u1, b2, n2, c2, v2, u2)
        BY <1>3, MapsOpen
      <3>5. MapsAre(map', b1, n1, c1, v1, u1, B, n2, c2, v2, u2)
        BY <3>2, <3>4, MapsSet
      <3>6. /\ Used[1] = u1 /\ Used[2] = u2 /\ Keys[1] = c1 /\ Keys[2] = c2
            /\ Values[1] = v1 /\ Values[2] = v2 /\ Heads[1] = b1 /\ Links[1] = n1 /\ Links[2] = n2
            /\ Used = [l \in Level |-> Used[l]]
        BY <3>4, MapsFields DEF Used, Keys, Values, Heads, Links
      <3>7. /\ AreMaps(map') /\ UsedOf(map')[1] = u1 /\ UsedOf(map')[2] = u2 /\ KeysOf(map')[1] = c1 /\ KeysOf(map')[2] = c2
            /\ ValuesOf(map')[1] = v1 /\ ValuesOf(map')[2] = v2 /\ HeadsOf(map')[1] = b1 /\ HeadsOf(map')[2] = B
            /\ LinksOf(map')[1] = n1 /\ LinksOf(map')[2] = n2
            /\ UsedOf(map') = [l \in Level |-> UsedOf(map')[l]]
        BY <3>5, MapsFields
      <3>8. /\ AreMaps(map)' /\ Used'[1] = u1 /\ Used'[2] = u2 /\ Keys'[1] = c1 /\ Keys'[2] = c2
            /\ Values'[1] = v1 /\ Values'[2] = v2 /\ Heads'[1] = b1 /\ Heads'[2] = B /\ Links'[1] = n1 /\ Links'[2] = n2
            /\ Used' = [l \in Level |-> Used'[l]]
        BY <3>7 DEF Used, Keys, Values, Heads, Links
      <3>9. Used' = Used
        <4>1. \A l \in Level : Used'[l] = Used[l]
          BY <3>6, <3>8 DEF Level
        <4>2. PICK f, g : f = Used /\ g = Used'
          OBVIOUS
        <4>3. f = [l \in Level |-> f[l]] /\ g = [l \in Level |-> g[l]] /\ \A l \in Level : g[l] = f[l]
          BY <3>6, <3>8, <4>1, <4>2
        <4> QED
          BY <4>2, <4>3
      <3> QED
        BY <3>3, <3>6, <3>8, <3>9
    <2> QED
      BY <2>1, <2>2
  <1>6. FieldsOK(Used, Keys, Values, Heads, Links)'
    <2>1. Unlinked(2) \in [0 .. HashSize[2] - 1 -> SlotsOf(2) \union {Nil}]
      BY DEF Unlinked
    <2>2. Used = [l \in Level |-> Used[l]]
      BY DEF Used, UsedOf
    <2>3. /\ Used[1] \in Nat /\ Used[2] \in Nat
          /\ Keys[1] \in [SlotsOf(1) -> Cols \union {Nil}] /\ Keys[2] \in [SlotsOf(2) -> Cols \union {Nil}]
          /\ Values[1] \in [SlotsOf(1) -> Int] /\ Values[2] \in [SlotsOf(2) -> Int]
          /\ Heads[1] \in [0 .. HashSize[1] - 1 -> SlotsOf(1) \union {Nil}]
          /\ Links[1] \in [SlotsOf(1) -> SlotsOf(1) \union {Nil}] /\ Links[2] \in [SlotsOf(2) -> SlotsOf(2) \union {Nil}]
      BY <1>3, FieldsOpen
    <2>4. PICK ks, vs, hs, ns : ks = Keys' /\ vs = Values' /\ hs = Heads' /\ ns = Links'
      OBVIOUS
    <2>5. FieldsOK(Used, ks, vs, hs, ns)
      BY <1>5, <2>1, <2>2, <2>3, <2>4, FieldsMade
    <2> QED
      BY <1>5, <2>4, <2>5
  <1>7. Shape' /\ Row' = Row /\ Multi' = Multi /\ CSize(row)' = CSize(row) /\ ColsOf(row)' = ColsOf(row)
    <2>1. LaneType(lane)'
      BY <1>1, <1>2
    <2> QED
      BY <1>1, <1>3, <1>5, <1>6, <2>1, ShapeKeeps
  <1>8. Phases'
    <2>1. row <= Len(rows) /\ lane = [k \in Cols |-> Idle] /\ (held <=> Multi \/ CSize(row) > KeySize[1])
      BY <1>1 DEF IInv, Phases
    <2> QED
      BY <1>1, <1>7, <2>1 DEF Phases
  <1>9. Inserted(held)'
    <2>1. Core(exec, ColsOf(row), {}, Row, Before, Entry, held, Used, Keys, Values, lane)
      BY <1>1, <1>4 DEF Working, Inserting
    <2>2. Keys' = Keys /\ Values' = Values
      <3>1. \A l \in Level : Keys'[l] = Keys[l] /\ Values'[l] = Values[l]
        BY <1>5 DEF Level
      <3>2. PICK f, g, h, a : f = Keys /\ g = Keys' /\ h = Values /\ a = Values'
        OBVIOUS
      <3>3. /\ f = [l \in Level |-> f[l]] /\ g = [l \in Level |-> g[l]]
            /\ h = [l \in Level |-> h[l]] /\ a = [l \in Level |-> a[l]]
        BY <3>2 DEF Keys, Values, KeysOf, ValuesOf
      <3>4. \A l \in Level : g[l] = f[l] /\ a[l] = h[l]
        BY <3>1, <3>2
      <3> QED
        BY <3>2, <3>3, <3>4
    <2>3. Inserting' = {} /\ Entry' = Entry
      BY <1>1 DEF Inserting, Entry
    <2>4. Before' = Before
      BY <1>7, <2>3 DEF Before
    <2> QED
      BY <1>1, <1>5, <1>7, <2>1, <2>2, <2>3, <2>4 DEF Inserted
  <1>10. Clean'
    BY <1>5 DEF Clean
  <1>11. RowCorrect'
    BY <1>1 DEF RowCorrect
  <1> QED
    BY <1>1, <1>7, <1>8, <1>9, <1>10, <1>11 DEF IInv

LEMMA CoreHeld ==
  ASSUME NEW x, NEW C, NEW I, NEW R, NEW D, NEW e, NEW hd, NEW us, NEW ks, NEW vs, NEW L,
         Core(x, C, I, R, D, e, hd, us, ks, vs, L)
  PROVE  Core(x, C, I, R, D, e, TRUE, us, ks, vs, L)
  <1>1. KeysOK(x, C, TRUE, us, ks, L)
    BY DEF Core, KeysOK
  <1>2. \A k \in Cols : LaneOK(x, I, TRUE, us, ks, vs, L, k)
    BY DEF Core, LaneOK
  <1> QED
    BY <1>1, <1>2 DEF Core

-----------------------------------------------------------------------------
(***************************************************************************)
(* The row that is written: the slots of the second map, then those of the *)
(* first.                                                                  *)
(***************************************************************************)
Clamped(us) == IF us[1] > KeySize[1] THEN KeySize[1] ELSE us[1]
Flat(a, w, n) == [s \in 0 .. w + n - 1 |-> IF s < w THEN a[2][s] ELSE a[1][s - w]]

\* all products of the row are in slots
AllIn(x, C, R, D, e, hd, us, ks, vs, L) ==
  /\ C \subseteq Cols /\ us \in [Level -> Nat] /\ Core(x, C, {}, R, D, e, hd, us, ks, vs, L)
  /\ \A k \in Cols : L[k].pc = "idle" /\ L[k].my = Nil
  /\ \A k \in C : \E d \in D : k \in R[d]

LEMMA TakenAre ==
  ASSUME NEW us \in [Level -> Nat], us[2] <= KeySize[2]
  PROVE  Taken(us, 2) = 0 .. us[2] - 1 /\ Taken(us, 1) = 0 .. Clamped(us) - 1 /\ Clamped(us) \in Nat /\ Clamped(us) <= KeySize[1]
  <1>1. PICK y, z \in Nat : y = us[1] /\ z = us[2]
    BY DEF Level
  <1>2. PICK a, b \in Nat \ {0} : a = KeySize[1] /\ b = KeySize[2]
    BY Sizes DEF Level
  <1>3. SlotsOf(1) = 0 .. a - 1 /\ SlotsOf(2) = 0 .. b - 1
    BY <1>2 DEF SlotsOf
  <1>4. Taken(us, 2) = {s \in 0 .. b - 1 : s < z} /\ Taken(us, 1) = {s \in 0 .. a - 1 : s < y}
    BY <1>1, <1>3 DEF Taken
  <1>5. Clamped(us) = IF y > a THEN a ELSE y
    BY <1>1, <1>2 DEF Clamped
  <1>6. z <= b
    BY <1>1, <1>2
  <1>7. {s \in 0 .. b - 1 : s < z} = 0 .. z - 1
    BY <1>6
  <1>8. {s \in 0 .. a - 1 : s < y} = 0 .. (IF y > a THEN a ELSE y) - 1
    OBVIOUS
  <1>9. PICK c : c = IF y > a THEN a ELSE y
    OBVIOUS
  <1>10. c \in Nat /\ c <= a
    BY <1>9
  <1>11. Taken(us, 2) = 0 .. us[2] - 1
    BY <1>1, <1>4, <1>7
  <1>12. Taken(us, 1) = 0 .. c - 1
    BY <1>4, <1>8, <1>9
  <1> QED
    BY <1>2, <1>5, <1>9, <1>10, <1>11, <1>12

LEMMA AllInSlots ==
  ASSUME NEW x, NEW C, NEW R, NEW D, NEW e, NEW hd, NEW us, NEW ks, NEW vs, NEW L, AllIn(x, C, R, D, e, hd, us, ks, vs, L)
  PROVE  /\ us[2] \in Nat /\ us[2] <= KeySize[2]
         /\ \A l \in Level : \A s \in Taken(us, l) : ks[l][s] \in C /\ vs[l][s] = Total(Val, {d \in D : ks[l][s] \in R[d]})
         /\ \A l, u \in Level : \A s \in Taken(us, l), q \in Taken(us, u) : ks[l][s] = ks[u][q] => l = u /\ s = q
         /\ \A k \in C : (\E s \in Taken(us, 1) : ks[1][s] = k) \/ (\E s \in Taken(us, 2) : ks[2][s] = k)
         /\ \A s \in SlotsOf(2) : s >= us[2] => ks[2][s] = Nil
  <1>1. /\ C \subseteq Cols /\ us \in [Level -> Nat] /\ KeysOK(x, C, hd, us, ks, L) /\ SumsOK(R, D, e, us, ks, vs, L)
        /\ \A k \in Cols : L[k].pc = "idle" /\ L[k].my = Nil
        /\ \A k \in C : \E d \in D : k \in R[d]
    BY DEF AllIn, Core
  <1>2. \A l \in Level : Filled(us, L, l) = Taken(us, l)
    BY <1>1, NoOwners
  <1>3. \A k \in Cols : Done(R, D, e, L, k) = {d \in D : k \in R[d]}
    BY <1>1 DEF Done, After
  <1>4. \A l \in Level : \A s \in Taken(us, l) : ks[l][s] \in C
    BY <1>1, <1>2 DEF KeysOK
  <1>5. \A l \in Level : \A s \in Taken(us, l) : vs[l][s] = Total(Val, {d \in D : ks[l][s] \in R[d]})
    <2> TAKE l \in Level
    <2> TAKE s \in Taken(us, l)
    <2>1. vs[l][s] = Total(Val, Done(R, D, e, L, ks[l][s]))
      BY <1>1, <1>2 DEF SumsOK
    <2>2. ks[l][s] \in Cols
      BY <1>1, <1>4
    <2> QED
      BY <1>3, <2>1, <2>2
  <1>6. \A l, u \in Level : \A s \in Taken(us, l), q \in Taken(us, u) : ks[l][s] = ks[u][q] => l = u /\ s = q
    BY <1>1, <1>2 DEF KeysOK
  <1>7. ASSUME NEW k \in C PROVE (\E s \in Taken(us, 1) : ks[1][s] = k) \/ (\E s \in Taken(us, 2) : ks[2][s] = k)
    <2>1. Done(R, D, e, L, k) # {}
      BY <1>1, <1>3
    <2>2. In(us, ks, L, 1, k) \/ In(us, ks, L, 2, k)
      BY <1>1, <2>1 DEF SumsOK
    <2> QED
      BY <1>2, <2>2 DEF In, Level
  <1>8. us[2] \in Nat /\ us[2] <= KeySize[2] /\ \A s \in SlotsOf(2) : s >= us[2] => ks[2][s] = Nil
    BY <1>1 DEF KeysOK, Level
  <1> QED
    BY <1>4, <1>5, <1>6, <1>7, <1>8

LEMMA IntervalSize ==
  ASSUME NEW N \in Nat
  PROVE  IsFiniteSet(0 .. N - 1) /\ Cardinality(0 .. N - 1) = N
  <1>1. 0 \in Int /\ N - 1 \in Int
    OBVIOUS
  <1>2. IsFiniteSet(0 .. N - 1) /\ Cardinality(0 .. N - 1) = IF 0 > N - 1 THEN 0 ELSE N - 1 - 0 + 1
    BY <1>1, FS_Interval
  <1> QED
    BY <1>2

LEMMA FlatRow ==
  ASSUME NEW x, NEW C, NEW R, NEW D, NEW e, NEW hd, NEW us, NEW ks, NEW vs, NEW L, AllIn(x, C, R, D, e, hd, us, ks, vs, L),
         NEW w, w = us[2], NEW n, n = Clamped(us), NEW f, f = Flat(ks, w, n), NEW g, g = Flat(vs, w, n)
  PROVE  /\ w \in Nat /\ n \in Nat /\ n <= KeySize[1] /\ w + n = Cardinality(C) /\ {f[s] : s \in 0 .. w + n - 1} = C
         /\ \A s \in 0 .. w + n - 1 : g[s] = Total(Val, {d \in D : f[s] \in R[d]})
  <1>1. /\ us[2] \in Nat /\ us[2] <= KeySize[2]
        /\ \A l \in Level : \A s \in Taken(us, l) : ks[l][s] \in C /\ vs[l][s] = Total(Val, {d \in D : ks[l][s] \in R[d]})
        /\ \A l, u \in Level : \A s \in Taken(us, l), q \in Taken(us, u) : ks[l][s] = ks[u][q] => l = u /\ s = q
        /\ \A k \in C : (\E s \in Taken(us, 1) : ks[1][s] = k) \/ (\E s \in Taken(us, 2) : ks[2][s] = k)
    BY AllInSlots
  <1>2. Taken(us, 2) = 0 .. w - 1 /\ Taken(us, 1) = 0 .. n - 1 /\ n \in Nat /\ n <= KeySize[1]
    <2>1. us \in [Level -> Nat]
      BY DEF AllIn
    <2> QED
      BY <1>1, <2>1, TakenAre
  <1>3. w \in Nat
    BY <1>1
  <1>4. PICK N \in Nat : N = w + n
    BY <1>2, <1>3
  <1>5. PICK S : S = 0 .. N - 1
    OBVIOUS
  <1>6. \A s \in S : /\ s < w => s \in Taken(us, 2) /\ f[s] = ks[2][s] /\ g[s] = vs[2][s]
                     /\ ~ s < w => s - w \in Taken(us, 1) /\ f[s] = ks[1][s - w] /\ g[s] = vs[1][s - w]
    <2>1. \A s \in S : f[s] = (IF s < w THEN ks[2][s] ELSE ks[1][s - w]) /\ g[s] = (IF s < w THEN vs[2][s] ELSE vs[1][s - w])
      <3>1. PICK i, j \in Nat : i = w /\ j = n
        BY <1>2, <1>3
      <3>4. N = i + j
        BY <1>4, <3>1
      <3>5. S = 0 .. i + j - 1
        BY <1>5, <3>4
      <3>6. f = Flat(ks, i, j) /\ g = Flat(vs, i, j)
        BY <3>1
      <3>2. f = [s \in S |-> IF s < i THEN ks[2][s] ELSE ks[1][s - i]]
        BY <3>5, <3>6 DEF Flat
      <3>3. g = [s \in S |-> IF s < i THEN vs[2][s] ELSE vs[1][s - i]]
        BY <3>5, <3>6 DEF Flat
      <3> QED
        BY <3>1, <3>2, <3>3
    <2>2. \A s \in 0 .. N - 1 : (s < w => s \in 0 .. w - 1) /\ (~ s < w => s - w \in 0 .. n - 1)
      BY <1>2, <1>3, <1>4, SMTT(30)
    <2> QED
      BY <1>2, <1>5, <2>1, <2>2
  <1>7. 1 \in Level /\ 2 \in Level /\ 1 # 2
    BY DEF Level
  <1>8. \A s \in S : f[s] \in C /\ g[s] = Total(Val, {d \in D : f[s] \in R[d]})
    <2> TAKE s \in S
    <2>1. CASE s < w
      BY <1>1, <1>6, <1>7, <2>1
    <2>2. CASE ~ s < w
      BY <1>1, <1>6, <1>7, <2>2
    <2> QED
      BY <2>1, <2>2
  <1>9. \A s, q \in S : f[s] = f[q] => s = q
    <2> SUFFICES ASSUME NEW s \in S, NEW q \in S, f[s] = f[q] PROVE s = q
      OBVIOUS
    <2>1. s \in Int /\ q \in Int
      BY <1>5
    <2>2. CASE s < w /\ q < w
      BY <1>1, <1>6, <1>7, <2>2
    <2>3. CASE s < w /\ ~ q < w
      BY <1>1, <1>6, <1>7, <2>3
    <2>4. CASE ~ s < w /\ q < w
      BY <1>1, <1>6, <1>7, <2>4
    <2>5. CASE ~ s < w /\ ~ q < w
      <3>1. s - w = q - w
        BY <1>1, <1>6, <1>7, <2>5
      <3> QED
        BY <1>3, <2>1, <3>1
    <2> QED
      BY <2>2, <2>3, <2>4, <2>5
  <1>10. ASSUME NEW k \in C PROVE \E s \in S : f[s] = k
    <2>1. CASE \E s \in Taken(us, 2) : ks[2][s] = k
      <3>1. PICK s \in 0 .. w - 1 : ks[2][s] = k
        BY <1>2, <2>1
      <3>2. s \in S /\ s < w
        BY <1>2, <1>3, <1>4, <1>5
      <3> QED
        BY <1>6, <3>1, <3>2
    <2>2. CASE \E s \in Taken(us, 1) : ks[1][s] = k
      <3>1. PICK s \in 0 .. n - 1 : ks[1][s] = k
        BY <1>2, <2>2
      <3>2. PICK q : q = s + w
        OBVIOUS
      <3>3. q \in S /\ ~ q < w /\ q - w = s
        <4>1. PICK i, j \in Nat : i = w /\ j = n
          BY <1>2, <1>3
        <4>2. s \in 0 .. j - 1 /\ q = s + i /\ N = i + j
          BY <1>4, <3>1, <3>2, <4>1
        <4>3. q \in 0 .. N - 1 /\ ~ q < i /\ q - i = s
          BY <4>2
        <4> QED
          BY <1>5, <4>1, <4>3
      <3>4. f[q] = ks[1][s]
        BY <1>6, <3>3
      <3> QED
        BY <3>1, <3>3, <3>4
    <2> QED
      BY <1>1, <2>1, <2>2
  <1>11. {f[s] : s \in S} = C
    BY <1>8, <1>10
  <1>12. Cardinality(C) = N
    <2>1. IsFiniteSet(S) /\ Cardinality(S) = N
      BY <1>5, IntervalSize
    <2>2. Cardinality({f[s] : s \in S}) = Cardinality(S)
      BY <1>9, <2>1, ImageSize
    <2> QED
      BY <1>11, <2>1, <2>2
  <1> QED
    BY <1>2, <1>3, <1>4, <1>5, <1>8, <1>11, <1>12, SMTT(30)

\* array b is the second of a with n elements of the first behind w
Merged(a, w, n, b) == \A s \in SlotsOf(2) : b[s] = IF s \in w .. w + n - 1 THEN a[1][s - w] ELSE a[2][s]

LEMMA MergedRow ==
  ASSUME NEW x, NEW C, NEW R, NEW D, NEW e, NEW hd, NEW us, NEW ks, NEW vs, NEW L, AllIn(x, C, R, D, e, hd, us, ks, vs, L),
         NEW w, w = us[2], NEW n, n = Clamped(us), NEW z, z = Cardinality(C), z <= KeySize[2],
         NEW K, Merged(ks, w, n, K), NEW V, Merged(vs, w, n, V)
  PROVE  /\ {K[s] : s \in 0 .. z - 1} = C
         /\ \A s \in 0 .. z - 1 : V[s] = Total(Val, {d \in D : K[s] \in R[d]})
         /\ \A s \in SlotsOf(2) : s >= z => K[s] = Nil
  <1>1. PICK f, g : f = Flat(ks, w, n) /\ g = Flat(vs, w, n)
    OBVIOUS
  <1>2. /\ w \in Nat /\ n \in Nat /\ w + n = Cardinality(C) /\ {f[s] : s \in 0 .. w + n - 1} = C
        /\ \A s \in 0 .. w + n - 1 : g[s] = Total(Val, {d \in D : f[s] \in R[d]})
    BY <1>1, FlatRow
  <1>3. PICK S : S = 0 .. z - 1
    OBVIOUS
  <1>4. z = w + n /\ z \in Nat
    BY <1>2
  <1>5. \A s \in S : s \in SlotsOf(2) /\ s \in 0 .. w + n - 1
    BY <1>2, <1>3, <1>4, Sizes, SMTT(30) DEF Level
  <1>6. \A s \in S : K[s] = f[s] /\ V[s] = g[s]
    <2> TAKE s \in S
    <2>1. f[s] = (IF s < w THEN ks[2][s] ELSE ks[1][s - w]) /\ g[s] = (IF s < w THEN vs[2][s] ELSE vs[1][s - w])
      BY <1>1, <1>5 DEF Flat
    <2>2. s < w <=> ~ s \in w .. w + n - 1
      BY <1>2, <1>5
    <2>3. K[s] = (IF s \in w .. w + n - 1 THEN ks[1][s - w] ELSE ks[2][s]) /\ V[s] = (IF s \in w .. w + n - 1 THEN vs[1][s - w] ELSE vs[2][s])
      BY <1>5 DEF Merged
    <2> QED
      BY <2>1, <2>2, <2>3
  <1>7. \A s \in SlotsOf(2) : s >= z => K[s] = Nil
    <2> SUFFICES ASSUME NEW s \in SlotsOf(2), s >= z PROVE K[s] = Nil
      OBVIOUS
    <2>1. s \in Nat
      BY Sizes DEF Level
    <2>2. ~ s \in w .. w + n - 1 /\ s >= w
      BY <1>2, <1>4, <2>1
    <2>3. K[s] = ks[2][s]
      BY <2>2 DEF Merged
    <2>4. \A q \in SlotsOf(2) : q >= us[2] => ks[2][q] = Nil
      BY AllInSlots
    <2> QED
      BY <2>2, <2>3, <2>4
  <1>8. {K[s] : s \in S} = C
    <2>1. {f[s] : s \in S} = C
      BY <1>2, <1>3, <1>4
    <2> QED
      BY <1>6, <2>1
  <1>9. \A s \in S : V[s] = Total(Val, {d \in D : K[s] \in R[d]})
    <2>1. \A s \in S : g[s] = Total(Val, {d \in D : f[s] \in R[d]})
      BY <1>2, <1>5
    <2> QED
      BY <1>6, <2>1
  <1> QED
    BY <1>3, <1>7, <1>8, <1>9

\* The sum of the correctness property, as the community modules define it.
RowSum(D) == MapThenSumSet(LAMBDA e : Val[e], D)

LEMMA SumIsTotal ==
  ASSUME NEW D, IsFiniteSet(D)
  PROVE  RowSum(D) = Total(Val, D)
  <1> DEFINE Eq(g) == g = [s \in SUBSET D |-> IF s = {} THEN 0
                 ELSE Val[CHOOSE x \in s : TRUE] + g[s \ {CHOOSE x \in s : TRUE}]]
             it == CHOOSE g : Eq(g)
  <1>1. RowSum(D) = it[D]
    BY Zenon DEF RowSum, MapThenSumSet, MapThenFoldSet
  <1>3. \A g : Eq(g) <=> Adds(g, Val, D)
    BY DEF Adds, Chosen
  <1>5. PICK h : h = it
    OBVIOUS
  <1>6. Adds(h, Val, D)
    <2>1. \E g : Adds(g, Val, D)
      BY AddsExists
    <2> HIDE DEF Eq
    <2> QED
      BY <1>3, <1>5, <2>1
  <1>7. Total(Val, D) = h[D]
    BY <1>6, TotalSolves
  <1> HIDE DEF it
  <1> QED
    BY <1>1, <1>5, <1>7

\* what is written of the row
RowWritten ==
  /\ {map[2].keys[s] : s \in 0 .. CSize(row) - 1} = ColsOf(row)
  /\ \A s \in 0 .. CSize(row) - 1 : map[2].values[s] = RowSum(Products(map[2].keys[s]))
  /\ \A s \in SlotsOf(2) : s >= CSize(row) => map[2].keys[s] = Nil

LEMMA RowCorrectIs == RowCorrect <=> (ph = "written" => RowWritten)
  BY Zenon DEF RowCorrect, RowWritten, RowSum, MapThenSumSet, MapThenFoldSet

LEMMA RowCorrectNext == (RowCorrect <=> (ph = "written" => RowWritten))'
  BY RowCorrectIs, PTL

LEMMA StutterKeeps ==
  ASSUME IInv, UNCHANGED vars
  PROVE  IInv'
  <1>1. /\ exec' = exec /\ rows' = rows /\ row' = row /\ ph' = ph /\ ii' = ii /\ held' = held
        /\ map' = map /\ dirty' = dirty /\ lane' = lane
    BY DEF vars
  <1>2. /\ Row' = Row /\ Multi' = Multi /\ Entry' = Entry /\ ColsOf(row)' = ColsOf(row) /\ CSize(row)' = CSize(row)
        /\ Fitting' = Fitting
    BY <1>1 DEF Row, Multi, Entry, ColsOf, CSize, Fitting
  <1>3. Inserting' = Inserting /\ Before' = Before
    BY <1>1, <1>2 DEF Inserting, Before
  <1>4. Used' = Used /\ Keys' = Keys /\ Values' = Values /\ Heads' = Heads /\ Links' = Links /\ AreMaps(map)' = AreMaps(map)
    BY <1>1, SameMap
  <1>5. Shape' /\ Phases' /\ Clean'
    <2>1. Shape /\ Phases /\ Clean
      BY DEF IInv
    <2>2. Shape'
      BY <1>1, <1>2, <1>4, <2>1 DEF Shape
    <2>3. Phases'
      BY <1>1, <1>2, <2>1 DEF Phases
    <2>4. Clean'
      BY <1>1, <1>4, <2>1 DEF Clean
    <2> QED
      BY <2>2, <2>3, <2>4
  <1>6. (ph = "reset" => Inserted(held))' /\ (ph = "copy" => Inserted(TRUE))'
    <2>1. (ph = "reset" => Inserted(held)) /\ (ph = "copy" => Inserted(TRUE))
      BY Zenon DEF IInv
    <2> QED
      BY <1>1, <1>2, <1>3, <1>4, <2>1, Zenon DEF Inserted
  <1>7. (ph \in {"entries", "lanes"} => WorkingNow)'
    <2>1. ph \in {"entries", "lanes"} => WorkingNow
      BY DEF IInv, WorkingNow
    <2> QED
      BY <1>1, <1>2, <1>3, <1>4, <2>1 DEF WorkingNow
  <1>8. RowCorrect'
    <2>1. ph = "written" => RowWritten
      BY RowCorrectIs DEF IInv
    <2>2. \A k : Products(k)' = Products(k)
      BY <1>1 DEF Products
    <2>3. RowWritten' <=> RowWritten
      BY <1>1, <1>2, <2>2 DEF RowWritten
    <2> QED
      BY <1>1, <2>1, <2>3, RowCorrectNext
  <1> QED
    BY <1>5, <1>6, <1>7, <1>8, Zenon DEF IInv, WorkingNow

\* All entries are multiplied: the products of all columns are in slots.
LEMMA AllInNow ==
  ASSUME IInv, ph \in {"reset", "copy"}
  PROVE  \E hd : AllIn(exec, ColsOf(row), Row, DOMAIN Row, Entry, hd, Used, Keys, Values, lane)
  <1>1. row <= Len(rows) /\ ii = 0
    BY DEF IInv, Phases
  <1>2. /\ DOMAIN Row = 1 .. Len(Row) /\ Len(Row) \in Nat /\ ColsOf(row) \subseteq Cols
    BY <1>1, RowFacts
  <1>3. Before = DOMAIN Row /\ Inserting = {}
    <2>1. PICK z \in Nat : z = Len(Row) /\ DOMAIN Row = 1 .. z
      BY <1>2, Zenon
    <2>2. PICK e : e = Entry
      OBVIOUS
    <2>3. e = IF Multi THEN z + 1 - 0 ELSE 0
      BY <1>1, <2>1, <2>2 DEF Entry, Multi, Row
    <2>4. \A d \in 1 .. z : IF Multi THEN d < e ELSE d > e
      <3>1. CASE Multi
        <4>1. e = z + 1
          BY <2>3, <3>1
        <4>2. \A d \in 1 .. z : d < e
          BY <4>1
        <4> QED
          BY <3>1, <4>2
      <3>2. CASE ~ Multi
        <4>1. e = 0
          BY <2>3, <3>2
        <4>2. \A d \in 1 .. z : d > e
          BY <4>1
        <4> QED
          BY <3>2, <4>2
      <3> QED
        BY <3>1, <3>2
    <2>5. Before = {d \in DOMAIN Row : IF Multi THEN d < e ELSE d > e}
      BY <2>2 DEF Before
    <2>6. Inserting = {}
      BY DEF Inserting
    <2> QED
      BY <2>1, <2>4, <2>5, <2>6, Zenon
  <1>4. PICK hd : Inserted(hd)
    BY Zenon DEF IInv
  <1>5. Core(exec, ColsOf(row), {}, Row, DOMAIN Row, Entry, hd, Used, Keys, Values, lane)
    BY <1>3, <1>4 DEF Inserted
  <1>6. \A k \in Cols : lane[k].pc = "idle" /\ lane[k].my = Nil
    BY IdleNow
  <1>7. Used \in [Level -> Nat]
    BY ShapeOpen DEF FieldsOK
  <1>8. \A k \in ColsOf(row) : \E d \in DOMAIN Row : k \in Row[d]
    BY DEF ColsOf, Row
  <1> QED
    BY <1>2, <1>5, <1>6, <1>7, <1>8 DEF AllIn

\* what is written once the first map is behind the second
LEMMA WrittenNow ==
  ASSUME IInv, ph \in {"reset", "copy"}, UNCHANGED <<exec, rows, row>>, NEW w, w = Used[2], NEW n, n = Clamped(Used),
         NEW K, K = Keys'[2], Merged(Keys, w, n, K), NEW V, V = Values'[2], Merged(Values, w, n, V)
  PROVE  RowWritten'
  <1>1. PICK hd : AllIn(exec, ColsOf(row), Row, DOMAIN Row, Entry, hd, Used, Keys, Values, lane)
    BY AllInNow
  <1>2. row <= Len(rows)
    BY DEF IInv, Phases
  <1>3. CSize(row) <= KeySize[2] /\ CSize(row) = Cardinality(ColsOf(row)) /\ DOMAIN Row = 1 .. Len(Row) /\ Len(Row) \in Nat
    BY <1>2, RowFacts
  <1>4. PICK z : z = CSize(row)
    OBVIOUS
  <1>5. PICK C : C = ColsOf(row)
    OBVIOUS
  <1>6. PICK D : D = DOMAIN Row
    OBVIOUS
  <1>13. PICK R : R = Row
    OBVIOUS
  <1>7. /\ {K[s] : s \in 0 .. z - 1} = C
        /\ \A s \in 0 .. z - 1 : V[s] = Total(Val, {d \in D : K[s] \in R[d]})
        /\ \A s \in SlotsOf(2) : s >= z => K[s] = Nil
    <2>1. AllIn(exec, C, R, D, Entry, hd, Used, Keys, Values, lane)
      BY <1>1, <1>5, <1>6, <1>13
    <2>2. z = Cardinality(C) /\ z <= KeySize[2]
      BY <1>3, <1>4, <1>5
    <2>3. /\ {K[s] : s \in 0 .. z - 1} = C
          /\ \A s \in 0 .. z - 1 : V[s] = Total(Val, {d \in D : K[s] \in R[d]})
          /\ \A s \in SlotsOf(2) : s >= z => K[s] = Nil
      BY <2>1, <2>2, MergedRow
    <2> QED
      BY <2>3
  <1>8. CSize(row)' = z /\ ColsOf(row)' = C
    BY <1>4, <1>5 DEF CSize, ColsOf
  <1>9. \A k : Products(k)' = {d \in D : k \in R[d]}
    BY <1>6, <1>13 DEF Products, Row
  <1>10. \A k : Total(Val, {d \in D : k \in R[d]}) = RowSum({d \in D : k \in R[d]})
    <2>1. IsFiniteSet(D)
      <3>1. 1 \in Int /\ Len(Row) \in Int
        BY <1>3
      <3> QED
        BY <1>3, <1>6, <3>1, FS_Interval
    <2> TAKE k
    <2>2. IsFiniteSet({d \in D : k \in R[d]})
      BY <2>1, FS_Subset
    <2> QED
      BY <2>2, SumIsTotal
  <1>11. map'[2].keys = K /\ map'[2].values = V
    <2>1. Keys'[2] = map'[2].keys /\ Values'[2] = map'[2].values
      BY DEF Keys, Values, KeysOf, ValuesOf, Level
    <2> QED
      BY <2>1
  <1>12. \A s \in 0 .. z - 1 : V[s] = RowSum(Products(K[s])')
    BY <1>7, <1>9, <1>10
  <1> QED
    BY <1>7, <1>8, <1>11, <1>12 DEF RowWritten

LEMMA ReleaseChunkKeeps ==
  ASSUME IInv, ReleaseChunk
  PROVE  IInv'
  <1>1. /\ ph = "reset" /\ held' = (exec = "multicore" /\ row < Len(rows))
        /\ ph' = (IF exec = "multicore" THEN "written" ELSE "copy")
        /\ UNCHANGED <<exec, rows, row>> /\ ii' = ii /\ map' = map /\ dirty' = dirty /\ lane' = lane
    BY DEF ReleaseChunk, kernel
  <1>2. /\ ii \in Nat /\ dirty \in Seq(0 .. HashSize[2] - 1) /\ AreMaps(map)
        /\ FieldsOK(Used, Keys, Values, Heads, Links) /\ LaneType(lane)
    BY ShapeOpen
  <1>3. Used' = Used /\ Keys' = Keys /\ Values' = Values /\ Heads' = Heads /\ Links' = Links /\ AreMaps(map)'
    BY <1>1, <1>2, SameMap
  <1>4. Shape' /\ Row' = Row /\ Multi' = Multi /\ CSize(row)' = CSize(row) /\ ColsOf(row)' = ColsOf(row)
    <2>1. FieldsOK(Used, Keys, Values, Heads, Links)'
      BY <1>2, <1>3
    <2>2. LaneType(lane)'
      BY <1>1, <1>2
    <2>3. held' \in BOOLEAN /\ ph' \in {"row", "entries", "lanes", "reset", "copy", "written"}
      BY <1>1
    <2> QED
      BY <1>1, <1>2, <1>3, <2>1, <2>2, <2>3, ShapeKeeps
  <1>5. row <= Len(rows) /\ lane = [k \in Cols |-> Idle] /\ ii = 0
    BY <1>1 DEF IInv, Phases
  <1>6. Phases'
    BY <1>1, <1>4, <1>5 DEF Phases, Multi
  <1>7. (ph = "copy" => Inserted(TRUE))'
    <2>1. Core(exec, ColsOf(row), Inserting, Row, Before, Entry, held, Used, Keys, Values, lane)
      BY <1>1 DEF IInv, Inserted
    <2>2. Core(exec, ColsOf(row), Inserting, Row, Before, Entry, TRUE, Used, Keys, Values, lane)
      BY <2>1, CoreHeld, Zenon
    <2>3. Inserting' = Inserting /\ Entry' = Entry
      BY <1>1 DEF Inserting, Entry
    <2>4. Before' = Before
      BY <1>4, <2>3 DEF Before
    <2> QED
      BY <1>1, <1>3, <1>4, <2>2, <2>3, <2>4 DEF Inserted
  <1>8. Clean'
    <2>1. Heads[2] = Unlinked(2)
      BY <1>1 DEF IInv, Clean
    <2> QED
      BY <1>3, <2>1 DEF Clean
  <1>9. RowCorrect'
    <2>1. CASE exec = "multicore"
      <3>1. PICK hd : AllIn("multicore", ColsOf(row), Row, DOMAIN Row, Entry, hd, Used, Keys, Values, lane)
        BY <1>1, <2>1, AllInNow
      <3>2. Used[1] = 0 /\ Used[2] \in Nat
        <4>1. Used[1] = 0
          BY <3>1 DEF AllIn, Core, KeysOK
        <4>2. Used[2] \in Nat
          BY <3>1, AllInSlots
        <4> QED
          BY <4>1, <4>2
      <3>3. PICK w \in Nat : w = Used[2]
        BY <3>2
      <3>4. 0 = Clamped(Used)
        <4>1. KeySize[1] \in Nat
          BY Sizes DEF Level
        <4> QED
          BY <3>2, <4>1 DEF Clamped
      <3>5. \A s : ~ s \in w .. w + 0 - 1
        OBVIOUS
      <3>6. PICK K, V : K = Keys'[2] /\ V = Values'[2]
        OBVIOUS
      <3>7. Merged(Keys, w, 0, K) /\ Merged(Values, w, 0, V)
        <4>1. K = Keys[2] /\ V = Values[2]
          BY <1>3, <3>6
        <4> QED
          BY <3>5, <4>1 DEF Merged
      <3>8. RowWritten'
        <4>1. ph \in {"reset", "copy"}
          BY <1>1
        <4> QED
          BY <1>1, <3>3, <3>4, <3>6, <3>7, <4>1, WrittenNow
      <3> QED
        BY <3>8, RowCorrectNext
    <2>2. CASE exec # "multicore"
      <3>1. ph' # "written"
        BY <1>1, <2>2
      <3> QED
        BY <3>1, RowCorrectNext
    <2> QED
      BY <2>1, <2>2
  <1>10. ph' \notin {"reset", "entries", "lanes"}
    BY <1>1
  <1> QED
    BY <1>4, <1>6, <1>7, <1>8, <1>9, <1>10, Zenon DEF IInv

Copied(a, b, w, n) == [s \in DOMAIN b |-> IF s \in w .. w + n - 1 THEN a[s - w] ELSE b[s]]

Copies(a, b, T, w, n, y) == a \in [SlotsOf(1) -> T] /\ b \in [SlotsOf(2) -> T] /\ y = Copied(a, b, w, n)
Copy(a, b, T, w, n, y) ==
  /\ y \in [SlotsOf(2) -> T]
  /\ \A s \in SlotsOf(2) : y[s] = IF s \in w .. w + n - 1 THEN a[s - w] ELSE b[s]

LEMMA CopyMaps ==
  ASSUME NEW m, AreMaps(m), NEW n, NEW c, NEW v, NEW m2,
         m2 = [m EXCEPT ![1].used = n, ![2].keys = c, ![2].values = v]
  PROVE  MapsAre(m2, m[1].begins, m[1].nexts, m[1].keys, m[1].values, n, m[2].begins, m[2].nexts, c, v, m[2].used)
  <1>1. PICK b1, n1, c1, v1, u1, b2, n2, c2, v2, u2 :
          /\ b1 = m[1].begins /\ n1 = m[1].nexts /\ c1 = m[1].keys /\ v1 = m[1].values /\ u1 = m[1].used
          /\ b2 = m[2].begins /\ n2 = m[2].nexts /\ c2 = m[2].keys /\ v2 = m[2].values /\ u2 = m[2].used
    OBVIOUS
  <1>2. MapsAre(m, b1, n1, c1, v1, u1, b2, n2, c2, v2, u2)
    BY <1>1, MapsOpen
  <1>3. PICK y1 : ToUsed(m, 1, n, y1)
    BY DEF ToUsed
  <1>4. PICK y2 : ToKeys(y1, 2, c, y2)
    BY DEF ToKeys
  <1>5. ToValues(y2, 2, v, m2)
    <2>1. m2 = [[[m EXCEPT ![1].used = n] EXCEPT ![2].keys = c] EXCEPT ![2].values = v]
      OBVIOUS
    <2> QED
      BY <1>3, <1>4, <2>1 DEF ToUsed, ToKeys, ToValues
  <1>6. MapsAre(y1, b1, n1, c1, v1, n, b2, n2, c2, v2, u2)
    BY <1>2, <1>3, MapsSet
  <1>7. MapsAre(y2, b1, n1, c1, v1, n, b2, n2, c, v2, u2)
    BY <1>4, <1>6, MapsSet
  <1>8. MapsAre(m2, b1, n1, c1, v1, n, b2, n2, c, v, u2)
    BY <1>5, <1>7, MapsSet
  <1> QED
    BY <1>1, <1>8

\* a copy of elements of T stays an array of elements of T
LEMMA CopiedType ==
  ASSUME NEW T, NEW a, NEW b, NEW w \in Nat, NEW n \in Nat, n <= KeySize[1], NEW y, Copies(a, b, T, w, n, y)
  PROVE  Copy(a, b, T, w, n, y)
  <1>4. a \in [SlotsOf(1) -> T] /\ b \in [SlotsOf(2) -> T] /\ y = Copied(a, b, w, n)
    BY DEF Copies
  <1>1. y = [s \in SlotsOf(2) |-> IF s \in w .. w + n - 1 THEN a[s - w] ELSE b[s]]
    BY <1>4 DEF Copied
  <1>2. \A s \in w .. w + n - 1 : a[s - w] \in T
    <2>1. PICK z \in Nat : z = KeySize[1] /\ SlotsOf(1) = 0 .. z - 1
      BY Sizes DEF SlotsOf, Level
    <2>2. \A s \in w .. w + n - 1 : s - w \in 0 .. z - 1
      BY <2>1
    <2> QED
      BY <1>4, <2>1, <2>2
  <1>3. \A s \in SlotsOf(2) : (IF s \in w .. w + n - 1 THEN a[s - w] ELSE b[s]) \in T
    BY <1>2, <1>4
  <1> QED
    BY <1>1, <1>3 DEF Copy

CopyMap(m, n, m2) ==
  m2 = [m EXCEPT ![1].used = n,
                 ![2].keys = Copied(m[1].keys, m[2].keys, m[2].used, n),
                 ![2].values = Copied(m[1].values, m[2].values, m[2].used, n)]

LEMMA CopyFields ==
  ASSUME NEW m, AreMaps(m), FieldsOK(UsedOf(m), KeysOf(m), ValuesOf(m), HeadsOf(m), LinksOf(m)),
         NEW n \in Nat, n <= KeySize[1], NEW m2, CopyMap(m, n, m2), NEW w, w = UsedOf(m)[2]
  PROVE  /\ AreMaps(m2) /\ FieldsOK(UsedOf(m2), KeysOf(m2), ValuesOf(m2), HeadsOf(m2), LinksOf(m2))
         /\ HeadsOf(m2)[2] = HeadsOf(m)[2]
         /\ Merged(KeysOf(m), w, n, KeysOf(m2)[2]) /\ Merged(ValuesOf(m), w, n, ValuesOf(m2)[2])
  <1>1. PICK c, v : /\ c = Copied(m[1].keys, m[2].keys, m[2].used, n)
                    /\ v = Copied(m[1].values, m[2].values, m[2].used, n)
    OBVIOUS
  <1>2. MapsAre(m2, m[1].begins, m[1].nexts, m[1].keys, m[1].values, n, m[2].begins, m[2].nexts, c, v, m[2].used)
    <2>1. m2 = [m EXCEPT ![1].used = n, ![2].keys = c, ![2].values = v]
      BY <1>1 DEF CopyMap
    <2> QED
      BY <2>1, CopyMaps
  <1>3. /\ AreMaps(m2)
        /\ UsedOf(m2)[1] = n /\ UsedOf(m2)[2] = m[2].used /\ KeysOf(m2)[1] = m[1].keys /\ KeysOf(m2)[2] = c
        /\ ValuesOf(m2)[1] = m[1].values /\ ValuesOf(m2)[2] = v /\ HeadsOf(m2)[1] = m[1].begins /\ HeadsOf(m2)[2] = m[2].begins
        /\ LinksOf(m2)[1] = m[1].nexts /\ LinksOf(m2)[2] = m[2].nexts
        /\ UsedOf(m2) = [l \in Level |-> UsedOf(m2)[l]]
    BY <1>2, MapsFields
  <1>4. /\ KeysOf(m)[1] = m[1].keys /\ ValuesOf(m)[1] = m[1].values /\ HeadsOf(m)[1] = m[1].begins /\ HeadsOf(m)[2] = m[2].begins
        /\ KeysOf(m)[2] = m[2].keys /\ ValuesOf(m)[2] = m[2].values /\ UsedOf(m)[2] = m[2].used
        /\ LinksOf(m)[1] = m[1].nexts /\ LinksOf(m)[2] = m[2].nexts
    BY DEF KeysOf, ValuesOf, HeadsOf, LinksOf, UsedOf, Level
  <1>5. /\ KeysOf(m)[1] \in [SlotsOf(1) -> Cols \union {Nil}] /\ KeysOf(m)[2] \in [SlotsOf(2) -> Cols \union {Nil}]
        /\ ValuesOf(m)[1] \in [SlotsOf(1) -> Int] /\ ValuesOf(m)[2] \in [SlotsOf(2) -> Int]
        /\ HeadsOf(m)[1] \in [0 .. HashSize[1] - 1 -> SlotsOf(1) \union {Nil}]
        /\ HeadsOf(m)[2] \in [0 .. HashSize[2] - 1 -> SlotsOf(2) \union {Nil}]
        /\ LinksOf(m)[1] \in [SlotsOf(1) -> SlotsOf(1) \union {Nil}] /\ LinksOf(m)[2] \in [SlotsOf(2) -> SlotsOf(2) \union {Nil}]
        /\ UsedOf(m)[2] \in Nat
    BY FieldsOpen
  <1>6. w \in Nat /\ c = Copied(KeysOf(m)[1], KeysOf(m)[2], w, n) /\ v = Copied(ValuesOf(m)[1], ValuesOf(m)[2], w, n)
    BY <1>1, <1>4, <1>5
  <1>7. /\ c \in [SlotsOf(2) -> Cols \union {Nil}]
        /\ \A s \in SlotsOf(2) : c[s] = IF s \in w .. w + n - 1 THEN KeysOf(m)[1][s - w] ELSE KeysOf(m)[2][s]
    <2>1. PICK T, a, b : T = Cols \union {Nil} /\ a = KeysOf(m)[1] /\ b = KeysOf(m)[2]
      OBVIOUS
    <2>2. w \in Nat /\ Copies(a, b, T, w, n, c)
      BY <1>5, <1>6, <2>1 DEF Copies
    <2>3. Copy(a, b, T, w, n, c)
      BY <2>2, CopiedType
    <2> QED
      BY <2>1, <2>3 DEF Copy
  <1>8. /\ v \in [SlotsOf(2) -> Int]
        /\ \A s \in SlotsOf(2) : v[s] = IF s \in w .. w + n - 1 THEN ValuesOf(m)[1][s - w] ELSE ValuesOf(m)[2][s]
    <2>1. PICK T, a, b : T = Int /\ a = ValuesOf(m)[1] /\ b = ValuesOf(m)[2]
      OBVIOUS
    <2>2. w \in Nat /\ Copies(a, b, T, w, n, v)
      BY <1>5, <1>6, <2>1 DEF Copies
    <2>3. Copy(a, b, T, w, n, v)
      BY <2>2, CopiedType
    <2> QED
      BY <2>1, <2>3 DEF Copy
  <1>9. FieldsOK(UsedOf(m2), KeysOf(m2), ValuesOf(m2), HeadsOf(m2), LinksOf(m2))
    <2>1. /\ KeysOf(m2)[1] \in [SlotsOf(1) -> Cols \union {Nil}] /\ KeysOf(m2)[2] \in [SlotsOf(2) -> Cols \union {Nil}]
          /\ ValuesOf(m2)[1] \in [SlotsOf(1) -> Int] /\ ValuesOf(m2)[2] \in [SlotsOf(2) -> Int]
      BY <1>3, <1>4, <1>5, <1>7, <1>8
    <2>2. /\ HeadsOf(m2)[1] \in [0 .. HashSize[1] - 1 -> SlotsOf(1) \union {Nil}]
          /\ HeadsOf(m2)[2] \in [0 .. HashSize[2] - 1 -> SlotsOf(2) \union {Nil}]
          /\ LinksOf(m2)[1] \in [SlotsOf(1) -> SlotsOf(1) \union {Nil}] /\ LinksOf(m2)[2] \in [SlotsOf(2) -> SlotsOf(2) \union {Nil}]
      BY <1>3, <1>4, <1>5
    <2>3. UsedOf(m2)[1] \in Nat /\ UsedOf(m2)[2] \in Nat
      BY <1>3, <1>4, <1>5
    <2> QED
      BY <1>3, <2>1, <2>2, <2>3, FieldsMade
  <1>10. Merged(KeysOf(m), w, n, KeysOf(m2)[2]) /\ Merged(ValuesOf(m), w, n, ValuesOf(m2)[2])
    BY <1>3, <1>7, <1>8 DEF Merged
  <1> QED
    BY <1>3, <1>4, <1>9, <1>10

LEMMA CopyFirstLevelKeeps ==
  ASSUME IInv, CopyFirstLevel
  PROVE  IInv'
  <1>1. /\ ph = "copy" /\ ph' = "written" /\ CopyMap(map, Clamped(Used), map')
        /\ UNCHANGED <<exec, rows, row>> /\ ii' = ii /\ held' = held /\ dirty' = dirty /\ lane' = lane
    <2>1. Used[1] = map[1].used
      BY FieldsNow DEF Level
    <2> QED
      BY <2>1 DEF CopyFirstLevel, kernel, CopyMap, Clamped, Copied
  <1>2. /\ ii \in Nat /\ held \in BOOLEAN /\ dirty \in Seq(0 .. HashSize[2] - 1) /\ AreMaps(map)
        /\ FieldsOK(Used, Keys, Values, Heads, Links) /\ LaneType(lane)
    BY ShapeOpen
  <1>3. PICK n : n = Clamped(Used)
    OBVIOUS
  <1>4. n \in Nat /\ n <= KeySize[1]
    <2>1. Used[1] \in Nat /\ KeySize[1] \in Nat
      BY <1>2, FieldsOpen, Sizes DEF Level
    <2> QED
      BY <1>3, <2>1 DEF Clamped
  <1>5. PICK w : w = Used[2]
    OBVIOUS
  <1>6. /\ AreMaps(map') /\ FieldsOK(UsedOf(map'), KeysOf(map'), ValuesOf(map'), HeadsOf(map'), LinksOf(map'))
        /\ HeadsOf(map')[2] = HeadsOf(map)[2]
        /\ Merged(KeysOf(map), w, n, KeysOf(map')[2]) /\ Merged(ValuesOf(map), w, n, ValuesOf(map')[2])
    <2>1. FieldsOK(UsedOf(map), KeysOf(map), ValuesOf(map), HeadsOf(map), LinksOf(map))
      BY <1>2 DEF Used, Keys, Values, Heads, Links
    <2>2. CopyMap(map, n, map') /\ w = UsedOf(map)[2]
      BY <1>1, <1>3, <1>5 DEF Used
    <2> QED
      BY <1>2, <1>4, <2>1, <2>2, CopyFields
  <1>7. /\ AreMaps(map)' /\ FieldsOK(Used, Keys, Values, Heads, Links)' /\ Heads'[2] = Heads[2]
        /\ Merged(Keys, w, n, Keys'[2]) /\ Merged(Values, w, n, Values'[2])
    BY <1>6 DEF Used, Keys, Values, Heads, Links
  <1>8. Shape' /\ Row' = Row /\ Multi' = Multi /\ CSize(row)' = CSize(row) /\ ColsOf(row)' = ColsOf(row)
    <2>1. LaneType(lane)'
      BY <1>1, <1>2
    <2> QED
      BY <1>1, <1>2, <1>7, <2>1, ShapeKeeps
  <1>9. Phases'
    <2>1. row <= Len(rows) /\ lane = [k \in Cols |-> Idle] /\ (held => Multi)
      BY <1>1 DEF IInv, Phases
    <2> QED
      BY <1>1, <1>8, <2>1 DEF Phases
  <1>10. Clean'
    <2>1. Heads[2] = Unlinked(2)
      BY <1>1 DEF IInv, Clean
    <2> QED
      BY <1>7, <2>1 DEF Clean
  <1>11. RowCorrect'
    <2>1. PICK K, V : K = Keys'[2] /\ V = Values'[2]
      OBVIOUS
    <2>2. Merged(Keys, w, n, K) /\ Merged(Values, w, n, V)
      BY <1>7, <2>1
    <2>3. ph \in {"reset", "copy"}
      BY <1>1
    <2>4. RowWritten'
      BY <1>1, <1>3, <1>5, <2>1, <2>2, <2>3, WrittenNow
    <2> QED
      BY <2>4, RowCorrectNext
  <1> QED
    BY <1>1, <1>8, <1>9, <1>10, <1>11 DEF IInv

-----------------------------------------------------------------------------
LEMMA IInvInit == Init => IInv
  <1> SUFFICES ASSUME Init PROVE IInv
    OBVIOUS
  <1>1. /\ exec \in Execs /\ rows \in Problems /\ (\A r \in DOMAIN rows : CSize(r) <= KeySize[2])
        /\ row = 1 /\ ph = "row" /\ ii = 0 /\ held = FALSE /\ dirty = <<>> /\ lane = [k \in Cols |-> Idle]
        /\ map = [l \in Level |-> [begins |-> Unlinked(l),
                                   nexts |-> [s \in SlotsOf(l) |-> IF l = 1 THEN 0 ELSE Nil],
                                   keys |-> [s \in SlotsOf(l) |-> Nil],
                                   values |-> [s \in SlotsOf(l) |-> 0],
                                   used |-> 0]]
    BY DEF Init
  <1>2. \A l \in Level : /\ map[l].begins = Unlinked(l) /\ map[l].nexts = [s \in SlotsOf(l) |-> IF l = 1 THEN 0 ELSE Nil]
                         /\ map[l].keys = [s \in SlotsOf(l) |-> Nil] /\ map[l].values = [s \in SlotsOf(l) |-> 0]
                         /\ map[l].used = 0
    BY <1>1
  <1>3. AreMaps(map)
    <2>1. map = [l \in Level |-> map[l]]
      BY <1>1
    <2>2. \A l \in Level : \E b, n, k, v, z : map[l] = Fields(b, n, k, v, z)
      BY <1>1 DEF Fields
    <2> QED
      BY <2>1, <2>2, FieldsMake
  <1>4. FieldsOK(Used, Keys, Values, Heads, Links)
    <2>1. Used = [l \in Level |-> Used[l]] /\ Used[1] = 0 /\ Used[2] = 0
      BY <1>2 DEF Used, UsedOf, Level
    <2>2. \A l \in Level : Keys[l] \in [SlotsOf(l) -> Cols \union {Nil}] /\ Values[l] \in [SlotsOf(l) -> Int]
      <3> TAKE l \in Level
      <3>1. Keys[l] = [s \in SlotsOf(l) |-> Nil] /\ Values[l] = [s \in SlotsOf(l) |-> 0]
        BY <1>2, FieldsNow
      <3> QED
        BY <3>1
    <2>3. \A l \in Level : 0 \in SlotsOf(l)
      BY Sizes
    <2>4. \A l \in Level : /\ Heads[l] \in [0 .. HashSize[l] - 1 -> SlotsOf(l) \union {Nil}]
                           /\ Links[l] \in [SlotsOf(l) -> SlotsOf(l) \union {Nil}]
      <3> TAKE l \in Level
      <3>1. Heads[l] = [h \in 0 .. HashSize[l] - 1 |-> Nil] /\ Links[l] = [s \in SlotsOf(l) |-> IF l = 1 THEN 0 ELSE Nil]
        BY <1>2, FieldsNow DEF Unlinked
      <3>2. 0 \in SlotsOf(l)
        BY <2>3
      <3> QED
        BY <3>1, <3>2
    <2>5. Used \in [Level -> Nat]
      <3>1. \A l \in Level : Used[l] \in Nat
        BY <2>1 DEF Level
      <3> QED
        BY <2>1, <3>1
    <2> QED
      BY <2>2, <2>4, <2>5 DEF FieldsOK
  <1>5. LaneType(lane)
    BY <1>1, IdleMade
  <1>6. row \in 1 .. Len(rows) + 1
    <2>1. rows \in Seq(Seq(SUBSET Cols))
      BY <1>1, ProblemAssumption
    <2>2. Len(rows) \in Nat
      BY <2>1
    <2> QED
      BY <1>1, <2>2
  <1>7. Shape
    <2>1. dirty \in Seq(0 .. HashSize[2] - 1)
      BY <1>1
    <2> QED
      BY <1>1, <1>3, <1>4, <1>5, <1>6, <2>1 DEF Shape, Fitting
  <1>8. Phases
    BY <1>1 DEF Phases
  <1>9. Clean
    BY <1>2, FieldsNow DEF Clean, Level
  <1>10. RowCorrect
    BY <1>1, RowCorrectIs
  <1> QED
    BY <1>1, <1>7, <1>8, <1>9, <1>10 DEF IInv

LEMMA IInvNext ==
  ASSUME IInv, [Next]_vars
  PROVE  IInv'
  <1>1. CASE UNCHANGED vars
    BY <1>1, StutterKeeps
  <1>2. CASE StartRow
    BY <1>2, StartRowKeeps
  <1>3. CASE NextEntry
    BY <1>3, NextEntryKeeps
  <1>4. CASE EntryDone
    BY <1>4, EntryDoneKeeps
  <1>5. ASSUME NEW k \in Cols, Lane(k) PROVE IInv'
    <2>1. CASE ReadHead(k)
      BY <2>1, ReadHeadKeeps
    <2>2. CASE WalkOn(k)
      BY <2>2, WalkOnKeeps
    <2>3. CASE Found(k)
      BY <2>3, FoundKeeps
    <2>4. CASE Accumulate(k)
      BY <2>4, AccumulateKeeps
    <2>5. CASE NotFound(k)
      BY <2>5, NotFoundKeeps
    <2>6. CASE CheckUsed(k)
      BY <2>6, CheckKeeps
    <2>7. CASE Reserve(k)
      BY <2>7, ReserveKeeps
    <2>8. CASE WriteSlot(k)
      BY <2>8, WriteSlotKeeps
    <2>9. CASE LinkSlot(k)
      BY <2>9, LinkSlotKeeps
    <2>10. CASE ExchangeHead(k)
      BY <2>10, ExchangeHeadKeeps
    <2>11. CASE TrackHash(k)
      BY <2>11, TrackHashKeeps
    <2>12. CASE SetNext(k)
      BY <2>12, SetNextKeeps
    <2> QED
      BY <1>5, <2>1, <2>2, <2>3, <2>4, <2>5, <2>6, <2>7, <2>8, <2>9, <2>10, <2>11, <2>12 DEF Lane
  <1>6. ASSUME NEW k \in Cols, InsertSequentially(k) PROVE IInv'
    BY <1>6, InsertKeeps
  <1>7. CASE ResetBegins
    BY <1>7, ResetBeginsKeeps
  <1>8. CASE ReleaseChunk
    BY <1>8, ReleaseChunkKeeps
  <1>9. CASE CopyFirstLevel
    BY <1>9, CopyFirstLevelKeeps
  <1>10. CASE NextRow
    BY <1>10, NextRowKeeps
  <1>11. CASE Terminated
    BY <1>1, <1>11 DEF Terminated
  <1> QED
    BY <1>1, <1>2, <1>3, <1>4, <1>5, <1>6, <1>7, <1>8, <1>9, <1>10, <1>11 DEF Next

\* The invariant holds in every state, however the lanes advance.
THEOREM Invariance == Spec => []IInv
  BY IInvInit, IInvNext, PTL DEF Spec

LEMMA TypeOKFromIInv == IInv => TypeOK
  <1> SUFFICES ASSUME IInv PROVE TypeOK
    OBVIOUS
  <1>1. /\ exec \in Execs /\ rows \in Problems /\ row \in 1 .. Len(rows) + 1
        /\ ph \in {"row", "entries", "lanes", "reset", "copy", "written"}
        /\ ii \in Nat /\ held \in BOOLEAN /\ dirty \in Seq(0 .. HashSize[2] - 1)
    BY DEF IInv, Shape, Fitting
  <1>2. FieldsOK(Used, Keys, Values, Heads, Links) /\ LaneType(lane)
    BY DEF IInv, Shape
  <1>3. \A l \in Level :
          /\ map[l].begins \in [0 .. HashSize[l] - 1 -> SlotsOf(l) \union {Nil}]
          /\ map[l].nexts \in [SlotsOf(l) -> SlotsOf(l) \union {Nil}]
          /\ map[l].keys \in [SlotsOf(l) -> Cols \union {Nil}]
          /\ map[l].values \in [SlotsOf(l) -> Int]
          /\ map[l].used \in Nat
    BY <1>2, FieldsNow DEF FieldsOK
  <1>4. lane \in [Cols -> [pc : {"idle", "done"} \union DOMAIN Order, lvl : Level,
                           at : SlotsOf(1) \union SlotsOf(2) \union {Nil}, my : Nat \union {Nil}, tmp : Int]]
    <2>1. Slots \subseteq Nat \union {Nil}
      BY Sizes DEF Slots, Level
    <2>2. DOMAIN lane = Cols /\ lane = [k \in Cols |-> lane[k]]
      BY <1>2 DEF LaneType
    <2>3. \A k \in Cols : lane[k] \in [pc : Pcs, lvl : Level, at : Slots, my : Nat \union {Nil}, tmp : Int]
      <3> TAKE k \in Cols
      <3>1. PICK pc \in Pcs, l \in Level, at \in Slots, my \in Slots, tmp \in Int :
              lane[k] = [pc |-> pc, lvl |-> l, at |-> at, my |-> my, tmp |-> tmp]
        BY <1>2, LaneOpened
      <3>2. my \in Nat \union {Nil}
        BY <2>1
      <3> QED
        BY <3>1, <3>2
    <2>4. lane \in [Cols -> [pc : Pcs, lvl : Level, at : Slots, my : Nat \union {Nil}, tmp : Int]]
      BY <2>2, <2>3
    <2> QED
      BY <2>4 DEF Pcs, Slots
  <1>5. ASSUME NEW k \in Cols PROVE lane[k].my \in SlotsOf(lane[k].lvl) \union {Nil}
    <2>1. CASE ph = "lanes"
      <3>1. LaneOK(exec, Inserting, held, Used, Keys, Values, lane, k)
        BY <2>1 DEF IInv, Working, Core
      <3>2. lane[k].my # Nil => lane[k].my \in Taken(Used, lane[k].lvl)
        BY <3>1 DEF LaneOK
      <3> QED
        BY <3>2 DEF Taken
    <2>2. CASE ph # "lanes"
      BY <2>2, IdleNow
    <2> QED
      BY <2>1, <2>2
  <1> QED
    BY <1>1, <1>3, <1>4, <1>5 DEF TypeOK

\* All state of the thread keeps its type; the slot a lane has is one of its level.
THEOREM TypeCorrect == Spec => []TypeOK
  BY Invariance, TypeOKFromIInv, PTL

\* A written row has each of its columns once, with the sum of its products, whichever
\* lanes found, added or linked what (kkmem.hpp:513-544).
THEOREM RowsAreCorrect == Spec => []RowCorrect
  <1>1. IInv => RowCorrect
    BY DEF IInv
  <1> QED
    BY <1>1, Invariance, PTL

LEMMA KeyAheadFromIInv == IInv => KeyAhead
  <1> SUFFICES ASSUME IInv, NEW k \in Cols, lane[k].pc = "walk", NEW s \in SlotsOf(lane[k].lvl),
                      s < M(k).used, M(k).keys[s] = k,
                      \A j \in Cols : lane[j].my = s => lane[j].lvl # lane[k].lvl
               PROVE  s \in Ahead(M(k), lane[k].at)
    BY DEF KeyAhead
  <1>1. ph = "lanes"
    <2>1. ph # "lanes" => lane[k].pc = "idle"
      BY IdleNow
    <2> QED
      BY <2>1
  <1>2. Working(exec, ColsOf(row), Inserting, Row, Before, Entry, held, dirty, Used, Keys, Values, Heads, Links, lane)
    BY <1>1 DEF IInv
  <1>3. Fixed(exec, ColsOf(row), Inserting, Row, Before, Entry, held)
    BY <1>1, FixedNow
  <1>4. LaneOK(exec, Inserting, held, Used, Keys, Values, lane, k) /\ lane[k].lvl \in Level
    BY <1>2, <1>3, LaneIn
  <1>5. exec \in {"independent", "lockstep"}
    <2>1. exec \in Execs
      BY DEF IInv, Shape
    <2>2. exec # "multicore"
      BY <1>4 DEF LaneOK
    <2> QED
      BY <2>1, <2>2 DEF Execs
  <1>6. PICK l \in Level : l = lane[k].lvl
    BY <1>4
  <1>7. /\ Used[l] = M(k).used /\ Keys[l] = M(k).keys /\ Links[l] = M(k).nexts
    BY <1>6, FieldsNow DEF M
  <1>8. s \in Old(Used, lane, l)
    BY <1>6, <1>7 DEF Old, Taken
  <1>9. PICK n \in Nat, r \in [SlotsOf(l) -> Nat] :
          Chains(exec, l, Pushed(Used, lane, l), Old(Used, lane, l), Class(Keys, l), Heads[l], Links[l], Keys[l], lane, r, n)
    <2>1. ListsOK(exec, Used, Keys, Heads, Links, lane, l)
      BY <1>2 DEF Working, Level
    <2> QED
      BY <2>1 DEF ListsOK
  <1>10. PICK P, O, c, K, N : /\ P = Pushed(Used, lane, l) /\ O = Old(Used, lane, l) /\ c = Class(Keys, l)
                              /\ K = Keys[l] /\ N = Links[l]
    OBVIOUS
  <1>11. \A y \in P : Reaches(P, O, c, r, c[y], r[y], N[y])
    BY <1>2, <1>3, <1>5, <1>6, <1>9, <1>10, WalkAt
  <1>12. PICK h : h = Hash(k, HashSize[l])
    OBVIOUS
  <1>13. SoughtAt(P, O, c, r, n, h, K, k, lane[k].at) /\ Ranked(P, r, n)
    <2>1. Chains(exec, l, P, O, c, Heads[l], N, K, lane, r, n)
      BY <1>9, <1>10
    <2>2. LaneListed(exec, l, P, O, c, N, K, lane, r, n, k) /\ Ranked(P, r, n)
      BY <2>1 DEF Chains
    <2> QED
      BY <1>6, <1>12, <2>2 DEF LaneListed
  <1>14. PICK m : m = M(k)
    OBVIOUS
  <1>15. m.nexts = N /\ DOMAIN m.nexts = SlotsOf(l)
    <2>1. Links[l] \in [SlotsOf(l) -> SlotsOf(l) \union {Nil}]
      BY ShapeOpen DEF FieldsOK
    <2> QED
      BY <1>7, <1>10, <1>14, <2>1
  <1>16. P \subseteq DOMAIN m.nexts /\ O \subseteq P /\ \A y \in P : r[y] \in Nat
    BY <1>10, <1>15, SlotSets
  <1>17. s \in O /\ K[s] = k /\ c[s] = h
    <2>1. s \in O /\ K[s] = k
      BY <1>7, <1>8, <1>10
    <2>2. s \in SlotsOf(l)
      BY <1>6
    <2>3. c[s] = h
      BY <1>10, <1>12, <2>1, <2>2 DEF Class
    <2> QED
      BY <2>1, <2>3
  <1>18. \A y \in P : Reaches(P, O, c, r, c[y], r[y], m.nexts[y])
    BY <1>11, <1>15
  <1>19. s \in Ahead(m, lane[k].at)
    BY <1>13, <1>16, <1>17, <1>18, SoughtAhead
  <1> QED
    BY <1>14, <1>19

\* A lane that looks for a key that is in the map finds it from where it stands, while
\* other lanes put slots in front (HashmapAccumulator.hpp:413-418).
THEOREM KeysAreAhead == Spec => []KeyAhead
  BY Invariance, KeyAheadFromIInv, PTL

-----------------------------------------------------------------------------
(***************************************************************************)
(* The refinement: the start of a row takes the chunk when the thread has  *)
(* none, its release returns it.  In between all changes to the lists are  *)
(* the thread's own work.                                                  *)
(***************************************************************************)
LEMMA InitLends == Init => Lending!Init
  <1> SUFFICES ASSUME Init PROVE Lending!Init
    OBVIOUS
  <1>1. held = FALSE
    BY DEF Init
  <1>2. IInv /\ ph = "row"
    BY IInvInit DEF Init
  <1>3. map[2].begins = Unlinked(2)
    BY <1>2, FieldsNow DEF IInv, Clean, Level
  <1>4. lentTo = [t \in {1} |-> 0] /\ soiledChunks = {}
    BY <1>1, <1>3 DEF lentTo, soiledChunks
  <1> QED
    BY <1>4 DEF Lending!Init

\* without a chunk no list is in it
LEMMA NotSoiled ==
  ASSUME IInv, ~ held \/ ph \in {"row", "reset", "copy", "written"}
  PROVE  soiledChunks = {}
  <1>1. map[2].begins = Unlinked(2)
    BY FieldsNow DEF IInv, Clean, Level
  <1> QED
    BY <1>1 DEF soiledChunks

LEMMA NextLends ==
  ASSUME IInv, IInv', [Next]_vars
  PROVE  Lending!Next \/ UNCHANGED <<lentTo, soiledChunks>>
  <1>1. held \in BOOLEAN /\ held' \in BOOLEAN
    BY DEF IInv, Shape
  <1>2. soiledChunks \in {{}, {1}} /\ soiledChunks' \in {{}, {1}}
    BY DEF soiledChunks
  <1>3. /\ ~ held => lentTo = [t \in {1} |-> 0] /\ soiledChunks = {}
        /\ held => lentTo = [t \in {1} |-> 1]
        /\ ~ held' => lentTo' = [t \in {1} |-> 0]
        /\ held' => lentTo' = [t \in {1} |-> 1]
    BY NotSoiled DEF lentTo
  <1>4. ~ held' => soiledChunks' = {}
    <2>1. ~ held' => Heads'[2] = Unlinked(2)
      BY DEF IInv, Clean
    <2>2. Heads'[2] = map'[2].begins
      BY DEF Heads, HeadsOf, Level
    <2> QED
      BY <2>1, <2>2 DEF soiledChunks
  <1>5. CASE ~ held /\ ~ held'
    BY <1>3, <1>4, <1>5
  <1>6. CASE held /\ held'
    <2>1. lentTo[1] = 1 /\ UNCHANGED lentTo
      BY <1>3, <1>6
    <2>2. soiledChunks' \in {soiledChunks \union {1}, soiledChunks \ {1}}
      BY <1>2
    <2>3. Lending!Work(1)
      BY <2>1, <2>2 DEF Lending!Work
    <2> QED
      BY <2>3 DEF Lending!Next
  <1>7. CASE ~ held /\ held'
    <2>1. StartRow
      <3>1. held' # held
        BY <1>7, Zenon
      <3>2. StartRow \/ ReleaseChunk
        BY <3>1, <1>7, Zenon DEF Next, vars, Lane, NextEntry, EntryDone, ReadHead, WalkOn, Found, Accumulate, NotFound, CheckUsed,
              Reserve, WriteSlot, LinkSlot, ExchangeHead, TrackHash, SetNext, InsertSequentially, ResetBegins,
              CopyFirstLevel, NextRow, Terminated
      <3>3. ASSUME ReleaseChunk PROVE FALSE
        <4>1. ph = "reset" /\ (held' => Multi)
          BY <3>3 DEF ReleaseChunk, Multi
        <4>2. Multi
          BY <4>1, <1>7
        <4>3. held
          BY <4>1, <4>2 DEF IInv, Phases
        <4> QED
          BY <4>3, <1>7
      <3> QED
        BY <3>2, <3>3
    <2>2. soiledChunks = {} /\ soiledChunks' = {}
      <3>1. ph' = "entries" /\ map'[2].begins = map[2].begins
        <4>1. StartMap(map, map') /\ ph' = "entries" /\ ph = "row"
          BY <2>1 DEF StartRow, StartMap
        <4>2. AreMaps(map)
          BY ShapeOpen
        <4>3. PICK b, c, v : b = Unlinked(1) /\ c = [s \in SlotsOf(2) |-> Nil] /\ v = [s \in SlotsOf(2) |-> 0]
          OBVIOUS
        <4>4. map' = [map EXCEPT ![1].begins = b, ![1].used = 0, ![2].used = 0, ![2].keys = c, ![2].values = v]
          BY <4>1, <4>3 DEF StartMap
        <4>5. MapsAre(map', b, map[1].nexts, map[1].keys, map[1].values, 0, map[2].begins, map[2].nexts, c, v, 0)
          BY <4>2, <4>4, StartMaps, Zenon
        <4>6. HeadsOf(map')[2] = map[2].begins
          BY <4>5, MapsFields
        <4> QED
          BY <4>1, <4>6 DEF HeadsOf, Level
      <3> QED
        BY <1>3, <1>7, <3>1 DEF soiledChunks
    <2>3. lentTo[1] = 0 /\ lentTo' = [lentTo EXCEPT ![1] = 1] /\ \A u \in {1} : lentTo[u] # 1
      BY <1>3, <1>7
    <2>4. Lending!Take(1)
      BY <2>2, <2>3 DEF Lending!Take
    <2> QED
      BY <2>4 DEF Lending!Next
  <1>8. CASE held /\ ~ held'
    <2>1. StartRow \/ ReleaseChunk
      <3>1. held' # held
        BY <1>8, Zenon
      <3> QED
        BY <3>1, <1>8, Zenon DEF Next, vars, Lane, NextEntry, EntryDone, ReadHead, WalkOn, Found, Accumulate, NotFound, CheckUsed,
              Reserve, WriteSlot, LinkSlot, ExchangeHead, TrackHash, SetNext, InsertSequentially, ResetBegins, ReleaseChunk,
              CopyFirstLevel, NextRow, Terminated
    <2>2. soiledChunks = {} /\ soiledChunks' = {}
      <3>1. ph \in {"row", "reset"}
        BY <2>1 DEF StartRow, ReleaseChunk
      <3> QED
        BY <1>4, <1>8, <3>1, NotSoiled
    <2>3. lentTo[1] = 1 /\ lentTo' = [lentTo EXCEPT ![1] = 0]
      BY <1>3, <1>8
    <2>4. Lending!Return(1)
      BY <2>2, <2>3 DEF Lending!Return
    <2> QED
      BY <2>4, Zenon DEF Lending!Next
  <1> QED
    BY <1>1, <1>5, <1>6, <1>7, <1>8

\* The thread writes lists only to a chunk it has, and gives it back with every head
\* reset (kkmem.hpp:523-532).
THEOREM ChunksGoBackClean == Spec => ReturnsCleanChunk
  <1>1. IInv /\ IInv' /\ [Next]_vars => [Lending!Next]_<<lentTo, soiledChunks>>
    BY NextLends
  <1> QED
    BY <1>1, InitLends, Invariance, PTL DEF Spec, ReturnsCleanChunk, Lending!Spec
=============================================================================

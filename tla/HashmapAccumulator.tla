------------------------- MODULE HashmapAccumulator -------------------------
(***************************************************************************)
(* common/src/KokkosKernels_HashmapAccumulator.hpp: a hash map over arrays *)
(* that belong to its caller.  Slots are handed out in order; hash_nexts   *)
(* links the slots whose keys have the same hash, hash_begins holds the    *)
(* heads.  A slot has no state of its own: what was in it before, from     *)
(* another row or from uninitialised memory, stays until it is written.    *)
(*                                                                         *)
(* A map is a record  [begins, nexts, keys, values, used]; used is the     *)
(* caller's used_size counter.                                             *)
(***************************************************************************)
EXTENDS Integers, FiniteSets

Nil == -1

(***************************************************************************)
(* __compute_hash with HashOpType::bitwiseAnd: the mask is one less than a *)
(* power of two, so the operation is the remainder.                        *)
(***************************************************************************)
Hash(key, size) == key % size

\* the slots a walk that stands at i can still visit: those in every set that has
\* i and is closed under the links
Closed(m, S) == \A s \in S : m.nexts[s] \in S \union {Nil}
Ahead(m, i) == {s \in DOMAIN m.nexts :
                  \A S \in SUBSET DOMAIN m.nexts : i \in S \union {Nil} /\ Closed(m, S) => s \in S}

(***************************************************************************)
(* sequential_insert_into_hash_mergeAdd_TrackHashes, for one caller at a   *)
(* time: no capacity check.  The map it leaves.                            *)
(***************************************************************************)
SequentialInsert(m, key, value, size) ==
  LET h == Hash(key, size)
      at == {i \in Ahead(m, m.begins[h]) : m.keys[i] = key}
  IN  IF at # {} THEN [m EXCEPT !.values = [i \in DOMAIN @ |-> IF i \in at THEN @[i] + value ELSE @[i]]]
      ELSE [m EXCEPT !.used = @ + 1,
                     !.nexts[m.used] = m.begins[h],
                     !.begins[h] = m.used,
                     !.keys[m.used] = key,
                     !.values[m.used] = value]
=============================================================================

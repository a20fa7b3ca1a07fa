-------------------------- MODULE SpgemmTeamNumeric --------------------------
(***************************************************************************)
(* sparse/impl/KokkosSparse_spgemm_impl_kkmem.hpp: the numeric kernels     *)
(* that use open addressing, on the rows of C of one team.                 *)
(*                                                                         *)
(* GPUTag6 (BigSpread): all lanes of the team insert the products of one   *)
(* row at once, in any order, so that two lanes may insert the same column *)
(* at once.  A table in shared memory takes them until it is as full as    *)
(* the cut off allows; a lane that has seen that no longer adds columns to *)
(* it and uses the table in a chunk of the pool.  The tables are merged.   *)
(* GPUTag4 (Spread): the first table only, for matrices whose rows fit.    *)
(* MultiCoreTag4 (LP): one host thread, the table in its chunk.            *)
(*                                                                         *)
(* keys is a plain array that other lanes change, and one trial names      *)
(* keys[trial] twice with no write between: the data race has the outcomes *)
(* of a build that loads it once and of one that loads it twice.           *)
(***************************************************************************)
EXTENDS Integers, Sequences, FiniteSets, FiniteSetsExt

CONSTANTS
  Problems,    \* sequences of rows: a row is the sequence of its products, each
               \* with the column it is for and the entry of A it is of
  Val,         \* what an entry of A contributes to its products
  Cols,        \* column numbers
  Lanes,       \* 0 .. bs - 1, the lanes of the team
  TableSize,   \* TableSize[1]: team_cuckoo_key_size, TableSize[2]: pow2_hash_size
  MaxFirst     \* max_first_level_hash_size

ASSUME ColsAssumption == Cols \subseteq Nat
ASSUME LanesAssumption == IsFiniteSet(Lanes) /\ Lanes # {} /\ Lanes = 0 .. Cardinality(Lanes) - 1
ASSUME SizeAssumption == TableSize \in [{1, 2} -> Nat \ {0}] /\ MaxFirst \in 0 .. TableSize[1]
ASSUME ValAssumption == Val \in [DOMAIN Val -> Int]
ASSUME ProblemAssumption == Problems \subseteq Seq(Seq(Cols \X DOMAIN Val))

VARIABLES
  tag,     \* the kernel
  loads,   \* loads of keys[trial] per trial in this build
  rows,    \* the rows of A this team works on
  row,     \* the row in work
  ph,      \* between which barriers the team is
  held,    \* is a chunk of the pool allocated?
  table,   \* table[1]: keys and vals, table[2]: global_acc_row_keys and _vals
  used,    \* used_hash_sizes[0]
  tracked, \* LP: used_indices
  crow,    \* the row of C as far as it is written
  lane

kernel == <<tag, loads, rows, row>>
vars == <<tag, loads, rows, row, ph, held, table, used, tracked, crow, lane>>

Tags == {"BigSpread", "Spread", "LP"}
init_value == -1

SlotsOf(t) == 0 .. TableSize[t] - 1
Empty(t) == [s \in SlotsOf(t) |-> init_value]
Zeros(t) == [s \in SlotsOf(t) |-> 0]

\* (key * HASHSCALAR) & mask, for a size that is a power of two
Hash(k, t) == (k * 107) % TableSize[t]

Flops == Len(rows[row])

ColsOf(r) == {rows[r][n][1] : n \in DOMAIN rows[r]}
CSize(r) == Cardinality(ColsOf(r))

(***************************************************************************)
(* A lane: its next product, may it add columns to the first table, where  *)
(* it probes and what it loaded.                                           *)
(***************************************************************************)
Fresh(l) == [pc |-> "take", n |-> l + 1, insert_is_on |-> TRUE, t |-> 1, trial |-> 0, seen |-> init_value, new |-> FALSE]

Init ==
  /\ tag \in Tags /\ loads \in {1, 2} /\ (tag = "LP" => loads = 1)
  /\ rows \in Problems
  \* SPREADTEAM is chosen when no row is larger than the cut off allows
  /\ tag = "Spread" => \A r \in DOMAIN rows : CSize(r) < TableSize[1]
  \* the size of the second table is that of the largest row, rounded up (1326-1344)
  /\ tag # "Spread" => \A r \in DOMAIN rows : CSize(r) <= TableSize[2]
  /\ row = 1 /\ ph = "row" /\ held = FALSE
  /\ table = [t \in {1, 2} |-> [keys |-> Empty(t), vals |-> Zeros(t)]]
  /\ used = 0 /\ tracked = <<>> /\ crow = <<>>
  /\ lane = [l \in Lanes |-> Fresh(l)]

-----------------------------------------------------------------------------
(***************************************************************************)
(* The start of a row, between two barriers of the team: the chunk and its *)
(* values, the first table, the counters.  A row of A without entries is   *)
(* skipped.  The host has had its chunk since before its first row.        *)
(***************************************************************************)
SkipRow ==
  /\ ph = "row" /\ row <= Len(rows)
  /\ tag # "LP" /\ Flops = 0
  /\ row' = row + 1
  /\ UNCHANGED <<tag, loads, rows, ph, held, table, used, tracked, crow, lane>>

NeedsChunk == tag = "LP" \/ (tag = "BigSpread" /\ CSize(row) > MaxFirst)

StartRow ==
  /\ ph = "row" /\ row <= Len(rows)
  /\ tag = "LP" \/ Flops > 0
  /\ held' = NeedsChunk
  /\ table' = IF tag = "LP" THEN table
              ELSE [table EXCEPT ![1] = [keys |-> Empty(1), vals |-> Zeros(1)],
                                 ![2].vals = IF NeedsChunk THEN Zeros(2) ELSE @]
  /\ used' = 0 /\ tracked' = <<>> /\ crow' = <<>>
  /\ lane' = [l \in Lanes |-> Fresh(l)]
  /\ ph' = "insert"
  /\ UNCHANGED kernel

-----------------------------------------------------------------------------
Key(l) == rows[row][lane[l].n][1]
Product(l) == Val[rows[row][lane[l].n][2]]
Slot(l) == (Hash(Key(l), lane[l].t) + lane[l].trial) % TableSize[lane[l].t]
KeyAt(l) == table[lane[l].t].keys[Slot(l)]

At(l, pc) == tag # "LP" /\ ph = "insert" /\ lane[l].pc = pc
Goto(l, r) == lane' = [lane EXCEPT ![l] = r]

\* the next product of the lane is bs products further on
NextProduct(l) == [lane[l] EXCEPT !.pc = "take", !.n = @ + Cardinality(Lanes)]

Take(l) ==
  /\ At(l, "take")
  /\ Goto(l, IF lane[l].n > Flops THEN [lane[l] EXCEPT !.pc = "out"]
             ELSE [lane[l] EXCEPT !.pc = "probe", !.t = 1, !.trial = 0])
  /\ UNCHANGED <<kernel, ph, held, table, used, tracked, crow>>

\* the second table, and when there is none, or no slot in it, nothing
OtherTable(l) == IF lane[l].t = 1 /\ tag = "BigSpread"
                 THEN [lane[l] EXCEPT !.pc = "probe", !.t = 2, !.trial = 0]
                 ELSE NextProduct(l)

\* keys[trial] == my_b_col
Probe(l) ==
  /\ At(l, "probe")
  /\ Goto(l, IF KeyAt(l) = Key(l) THEN [lane[l] EXCEPT !.pc = "add", !.new = FALSE]
             ELSE [lane[l] EXCEPT !.pc = "second", !.seen = KeyAt(l)])
  /\ UNCHANGED <<kernel, ph, held, table, used, tracked, crow>>

\* keys[trial] == init_value, and ++trial, over the end to the start
SecondLook(l) ==
  /\ At(l, "second")
  /\ LET key == IF loads = 2 THEN KeyAt(l) ELSE lane[l].seen
         mayAdd == lane[l].t = 2 \/ lane[l].insert_is_on
         more == lane[l].trial + 1 < TableSize[lane[l].t]
     IN  \/ /\ key = init_value /\ mayAdd
            /\ Goto(l, [lane[l] EXCEPT !.pc = "exchange"])
         \/ /\ key # init_value /\ more
            /\ Goto(l, [lane[l] EXCEPT !.pc = "probe", !.trial = @ + 1])
         \/ /\ IF key = init_value THEN ~ mayAdd ELSE ~ more
            /\ Goto(l, OtherTable(l))
  /\ UNCHANGED <<kernel, ph, held, table, used, tracked, crow>>

\* the compare-exchange; a lane that loses it looks at the same slot again
Exchange(l) ==
  /\ At(l, "exchange")
  /\ IF KeyAt(l) = init_value
     THEN /\ table' = [table EXCEPT ![lane[l].t].keys[Slot(l)] = Key(l)]
          /\ Goto(l, [lane[l] EXCEPT !.pc = "add", !.new = TRUE])
     ELSE /\ Goto(l, [lane[l] EXCEPT !.pc = "probe"])
          /\ UNCHANGED table
  /\ UNCHANGED <<kernel, ph, held, used, tracked, crow>>

\* atomic_add; GPUTag6 counts the columns it adds to the first table
AtomicAdd(l) ==
  /\ At(l, "add")
  /\ table' = [table EXCEPT ![lane[l].t].vals[Slot(l)] = @ + Product(l)]
  /\ Goto(l, IF tag = "BigSpread" /\ lane[l].new /\ lane[l].t = 1
             THEN [lane[l] EXCEPT !.pc = "count"] ELSE NextProduct(l))
  /\ UNCHANGED <<kernel, ph, held, used, tracked, crow>>

Count(l) ==
  /\ At(l, "count")
  /\ used' = used + 1
  /\ Goto(l, [lane[l] EXCEPT !.pc = "look"])
  /\ UNCHANGED <<kernel, ph, held, table, tracked, crow>>

\* the counter as all lanes have left it; the decision is the lane's own
Look(l) ==
  /\ At(l, "look")
  /\ Goto(l, [NextProduct(l) EXCEPT !.insert_is_on = @ /\ used <= MaxFirst])
  /\ UNCHANGED <<kernel, ph, held, table, used, tracked, crow>>

Lane(l) == \/ Take(l) \/ Probe(l) \/ SecondLook(l) \/ Exchange(l)
           \/ AtomicAdd(l) \/ Count(l) \/ Look(l)

-----------------------------------------------------------------------------
\* the slot at which a probe for k ends: k, or nothing
ProbeEnds(k, t) ==
  LET at(n) == (Hash(k, t) + n) % TableSize[t]
      n == CHOOSE n \in SlotsOf(t) : /\ table[t].keys[at(n)] \in {k, init_value}
                                     /\ \A m \in 0 .. n - 1 : table[t].keys[at(m)] \notin {k, init_value}
  IN  at(n)

\* MultiCoreTag4: product after product, each new slot noted in used_indices
InsertProbing ==
  /\ tag = "LP" /\ ph = "insert"
  /\ lane[0].n <= Flops
  /\ LET s == ProbeEnds(Key(0), 2)
         new == table[2].keys[s] = init_value
     IN  /\ table' = [table EXCEPT ![2].keys[s] = Key(0),
                                   ![2].vals[s] = IF new THEN Product(0) ELSE @ + Product(0)]
         /\ tracked' = IF new THEN Append(tracked, s) ELSE tracked
  /\ lane' = [lane EXCEPT ![0].n = @ + 1]
  /\ UNCHANGED <<kernel, ph, held, used, crow>>

\* the barrier after the insertions
InsertDone ==
  /\ ph = "insert"
  /\ IF tag = "LP" THEN lane[0].n > Flops ELSE \A l \in Lanes : lane[l].pc = "out"
  /\ ph' = IF tag = "BigSpread" /\ held THEN "merge" ELSE "write"
  /\ UNCHANGED <<kernel, held, table, used, tracked, crow, lane>>

-----------------------------------------------------------------------------
(***************************************************************************)
(* The lanes share the slots of the second table.  A column that is in the *)
(* first table too is added to it there, any other is written to C, and    *)
(* the slot is reset.  Both searches of the first table end at its key or  *)
(* at an empty slot, and the second search follows the first in any case.  *)
(***************************************************************************)
FirstUntilEmpty(k, from, to) ==
  {s \in from .. to : /\ table[1].keys[s] = k
                      /\ \A q \in from .. s - 1 : table[1].keys[q] \notin {k, init_value}}

Unmerged == {s \in SlotsOf(2) : table[2].keys[s] # init_value}

\* no look at the first table: a column may be in both
MUT_NoMerge(s) ==
  /\ ph = "merge" /\ s \in Unmerged
  /\ crow' = Append(crow, <<table[2].keys[s], table[2].vals[s]>>)
  /\ table' = [table EXCEPT ![2].keys[s] = init_value]
  /\ UNCHANGED <<kernel, ph, held, used, tracked, lane>>

MergeSlot(s) ==
  /\ ph = "merge" /\ s \in Unmerged
  /\ LET k == table[2].keys[s]
         h == Hash(k, 1)
         at == FirstUntilEmpty(k, h, TableSize[1] - 1) \union FirstUntilEmpty(k, 0, h - 1)
     IN  /\ table' = [table EXCEPT
              ![1].vals = [q \in SlotsOf(1) |-> IF q \in at THEN @[q] + table[2].vals[s] ELSE @[q]],
              ![2].keys[s] = init_value]
         /\ crow' = IF at = {} THEN Append(crow, <<k, table[2].vals[s]>>) ELSE crow
  /\ UNCHANGED <<kernel, ph, held, used, tracked, lane>>

\* no barrier: the lane that is through releases the chunk under the others
MUT_ReleaseEarly ==
  /\ ph = "merge"
  /\ held' = FALSE
  /\ ph' = IF Unmerged = {} THEN "write" ELSE ph
  /\ UNCHANGED <<kernel, table, used, tracked, crow, lane>>

\* the barrier, then one lane releases the chunk
ReleaseChunk ==
  /\ ph = "merge" /\ Unmerged = {}
  /\ held' = FALSE
  /\ ph' = "write"
  /\ UNCHANGED <<kernel, table, used, tracked, crow, lane>>

-----------------------------------------------------------------------------
\* the device writes the first table, in the order in which the lanes take places
\* in C; here that of the slots
WriteFirst ==
  /\ ph = "write" /\ tag # "LP"
  /\ LET full == {s \in SlotsOf(1) : table[1].keys[s] # init_value}
         from(n) == CHOOSE s \in full : Cardinality({q \in full : q < s}) = n - 1
     IN  crow' = crow \o [n \in 1 .. Cardinality(full) |-> <<table[1].keys[from(n)], table[1].vals[from(n)]>>]
  /\ ph' = "written"
  /\ UNCHANGED <<kernel, held, table, used, tracked, lane>>

\* the host writes the slots it noted and resets them
WriteTracked ==
  /\ ph = "write" /\ tag = "LP"
  /\ crow' = [n \in DOMAIN tracked |-> <<table[2].keys[tracked[n]], table[2].vals[tracked[n]]>>]
  /\ table' = [table EXCEPT ![2].keys = [s \in SlotsOf(2) |->
                 IF \E n \in DOMAIN tracked : tracked[n] = s THEN init_value ELSE @[s]]]
  /\ ph' = "written"
  /\ UNCHANGED <<kernel, held, used, tracked, lane>>

\* the barrier at the start of the next row; the host keeps its chunk
NextRow ==
  /\ ph = "written"
  /\ row' = row + 1
  /\ ph' = "row"
  /\ held' = (held /\ row < Len(rows))
  /\ UNCHANGED <<tag, loads, rows, table, used, tracked, crow, lane>>

Terminated == ph = "row" /\ row > Len(rows) /\ UNCHANGED vars

Next == \/ SkipRow \/ StartRow
        \/ \E l \in Lanes : Lane(l)
        \/ InsertProbing \/ InsertDone
        \/ \E s \in SlotsOf(2) : MergeSlot(s)
        \/ ReleaseChunk \/ WriteFirst \/ WriteTracked \/ NextRow
        \/ Terminated

Spec == Init /\ [][Next]_vars

-----------------------------------------------------------------------------
\* The row of C has each of its columns once, with the sum of its products:
\* although lanes insert the same column at the same time, decide each for
\* itself when the first table is full enough, and so put one column into both
\* tables (kkmem.hpp:680-830).  A build that loads keys[trial] twice per trial
\* may pass by a slot that another lane gives its own column in between.
RowCorrect ==
  ph = "written" /\ loads = 1 =>
    /\ Len(crow) = CSize(row)
    /\ \A k \in ColsOf(row) : \E n \in DOMAIN crow :
         crow[n] = <<k, MapThenSumSet(LAMBDA m : IF rows[row][m][1] = k THEN Val[rows[row][m][2]] ELSE 0, 1 .. Flops)>>

\* The second table is only used when the team has a chunk (it would otherwise be
\* the row of C itself, kkmem.hpp:589-608), and the chunk goes back with all its
\* keys at -1 although nobody tracked them (780-823).  Of the build that loads
\* twice nothing is claimed: columns that are in the first table several times
\* count several times, and a row without a chunk may be sent to the second.
lentTo == [u \in {1} |-> IF held THEN 1 ELSE 0]
soiledChunks == IF loads = 1 /\ table[2].keys # Empty(2) THEN {1} ELSE {}
Lending == INSTANCE ChunkLending
             WITH Threads <- {1}, Chunk <- {1}, NoChunk <- 0, lent <- lentTo, soiled <- soiledChunks
ReturnsCleanChunk == Lending!Spec
=============================================================================

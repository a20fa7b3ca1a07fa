---------------------------- MODULE D1ColoringEB ----------------------------
(***************************************************************************)
(* graph/impl/KokkosGraph_Distance1Color_impl.hpp, GraphColor_EB: edge     *)
(* based colouring, distance 1.  Every kernel but two works on the edges   *)
(* src < dst of the worklist, so that nobody owns a vertex.                *)
(*                                                                         *)
(* A colour is a bit of a word and the number of the word, color_set.      *)
(* color_ban holds the bits of neighbours that are coloured for good,      *)
(* tentative_color_ban those others have in mind; a negative colour is     *)
(* tentative.  An edge whose ends can no longer clash is dropped.          *)
(*                                                                         *)
(* Here a colour is the place of its bit, and a word of bans a set.  The   *)
(* items of the two kernels that race, mark_conflicts and expand_ban,      *)
(* interleave load by load; the others are one step each.                  *)
(***************************************************************************)
EXTENDS Integers, FiniteSets

CONSTANTS
  V,         \* 0 .. nv - 1
  ColorSize, \* colours of a word: 31 of a color_t of 32 bits
  Problems   \* [adj, colors, ps_min, pps_cutoff]: symmetric graph, colours given
             \* by the caller, when to compact the worklist (per cent)

ASSUME VertexAssumption == V \subseteq Nat /\ IsFiniteSet(V)
ASSUME SizeAssumption == ColorSize \in Nat \ {0}
ASSUME ProblemAssumption ==
  \A p \in Problems :
    /\ p.adj \in [V -> SUBSET V] /\ \A u, v \in V : v \in p.adj[u] => u \in p.adj[v]
    /\ p.colors \in [V -> Nat] /\ p.ps_min \in Nat /\ p.pps_cutoff \in Nat

VARIABLES
  adj, ps_min, pps_cutoff,   \* the problem
  edges,                     \* lower_diagonal edge list
  kokcolors, color_set,
  color_ban, tentative_color_ban,
  work,                      \* edge_conflict_indices
  marker,                    \* edge_conflict_marker: those that are not dropped
  ph,                        \* the kernel in work
  pc, loc                    \* where the item of an edge is; what it has loaded

problem == <<adj, ps_min, pps_cutoff, edges>>
bans == <<color_ban, tentative_color_ban>>
items == <<pc, loc>>
vars == <<adj, ps_min, pps_cutoff, edges, kokcolors, color_set, color_ban, tentative_color_ban,
          work, marker, ph, pc, loc>>

Src(e) == e[1]
Dst(e) == e[2]
Bits == 1 .. ColorSize

\* banned_colors & (-banned_colors): the first bit that is not banned, or 0
FirstFree(banned) == IF Bits \subseteq banned THEN 0
                     ELSE CHOOSE b \in Bits \ banned : \A c \in Bits \ banned : b <= c

EdgesOf(g) == {e \in V \X V : Src(e) < Dst(e) /\ Dst(e) \in g[Src(e)]}

\* every edge starts with the same instruction, those of the worklist anyway
Launch(at) == pc' = [e \in edges |-> IF e \in work THEN at ELSE "out"]

Nothing == [src |-> 0, dst |-> 0, new |-> 0]

\* init_colors, init_work_arrays
Init ==
  /\ \E p \in Problems :
       /\ adj = p.adj /\ ps_min = p.ps_min /\ pps_cutoff = p.pps_cutoff
       /\ edges = EdgesOf(p.adj)
       /\ kokcolors = [v \in V |-> IF p.colors[v] > 0 THEN 1 + ((p.colors[v] - 1) % ColorSize) ELSE 0]
       /\ color_set = [v \in V |-> IF p.colors[v] > 0 THEN (p.colors[v] - 1) \div ColorSize ELSE 0]
  /\ color_ban = [v \in V |-> {}]
  /\ tentative_color_ban = [v \in V |-> {}]
  /\ work = edges /\ marker = edges
  /\ ph = "mark"
  /\ pc = [e \in edges |-> "src"]
  /\ loc = [e \in edges |-> Nothing]

AllOut == \A e \in edges : pc[e] = "out"
Goto(e, at) == pc' = [pc EXCEPT ![e] = at]
At(e, kernel, at) == ph = kernel /\ pc[e] = at

-----------------------------------------------------------------------------
(* halfedge_mark_conflicts *)

LoadSource(e) ==
  /\ At(e, "mark", "src")
  /\ loc' = [loc EXCEPT ![e].src = kokcolors[Src(e)]]
  /\ Goto(e, "dst")
  /\ UNCHANGED <<problem, kokcolors, color_set, bans, work, marker, ph>>

LoadDest(e) ==
  /\ At(e, "mark", "dst")
  /\ loc' = [loc EXCEPT ![e].dst = kokcolors[Dst(e)]]
  /\ Goto(e, IF /\ loc[e].src # 0 /\ loc[e].src = kokcolors[Dst(e)]
                /\ color_set[Src(e)] = color_set[Dst(e)]
             THEN "clear" ELSE "out")
  /\ UNCHANGED <<problem, kokcolors, color_set, bans, work, marker, ph>>

\* nobody reads tentative_color_ban in this kernel
ClearDest(e) ==
  /\ At(e, "mark", "clear")
  /\ kokcolors' = [kokcolors EXCEPT ![Dst(e)] = 0]
  /\ tentative_color_ban' = [tentative_color_ban EXCEPT ![Dst(e)] = {}]
  /\ Goto(e, "out")
  /\ UNCHANGED <<problem, color_set, color_ban, work, marker, ph, loc>>

Marked ==
  /\ ph = "mark" /\ AllOut
  /\ ph' = "count"
  /\ UNCHANGED <<problem, kokcolors, color_set, bans, work, marker, items>>

-----------------------------------------------------------------------------
(* halfedge_conflict_count, the end of the loop and the new worklist *)

\* an edge is dropped as soon as one of its ends has a colour
MUT_DropHalfColored ==
  /\ ph = "count"
  /\ marker' = {e \in marker : e \notin work \/ (kokcolors[Src(e)] = 0 /\ kokcolors[Dst(e)] = 0)}
  /\ ph' = "shrink"
  /\ UNCHANGED <<problem, kokcolors, color_set, bans, work, items>>

CountConflicts ==
  /\ ph = "count"
  /\ LET colored(v) == kokcolors[v] # 0
         done(e) == \/ colored(Src(e)) /\ colored(Dst(e))
                    \/ colored(Src(e)) /\ color_set[Dst(e)] > color_set[Src(e)]
                    \/ colored(Dst(e)) /\ color_set[Src(e)] > color_set[Dst(e)]
     IN  marker' = marker \ {e \in work : done(e)}
  /\ ph' = "shrink"
  /\ UNCHANGED <<problem, kokcolors, color_set, bans, work, items>>

ShrinkWorklist ==
  /\ ph = "shrink"
  /\ LET num_work_edges == Cardinality(work)
         reduction == Cardinality(work \ marker)
     IN  IF num_work_edges = reduction THEN ph' = "final" /\ UNCHANGED work
         ELSE /\ ph' = "ban"
              /\ work' = IF num_work_edges > ps_min /\ 100 * reduction > pps_cutoff * num_work_edges
                         THEN work \intersect marker ELSE work
  /\ UNCHANGED <<problem, kokcolors, color_set, bans, marker, items>>

-----------------------------------------------------------------------------
(* halfedge_ban_colors: a coloured end bans its colour at the other end. *)

BanColors ==
  /\ ph = "ban"
  /\ LET half == {e \in work : /\ color_set[Src(e)] = color_set[Dst(e)]
                               /\ (kokcolors[Src(e)] = 0) # (kokcolors[Dst(e)] = 0)}
         sent(v) == {kokcolors[u] : u \in {u \in V : <<u, v>> \in half \/ <<v, u>> \in half}}
     IN  /\ color_ban' = [v \in V |-> IF kokcolors[v] = 0 THEN color_ban[v] \union sent(v) ELSE color_ban[v]]
         /\ marker' = marker \ half
  /\ ph' = "expand"
  /\ Launch("dst")
  /\ UNCHANGED <<problem, kokcolors, color_set, tentative_color_ban, work, loc>>

-----------------------------------------------------------------------------
(* halfedge_expand_ban_for_unmatched_neighbors *)

ExpandLoadDest(e) ==
  /\ At(e, "expand", "dst")
  /\ loc' = [loc EXCEPT ![e].dst = kokcolors[Dst(e)]]
  /\ Goto(e, IF kokcolors[Dst(e)] > 0 THEN "out" ELSE "src")
  /\ UNCHANGED <<problem, kokcolors, color_set, bans, work, marker, ph>>

ExpandLoadSource(e) ==
  /\ At(e, "expand", "src")
  /\ loc' = [loc EXCEPT ![e].src = kokcolors[Src(e)]]
  /\ LET src == kokcolors[Src(e)]
         dst == loc[e].dst
     IN  Goto(e, CASE src > 0 \/ color_set[Src(e)] # color_set[Dst(e)] -> "out"
                   [] src < 0 /\ dst < 0 -> IF src = dst THEN "banDst" ELSE "out"
                   [] src < 0 /\ dst = 0 -> "banDst"
                   [] src = 0 /\ dst < 0 -> "banSrc"
                   [] src = 0 /\ dst = 0 -> "choose")
  /\ UNCHANGED <<problem, kokcolors, color_set, bans, work, marker, ph>>

\* atomic_fetch_or of the colour that the item knows of the source
BanDest(e) ==
  /\ At(e, "expand", "banDst")
  /\ tentative_color_ban' = [tentative_color_ban EXCEPT ![Dst(e)] = @ \union {- loc[e].src}]
  /\ Goto(e, IF loc[e].dst < 0 THEN "rechoose" ELSE "out")
  /\ UNCHANGED <<problem, kokcolors, color_set, color_ban, work, marker, ph, loc>>

BanSource(e) ==
  /\ At(e, "expand", "banSrc")
  /\ tentative_color_ban' = [tentative_color_ban EXCEPT ![Src(e)] = @ \union {- loc[e].dst}]
  /\ Goto(e, "out")
  /\ UNCHANGED <<problem, kokcolors, color_set, color_ban, work, marker, ph, loc>>

\* the first colour that v may have by now
Choice(v) == FirstFree(color_ban[v] \union tentative_color_ban[v])

ChooseAgain(e) ==
  /\ At(e, "expand", "rechoose")
  /\ loc' = [loc EXCEPT ![e].new = Choice(Dst(e))]
  /\ Goto(e, "storeDst")
  /\ UNCHANGED <<problem, kokcolors, color_set, bans, work, marker, ph>>

StoreDest(e) ==
  /\ At(e, "expand", "storeDst")
  /\ kokcolors' = [kokcolors EXCEPT ![Dst(e)] = - loc[e].new]
  /\ Goto(e, "out")
  /\ UNCHANGED <<problem, color_set, bans, work, marker, ph, loc>>

ChooseSource(e) ==
  /\ At(e, "expand", "choose")
  /\ loc' = [loc EXCEPT ![e].new = Choice(Src(e))]
  /\ Goto(e, "storeSrc")
  /\ UNCHANGED <<problem, kokcolors, color_set, bans, work, marker, ph>>

StoreSource(e) ==
  /\ At(e, "expand", "storeSrc")
  /\ kokcolors' = [kokcolors EXCEPT ![Src(e)] = - loc[e].new]
  /\ Goto(e, "send")
  /\ UNCHANGED <<problem, color_set, bans, work, marker, ph, loc>>

SendChoice(e) ==
  /\ At(e, "expand", "send")
  /\ tentative_color_ban' = [tentative_color_ban EXCEPT ![Dst(e)] = @ \union ({loc[e].new} \ {0})]
  /\ Goto(e, "out")
  /\ UNCHANGED <<problem, kokcolors, color_set, color_ban, work, marker, ph, loc>>

Expanded ==
  /\ ph = "expand" /\ AllOut
  /\ ph' = "choose"
  /\ UNCHANGED <<problem, kokcolors, color_set, bans, work, marker, items>>

Item(e) == \/ LoadSource(e) \/ LoadDest(e) \/ ClearDest(e)
           \/ ExpandLoadDest(e) \/ ExpandLoadSource(e) \/ BanDest(e) \/ BanSource(e)
           \/ ChooseAgain(e) \/ StoreDest(e) \/ ChooseSource(e) \/ StoreSource(e) \/ SendChoice(e)

-----------------------------------------------------------------------------
(* choose_colors and set_final_colors, on the vertices *)

\* the colours of neighbours count only until they are certain
MUT_TentativeOnly ==
  /\ ph = "choose"
  /\ kokcolors' = [v \in V |-> IF kokcolors[v] = 0 THEN FirstFree(tentative_color_ban[v])
                               ELSE IF kokcolors[v] < 0 THEN - kokcolors[v] ELSE kokcolors[v]]
  /\ LET full == {v \in V : kokcolors[v] = 0 /\ FirstFree(tentative_color_ban[v]) = 0}
     IN  /\ color_set' = [v \in V |-> IF v \in full THEN color_set[v] + 1 ELSE color_set[v]]
         /\ color_ban' = [v \in V |-> IF v \in full THEN {} ELSE color_ban[v]]
         /\ tentative_color_ban' = [v \in V |-> IF v \in full THEN {} ELSE tentative_color_ban[v]]
  /\ ph' = "mark"
  /\ Launch("src")
  /\ UNCHANGED <<problem, work, marker, loc>>

\* a vertex whose neighbours have all colours waits
MUT_SameSet ==
  /\ ph = "choose"
  /\ kokcolors' = [v \in V |-> IF kokcolors[v] = 0 THEN Choice(v)
                               ELSE IF kokcolors[v] < 0 THEN - kokcolors[v] ELSE kokcolors[v]]
  /\ tentative_color_ban' = [v \in V |-> IF kokcolors[v] = 0 /\ Choice(v) = 0 THEN {} ELSE tentative_color_ban[v]]
  /\ ph' = "mark"
  /\ Launch("src")
  /\ UNCHANGED <<problem, color_set, color_ban, work, marker, loc>>

ChooseColors ==
  /\ ph = "choose"
  /\ kokcolors' = [v \in V |-> IF kokcolors[v] = 0 THEN Choice(v)
                               ELSE IF kokcolors[v] < 0 THEN - kokcolors[v] ELSE kokcolors[v]]
  /\ LET full == {v \in V : kokcolors[v] = 0 /\ Choice(v) = 0}
     IN  /\ color_set' = [v \in V |-> IF v \in full THEN color_set[v] + 1 ELSE color_set[v]]
         /\ color_ban' = [v \in V |-> IF v \in full THEN {} ELSE color_ban[v]]
         /\ tentative_color_ban' = [v \in V |-> IF v \in full THEN {} ELSE tentative_color_ban[v]]
  /\ ph' = "mark"
  /\ Launch("src")
  /\ UNCHANGED <<problem, work, marker, loc>>

\* a vertex whose edges were all dropped may have no colour: the first of its set
FinalColor(v) == (IF kokcolors[v] = 0 THEN 1 ELSE kokcolors[v]) + color_set[v] * ColorSize

SetFinalColors ==
  /\ ph = "final"
  /\ kokcolors' = [v \in V |-> FinalColor(v)]
  /\ ph' = "done"
  /\ UNCHANGED <<problem, color_set, bans, work, marker, items>>

Terminated == ph = "done" /\ UNCHANGED vars

Host == Marked \/ CountConflicts \/ ShrinkWorklist \/ BanColors \/ Expanded \/ ChooseColors \/ SetFinalColors

Next == (\E e \in edges : Item(e)) \/ Host \/ Terminated

(***************************************************************************)
(* Every item of a kernel runs to its end, and the host goes on.           *)
(***************************************************************************)
Spec == Init /\ [][Next]_vars
FairSpec == Spec /\ WF_vars((\E e \in edges : Item(e)) \/ Host)

-----------------------------------------------------------------------------
TypeOK ==
  /\ adj \in [V -> SUBSET V] /\ edges = EdgesOf(adj)
  /\ ps_min \in Nat /\ pps_cutoff \in Nat
  /\ kokcolors \in [V -> Int] /\ color_set \in [V -> Nat]
  /\ color_ban \in [V -> SUBSET Bits] /\ tentative_color_ban \in [V -> SUBSET Bits]
  /\ marker \subseteq work /\ work \subseteq edges
  /\ ph \in {"mark", "count", "shrink", "ban", "expand", "choose", "final", "done"}
  /\ ph # "done" => kokcolors \in [V -> - ColorSize .. ColorSize]
  /\ pc \in [edges -> {"src", "dst", "clear", "banDst", "banSrc", "rechoose", "storeDst",
                       "choose", "storeSrc", "send", "out"}]
  /\ loc \in [edges -> [src : - ColorSize .. ColorSize, dst : - ColorSize .. ColorSize, new : {0} \union Bits]]

SameColor(u, v) == kokcolors[u] = kokcolors[v] /\ color_set[u] = color_set[v]

\* u has its colour for good, and v cannot come to the same one
Barred(u, v) ==
  /\ kokcolors[u] > 0 /\ kokcolors[v] <= 0
  /\ \/ color_set[v] > color_set[u]
     \/ color_set[v] = color_set[u] /\ kokcolors[u] \in color_ban[v] /\ kokcolors[u] # - kokcolors[v]

\* "No need to look at this edge anymore": an edge that is dropped has ends that
\* differ, or one without a colour that is barred from the colour of the other,
\* although nobody looks at the edge in later rounds (lines 2409-2418, 2522-2534).
DroppedEdgesAreSafe ==
  ph # "done" =>
    \A e \in edges \ marker :
      \/ kokcolors[Src(e)] > 0 /\ kokcolors[Dst(e)] > 0 /\ ~ SameColor(Src(e), Dst(e))
      \/ Barred(Src(e), Dst(e))
      \/ Barred(Dst(e), Src(e))

\* The colouring is proper, those included that get their colour only at the end
\* because no edge of theirs was left (lines 2110-2236, 2777-2787).
ProperAtEnd ==
  ph = "done" => \A e \in edges : kokcolors[Src(e)] > 0 /\ kokcolors[Src(e)] # kokcolors[Dst(e)]

\* The loop ends: "while (1)" has no bound on its iterations, and the tentative
\* colours of a round can all turn out to be conflicts (line 2110).
Terminates == <>(ph = "done")
=============================================================================

-------------------------- MODULE MCD1ColoringVB --------------------------
EXTENDS D1ColoringVB

\* the symmetric graph with the edges E
GraphOf(E) == [v \in V |-> {u \in V : {u, v} \in E}]

Edges == {{u, v} : u, v \in V}

\* the path, a triangle with a pendant vertex, and the complete graph
MCGraphs == {GraphOf({{0, 2}, {2, 1}, {1, 3}}),
             GraphOf({{0, 1}, {0, 2}, {1, 2}, {2, 3}, {3, 3}}),
             GraphOf({{u, v} : u, v \in V} \ {{v} : v \in V})}

None == [v \in V |-> 0]
MCStartColors == {None, [v \in V |-> IF v = 1 THEN 2 ELSE 0]}

Option(algo, scheme, serial, filtering, list, max) ==
  [algorithm |-> algo, conflict_scheme |-> scheme, serial |-> serial,
   edge_filtering |-> filtering, use_vtx_list |-> list, max_num_iterations |-> max]

MCOptions == {Option("VB", "ATOMIC", FALSE, FALSE, FALSE, 5),
              Option("VB", "ATOMIC", FALSE, TRUE, TRUE, 2),
              Option("VBBIT", "ATOMIC", TRUE, FALSE, FALSE, 5),
              Option("VB", "PPS", FALSE, TRUE, FALSE, 5),
              Option("VB", "NOCONFLICT", FALSE, FALSE, FALSE, 1),
              Option("VBBIT", "NOCONFLICT", FALSE, TRUE, FALSE, 5),
              Option("VB", "NOCONFLICT", FALSE, FALSE, FALSE, 0)}

\* COLORING_PPS with its thresholds in force
MCPPSOptions == {Option("VB", "PPS", FALSE, FALSE, FALSE, 3)}

\* COLORING_NOCONFLICT with a vertex list of the caller, for whom vertices 0 and
\* 1 have a colour already
MCListOptions == {Option("VB", "NOCONFLICT", FALSE, FALSE, TRUE, 3)}
MCListColors == {[v \in V |-> IF v < 2 THEN v + 1 ELSE 0]}
=============================================================================

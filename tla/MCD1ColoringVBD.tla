-------------------------- MODULE MCD1ColoringVBD --------------------------
EXTENDS D1ColoringVBD

\* the symmetric graph with the edges E
GraphOf(E) == [v \in V |-> {u \in V : {u, v} \in E}]

\* Two hubs that share three vertices; a path; a triangle with two tails and a
\* self-loop; the complete graph on four vertices and a single one.
MCGraphs == {GraphOf({{0, 2}, {0, 3}, {0, 4}, {1, 2}, {1, 3}, {1, 4}}),
             GraphOf({{0, 3}, {3, 1}, {1, 4}, {4, 2}}),
             GraphOf({{0, 1}, {1, 2}, {0, 2}, {0, 3}, {1, 4}, {4, 4}}),
             GraphOf({{u, v} : u, v \in 0 .. 3} \ {{v} : v \in V})}

MCComplete == {GraphOf({{u, v} : u, v \in V} \ {{v} : v \in V})}
=============================================================================

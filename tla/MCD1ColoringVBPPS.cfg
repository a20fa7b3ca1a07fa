CONSTANTS
  nv = 4
  Graphs <- MCGraphs
  StartColors <- MCStartColors
  Options <- MCPPSOptions
  FORBIDDEN_SIZE = 2
  min_vertex_cut_off = 3
  pps_percent = 35
  MaxColor = 9
SPECIFICATION Spec
INVARIANT
  ListsInBounds

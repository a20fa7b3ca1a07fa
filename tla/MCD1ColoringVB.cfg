CONSTANTS
  nv = 4
  Graphs <- MCGraphs
  StartColors <- MCStartColors
  Options <- MCOptions
  FORBIDDEN_SIZE = 2
  min_vertex_cut_off = 0
  pps_percent = 0
  MaxColor = 9
SPECIFICATION FairSpec
INVARIANTS
  TypeOK
  ListsInBounds
  ProperWhenChecked
  CompleteAtEnd
  NoVertexLost
  FirstFitBound
  GivenColorsKept
PROPERTIES
  IterationsShrink
  Terminates

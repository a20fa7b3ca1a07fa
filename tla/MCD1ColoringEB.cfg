CONSTANTS
  V = {0, 1, 2, 3}
  ColorSize = 2
  Problems <- MCProblems
SPECIFICATION FairSpec
INVARIANTS
  DroppedEdgesAreSafe
  ProperAtEnd
PROPERTIES
  Terminates

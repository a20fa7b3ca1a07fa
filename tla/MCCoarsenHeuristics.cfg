CONSTANTS
  Problems <- MCProblems
  Threshold = 2
SPECIFICATION FairSpec
INVARIANTS
  NoHalfMatch
  Aggregates
PROPERTIES
  Coarsens

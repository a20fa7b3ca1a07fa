CONSTANTS
  Problems <- MCProblems
  StatusBits = 8
  Mantissa = 3
  Hashes = {0, 255}
  MaxTracked = 1
SPECIFICATION Spec
INVARIANTS
  StatusesApart
  DistanceTwoMIS
  AggregatesAroundRoots
PROPERTIES
  EveryRoundDecides

CONSTANTS
  nv = 5
  Graphs <- MCGraphs
  Algorithms = {"VBD", "VBDBIT"}
  WIDTH = 3
  MaxOffset = 8
SPECIFICATION FairSpec
INVARIANTS
  TypeOK
  EntersOnce
  FrontierIndependent
  Deterministic
  ProperColors
  EarliestRound
  AllVisited
PROPERTY
  TerminatesInOneWindow

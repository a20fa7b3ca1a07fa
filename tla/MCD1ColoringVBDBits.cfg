CONSTANTS
  nv = 4
  Graphs <- MCComplete
  Algorithms = {"VBDBIT"}
  WIDTH = 3
  MaxOffset = 8
SPECIFICATION FairSpec
PROPERTY
  Terminates

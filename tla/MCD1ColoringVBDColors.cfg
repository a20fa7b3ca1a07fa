CONSTANTS
  nv = 3
  Graphs <- MCComplete
  Algorithms = {"VBD"}
  WIDTH = 3
  MaxOffset = 6
SPECIFICATION Spec
INVARIANT
  NoConflictAtEnd

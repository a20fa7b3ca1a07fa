CONSTANTS
  Problems <- MCProblems
  Val <- MCVal
  Cols = {0, 1, 2, 3, 4, 5}
  Lanes = {0, 1, 2}
  TableSize <- MCTableSize
  MaxFirst = 2
SPECIFICATION Spec
INVARIANTS
  RowCorrect
PROPERTIES
  ReturnsCleanChunk

CONSTANTS
  Problems <- MCProblems
  Val <- MCVal
  Cols <- MCCols
  KeySize <- MCKeySize
  HashSize <- MCHashSize
SPECIFICATION Spec
INVARIANTS
  TypeOK
  RowCorrect
  KeyAhead
PROPERTIES
  ReturnsCleanChunk

CONSTANTS
  t1 = t1
  t2 = t2
  t3 = t3
  Threads <- MCThreads
  thread_index <- MCThreadIndex
  SetCounts = {2, 3, 5}
  Rows = 2
  NoChunk = NoChunk
SPECIFICATION FairSpec
INVARIANTS
  TypeOK
  PrivateChunk
  InitializedMemory
  LockHasOwner
PROPERTIES
  EveryRowProcessed
  LendsInitializedChunks
  NullAfterFullSweep

\* A crash between the commit's staging and its epoch store.
CONSTANTS
  Segs = {0}
  Backs = {0}
  Offs = {0, 1}
  Vals = {0, 1}
  NullSeg = NullSeg
  RecordsPerLine = 64
  EpochModulus = 4
  Threads = {0}
  MaxFlushBlocks = 2
  NumBufferedAddresses = 2
  CrashPCs = {"commit_epoch"}
  IdleCheckpoints = FALSE
  ObservedPCs = {"run", "latch", "sync", "apply1", "commit_set", "apply2", "prepare"}
SPECIFICATION Spec
PROPERTY RecoveryRestoresCheckpoint

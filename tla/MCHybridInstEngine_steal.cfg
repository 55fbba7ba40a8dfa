\* Two segments sharing one back slot, no crashes, no idle checkpoints.
CONSTANTS
  Segs = {0, 1}
  Backs = {0}
  Offs = {0}
  Vals = {0, 1}
  NullSeg = NullSeg
  RecordsPerLine = 64
  EpochModulus = 4
  Threads = {0}
  MaxFlushBlocks = 2
  NumBufferedAddresses = 2
  CrashPCs = {}
  IdleCheckpoints = FALSE
  ObservedPCs = {"run", "latch", "sync", "apply1", "commit_set", "apply2", "prepare"}
SPECIFICATION Spec
INVARIANT BackCopyIsCheckpoint

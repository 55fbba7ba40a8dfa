\* Two segments of two blocks sharing one back slot, two threads whose buckets can each hold a block of one segment, bucket capacity 3 (two blocks use the buckets); no crash, no idle checkpoint.
CONSTANTS
  Segs = {0, 1}
  Backs = {0}
  Offs = {0, 1}
  Vals = {0}
  NullSeg = NullSeg
  RecordsPerLine = 64
  EpochModulus = 2
  Threads = {0, 1}
  MaxFlushBlocks = 3
  NumBufferedAddresses = 1
  CrashPCs = {}
  IdleCheckpoints = FALSE
  ObservedPCs = {"run", "latch", "sync", "apply1", "commit_set", "commit_epoch", "commit_copy", "apply2", "recover", "recover_copy", "prepare"}
SPECIFICATION Spec
INVARIANT BackMemoryLockReleased

CONSTANTS
  Segs = {0, 1}
  Backs = {0, 1}
  Offs = {0}
  Vals = {0, 1}
  NullSeg = NullSeg
  RecordsPerLine = 64
  EpochModulus = 4
  Threads = {0}
  MaxFlushBlocks = 2
  NumBufferedAddresses = 2
  BitWidth = 64
  SegmentLocks = 2
  CrashPCs = {}
SPECIFICATION Spec
INVARIANT PublishedRecoverable

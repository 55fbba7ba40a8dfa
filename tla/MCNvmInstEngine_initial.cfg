\* Two segments of two blocks sharing one slot, no crash: only find_back_segment's exit restarts the process.
CONSTANTS
  Segs = {0, 1}
  Backs = {0}
  Offs = {0, 1}
  Vals = {0, 1}
  NullSeg = NullSeg
  RecordsPerLine = 64
  EpochModulus = 4
  Threads = {0}
  MaxFlushBlocks = 2
  NumBufferedAddresses = 2
  BitWidth = 1
  SegmentLocks = 2
  CrashPCs = {}
SPECIFICATION Spec
INVARIANT PublishedRecoverable

\* Two regimes of 2 segments of one block, values {0,1}, one mutator thread, bit width 1, crashes at run/lock/main_set/write_back/back_set.  durability: a slot per segment, epochs mod 2, bucket capacity 2 (both flush modes).  cleaner: one shared slot, epochs mod 2, bucket capacity 1 (every checkpoint with a dirty block is WBINVD and starts the cleaner).
CONSTANTS
  Segs = {0, 1}
  Offs = {0}
  Vals = {0, 1}
  NullSeg = NullSeg
  RecordsPerLine = 64
  Threads = {0}
  NumBufferedAddresses = 2
  BitWidth = 1
  SegmentLocks = 2
  CrashPCs = {"run", "lock", "main_set", "write_back", "back_set"}
  DBacks = {0, 1}
  DEpochModulus = 2
  DMaxFlushBlocks = 2
  CBacks = {0}
  CEpochModulus = 2
  CMaxFlushBlocks = 1
SPECIFICATION Spec
INVARIANTS TypeOK DPublishedRecoverable DStoresAreTracked CPublishedRecoverable
PROPERTIES CCheckpointCompletes CCleanerQuiesces

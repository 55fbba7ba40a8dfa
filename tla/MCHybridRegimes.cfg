\* Regime one_segment: one segment of two blocks, one back slot, bucket capacity two (a store to both blocks fills it and forces WBINVD), three values; process crashes where no NVM write of the checkpoint is pending.
\* Regime shared_slot: two segments of one block sharing one slot, one value, no crash: the slot is stolen, and a checkpoint with both segments dirty exits on "no free back segments".
CONSTANTS
  Backs = {0}
  NullSeg = NullSeg
  RecordsPerLine = 64
  EpochModulus = 2
  Threads = {0}
  MaxFlushBlocks = 2
  NumBufferedAddresses = 2
  IdleCheckpoints = FALSE
  ObservedPCs = {"run", "latch", "sync", "apply1", "commit_set", "apply2", "prepare"}
  HSegs = {0}
  HOffs = {0, 1}
  HVals = {0, 1, 2}
  HCrashPCs = {"run", "latch", "sync", "apply2", "prepare"}
  XSegs = {0, 1}
  XOffs = {0}
  XVals = {0}
  XCrashPCs = {}
SPECIFICATION Spec
INVARIANTS TypeOK HStoresAreTracked HMainCopyIsCheckpoint HBackCopyIsCheckpoint HCrashRecoversCheckpoint
PROPERTIES HRecoveryRestoresCheckpoint HRefinesSnapshot

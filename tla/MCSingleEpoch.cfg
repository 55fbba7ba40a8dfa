\* Each behaviour runs one pool: mprotect (3 regions, two of them in one bit-set word; 2 threads, bucket capacity 1), soft-dirty (2 pages) or undo-log (3 blocks of 256 bytes, so the third logged block finds the log full; 2 threads, bucket capacity 1) or LMC (3 blocks, 1 thread, bucket capacity 2, so the third block tagged in an epoch is dropped from the bucket; current_epoch wraps after 2) or the allocator's avail_sb (2 threads, 7 superblocks carved 3 at a time, large blocks of 2, 8-bit stamps, at most 4 operations, so no stamp wraps); values {0,1}; crashes with any power-failure losses.
\* Deadlock is not checked: every engine pool can always crash, and the allocator's threads stop once their operations are used up.
CONSTANTS
  MRegions = {0, 1, 2}
  DPages = {0, 1}
  UBlocks = {0, 1, 2}
  Vals = {0, 1}
  Zero = 0
  Threads = {t1, t2}
  MaxFlushRegions = 1
  MaxFlushBlocks = 1
  BitWidth = 2
  BlockSize = 256
  NoTrap = NoTrap
  NoEntry = NoEntry
  LBlocks = {0, 1, 2}
  LThreads = {t1}
  LMaxFlushBlocks = 2
  EpochMax = 2
  NrSBs = 7
  ChunkSBs = 3
  LargeSBs = 2
  StampModulus = 256
  MaxOps = 4
  Null = Null
SPECIFICATION Spec
CHECK_DEADLOCK FALSE
INVARIANTS TypeOK MCheckpointCoversModified DModifiedPagesSoftDirty LUntaggedBlocksDurable SSuperblockExclusive SNoSuperblockLost
PROPERTIES MRefinesSnapshot DRefinesSnapshot URefinesSnapshot UHookReturns LRefinesSnapshot

\* Two threads, 7 superblocks carved 3 at a time, large blocks of 2, 8-bit stamps, at most 4 operations; the threads inside an operation are weakly fair, none has to start one.
CONSTANTS
  Threads = {t1, t2}
  NrSBs = 7
  ChunkSBs = 3
  LargeSBs = 2
  StampModulus = 256
  MaxOps = 4
  Null = Null
SPECIFICATION Spec
CHECK_DEADLOCK FALSE
PROPERTY FillSbListReturns

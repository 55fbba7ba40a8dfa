--------------------------- MODULE UndoLogEngine ---------------------------
(***************************************************************************)
(* UndoLogEngine (undolog_engine.cpp), the instrumented single-epoch       *)
(* engine that logs the old contents of a block before its first store of *)
(* an epoch.  The program works in place in the data area.  hook_routine   *)
(* reserves a log entry with log_head.fetch_add, writes and persists it,   *)
(* and publishes it by advancing header->log_head with a CAS loop that     *)
(* only succeeds from the entry's own offset, so entries are published in *)
(* the order they were reserved.  checkpoint persists the data area and   *)
(* truncates the log; Open replays the published entries (recover).       *)
(*                                                                         *)
(* data is the data area as the program sees it, nvm_data as it is on     *)
(* NVM: a store reaches NVM only when flushed, or when the process ends   *)
(* without a power failure.  Log entries and header->log_head are flushed *)
(* and fenced before anything depends on them, so they are durable when   *)
(* written.  Offsets and sizes are bytes, with the code's layout.          *)
(***************************************************************************)
EXTENDS Naturals, FiniteSets, Sequences, SequencesExt

CONSTANTS
  Blocks,          \* block ids 0 .. nr_blocks - 1
  Threads,         \* the mutator threads, each with its own bucket
  Vals, Zero,      \* contents of a block
  MaxFlushBlocks,  \* kMaxFlushBlocks
  BitWidth,        \* AtomicBitSet::kBitWidth
  BlockSize,       \* kBlockSize (a multiple of kCacheLineSize)
  NoEntry          \* a log area never written: no kLogEntryMagic

ASSUME /\ Blocks \subseteq 0 .. 1023 /\ 0 \in Blocks
       /\ MaxFlushBlocks \in Nat \ {0} /\ BitWidth \in Nat \ {0}
       /\ BlockSize \in Nat /\ BlockSize % 64 = 0

\* log_size: sizeof(LogEntry) + RoundUp(kBlockSize, kCacheLineSize).
LogSize == 64 + BlockSize
\* hdr->log_capacity: the capacity of the data area.
LogCapacity == Cardinality(Blocks) * BlockSize
\* The offsets at which hook_routine may write an entry.
LogOffsets == {k * LogSize : k \in 0 .. LogCapacity \div LogSize}
Entries == [blk : Blocks, val : Vals]

\* The position of a thread in hook_routine.
Idle == [at |-> "idle", blk |-> 0, val |-> Zero, off |-> 0]

VARIABLES
  data,          \* the data area, through the cache
  nvm_data,      \* the data area on NVM
  log,           \* log[o]: the entry at offset o of the log area
  hdr_log_head,  \* header->log_head
  log_head,      \* the volatile std::atomic log_head
  block_dirty,   \* the AtomicBitSet block_dirty
  flush_blocks,  \* flush_blocks[tid][0 .. flush_blocks_count[tid] - 1]
  locks,         \* the segment_locks entries held
  th,            \* per thread: at, and the block, value and offset it works on
  pc,            \* "run", "reset" (checkpoint after flushing) or "recover" (Open)
  cursor         \* recover()'s cursor

vars == <<data, nvm_data, log, hdr_log_head, log_head, block_dirty,
          flush_blocks, locks, th, pc, cursor>>

FMODE_NO_ACTION == "FMODE_NO_ACTION"
FMODE_USE_FLUSH_BLOCKS == "FMODE_USE_FLUSH_BLOCKS"
FMODE_WBINVD == "FMODE_WBINVD"

TypeOK ==
  /\ data \in [Blocks -> Vals] /\ nvm_data \in [Blocks -> Vals]
  /\ log \in [LogOffsets -> Entries \cup {NoEntry}]
  /\ hdr_log_head \in LogOffsets /\ log_head \in LogOffsets
  /\ block_dirty \subseteq Blocks
  /\ \A t \in Threads : flush_blocks[t] \in Seq(Blocks)
                        /\ Len(flush_blocks[t]) <= MaxFlushBlocks
  /\ th \in [Threads -> [at : {"idle", "lock", "entry", "publish"},
                         blk : Blocks, val : Vals, off : LogOffsets]]
  /\ pc \in {"run", "reset", "recover"}
  /\ cursor \in LogOffsets

\* segment_locks[block_id & (kSegmentLocks - 1)]
LockOf(u) == u % 1024

\* clear_all(block_id) stores 0 into the whole word holding the bit.
ClearWords(S, idxs) == {u \in S : u \div BitWidth \notin {i \div BitWidth : i \in idxs}}

BucketBlocks == UNION {ToSet(flush_blocks[t]) : t \in Threads}

\* The leader's choice in checkpoint(): no action when every bucket is
\* empty, WBINVD when one is full, else flushing the bucket blocks.
FlushModeOf(fb) ==
  IF \A t \in Threads : fb[t] = <<>> THEN FMODE_NO_ACTION
  ELSE IF \E t \in Threads : Len(fb[t]) = MaxFlushBlocks THEN FMODE_WBINVD
  ELSE FMODE_USE_FLUSH_BLOCKS

\* flush_parallel: WriteBackAndInvalidate, or FlushRegion of every bucket
\* block; then StoreFence.
FlushParallel(mode) ==
  LET S == IF mode = FMODE_WBINVD THEN Blocks ELSE BucketBlocks
  IN nvm_data' = [u \in Blocks |-> IF u \in S THEN data[u] ELSE nvm_data[u]]

\* clear_dirty_bits_parallel: every word under FMODE_WBINVD, else
\* clear_all of each bucket block; every bucket count goes to 0.
ClearDirtyBitsParallel(mode) ==
  /\ block_dirty' = IF mode = FMODE_WBINVD THEN {}
                    ELSE ClearWords(block_dirty, BucketBlocks)
  /\ flush_blocks' = [t \in Threads |-> <<>>]

\* recover(): the published entries replayed in order onto d.
Recovered(d) ==
  LET Apply(acc, o) == IF log[o] = NoEntry THEN acc
                       ELSE [acc EXCEPT ![log[o].blk] = log[o].val]
  IN FoldLeft(Apply, d, [i \in 1 .. hdr_log_head \div LogSize |-> (i - 1) * LogSize])

StoreData(u, v) == data' = [data EXCEPT ![u] = v]

\* Open on a new file: the header and the empty log (log_head 0), and a
\* data area of zeroes.
Init ==
  /\ data = [u \in Blocks |-> Zero] /\ nvm_data = data
  /\ log = [o \in LogOffsets |-> NoEntry]
  /\ hdr_log_head = 0 /\ log_head = 0
  /\ block_dirty = {} /\ flush_blocks = [t \in Threads |-> <<>>]
  /\ locks = {} /\ th = [t \in Threads |-> Idle]
  /\ pc = "run" /\ cursor = 0

(***************************************************************************)
(* hook_routine(addr), called by __crpm_hook_rt_store before the store.    *)
(***************************************************************************)
\* The unlocked test: a block already dirty is stored to at once.
Hook(t, u, v) ==
  /\ pc = "run" /\ th[t].at = "idle"
  /\ IF u \in block_dirty
       THEN StoreData(u, v) /\ UNCHANGED th
       ELSE th' = [th EXCEPT ![t] = [Idle EXCEPT !.at = "lock", !.blk = u, !.val = v]]
            /\ UNCHANGED data
  /\ UNCHANGED <<nvm_data, log, hdr_log_head, log_head, block_dirty,
                 flush_blocks, locks, pc, cursor>>

\* AcquireLock, and the test under the lock finds the block dirty: another
\* thread logged it meanwhile.  ReleaseLock, and the store.
AcquireDirty(t) ==
  LET u == th[t].blk
  IN /\ th[t].at = "lock" /\ LockOf(u) \notin locks
     /\ u \in block_dirty
     /\ StoreData(u, th[t].val)
     /\ th' = [th EXCEPT ![t] = Idle]
     /\ UNCHANGED <<nvm_data, log, hdr_log_head, log_head, block_dirty,
                    flush_blocks, locks, pc, cursor>>

\* AcquireLock, the test finds the block clean, and log_head.fetch_add
\* reserves the entry at last_log_head.
Reserve(t) ==
  LET u == th[t].blk
  IN /\ th[t].at = "lock" /\ LockOf(u) \notin locks
     /\ u \notin block_dirty
     /\ log_head + LogSize < LogCapacity
     /\ log_head' = log_head + LogSize
     /\ locks' = locks \cup {LockOf(u)}
     /\ th' = [th EXCEPT ![t].at = "entry", ![t].off = log_head]
     /\ UNCHANGED <<data, nvm_data, log, hdr_log_head, block_dirty,
                    flush_blocks, pc, cursor>>

\* The entry's magic, offset and size, Flush(entry), and the block's
\* current contents copied into its payload with NonTemporalCopy64, then
\* StoreFence.
WriteEntry(t) ==
  LET u == th[t].blk
  IN /\ th[t].at = "entry"
     /\ log' = [log EXCEPT ![th[t].off] = [blk |-> u, val |-> data[u]]]
     /\ th' = [th EXCEPT ![t].at = "publish"]
     /\ UNCHANGED <<data, nvm_data, hdr_log_head, log_head, block_dirty,
                    flush_blocks, locks, pc, cursor>>

\* The CAS loop succeeds once header->log_head has reached this entry's
\* offset: it is advanced past the entry, flushed and fenced.  Then
\* block_dirty.set, ReleaseLock, the append unless the bucket is full,
\* and the store.
\* Variant: header->log_head is stored, not compare-and-swapped.
PublishUnordered(t) ==
  LET u == th[t].blk
  IN /\ th[t].at = "publish"
     /\ hdr_log_head' = th[t].off + LogSize
     /\ block_dirty' = block_dirty \cup {u}
     /\ locks' = locks \ {LockOf(u)}
     /\ flush_blocks' =
          IF Len(flush_blocks[t]) /= MaxFlushBlocks
            THEN [flush_blocks EXCEPT ![t] = Append(@, u)]
            ELSE flush_blocks
     /\ StoreData(u, th[t].val)
     /\ th' = [th EXCEPT ![t] = Idle]
     /\ UNCHANGED <<nvm_data, log, log_head, pc, cursor>>
\* Variant: the segment lock is not released.
PublishKeepLock(t) ==
  LET u == th[t].blk
  IN /\ th[t].at = "publish"
     /\ hdr_log_head = th[t].off
     /\ hdr_log_head' = th[t].off + LogSize
     /\ block_dirty' = block_dirty \cup {u}
     /\ flush_blocks' =
          IF Len(flush_blocks[t]) /= MaxFlushBlocks
            THEN [flush_blocks EXCEPT ![t] = Append(@, u)]
            ELSE flush_blocks
     /\ StoreData(u, th[t].val)
     /\ th' = [th EXCEPT ![t] = Idle]
     /\ UNCHANGED <<nvm_data, log, log_head, locks, pc, cursor>>
Publish(t) ==
  LET u == th[t].blk
  IN /\ th[t].at = "publish"
     /\ hdr_log_head = th[t].off
     /\ hdr_log_head' = th[t].off + LogSize
     /\ block_dirty' = block_dirty \cup {u}
     /\ locks' = locks \ {LockOf(u)}
     /\ flush_blocks' =
          IF Len(flush_blocks[t]) /= MaxFlushBlocks
            THEN [flush_blocks EXCEPT ![t] = Append(@, u)]
            ELSE flush_blocks
     /\ StoreData(u, th[t].val)
     /\ th' = [th EXCEPT ![t] = Idle]
     /\ UNCHANGED <<nvm_data, log, log_head, pc, cursor>>

(***************************************************************************)
(* The process ends: a crash, the exit on "Out of log memory" or on a      *)
(* broken log entry.  The lines in lost are those a power failure takes    *)
(* back to what NVM held; the rest reach NVM.  Open(path) then recovers.  *)
(***************************************************************************)
ProcessEnds(lost) ==
  /\ data' = [u \in Blocks |-> IF u \in lost THEN nvm_data[u] ELSE data[u]]
  /\ nvm_data' = data'
  /\ log_head' = 0 /\ block_dirty' = {}
  /\ flush_blocks' = [t \in Threads |-> <<>>]
  /\ locks' = {} /\ th' = [t \in Threads |-> Idle]
  /\ pc' = "recover" /\ cursor' = 0
  /\ UNCHANGED <<log, hdr_log_head>>

\* log_head.fetch_add has passed the end of the log: exit(EXIT_FAILURE).
ExitOutOfLog(t) ==
  /\ th[t].at = "lock" /\ LockOf(th[t].blk) \notin locks
  /\ th[t].blk \notin block_dirty
  /\ log_head + LogSize >= LogCapacity
  /\ ProcessEnds({})

Crash(lost) == ProcessEnds(lost)

(***************************************************************************)
(* checkpoint(nr_threads).  Every mutator thread is in the barrier.  After *)
(* address_buffer_clear_all (empty for this engine) the leader picks the   *)
(* mode; FMODE_NO_ACTION returns at once, a step that changes nothing.     *)
(* Otherwise flush_parallel, the barrier and clear_dirty_bits_parallel.    *)
(***************************************************************************)
Checkpoint ==
  LET mode == FlushModeOf(flush_blocks)
  IN /\ pc = "run" /\ \A t \in Threads : th[t].at = "idle"
     /\ mode /= FMODE_NO_ACTION
     /\ FlushParallel(mode)
     /\ ClearDirtyBitsParallel(mode)
     /\ pc' = "reset"
     /\ UNCHANGED <<data, log, hdr_log_head, log_head, locks, th, cursor>>

\* The leader: NTStore of 0 into header->log_head, StoreFence, and
\* log_head.store(0).
CheckpointDone ==
  /\ pc = "reset"
  /\ hdr_log_head' = 0 /\ log_head' = 0
  /\ pc' = "run"
  /\ UNCHANGED <<data, nvm_data, log, block_dirty, flush_blocks, locks, th, cursor>>

\* One entry of recover(): its payload NonTemporalCopy64'd to its block.
\* An entry without kLogEntryMagic makes Open exit; there is no step.
RecoverEntry ==
  LET e == log[cursor]
  IN /\ pc = "recover" /\ cursor < hdr_log_head
     /\ e /= NoEntry
     /\ data' = [data EXCEPT ![e.blk] = e.val]
     /\ nvm_data' = [nvm_data EXCEPT ![e.blk] = e.val]
     /\ cursor' = cursor + LogSize
     /\ UNCHANGED <<log, hdr_log_head, log_head, block_dirty, flush_blocks,
                    locks, th, pc>>

\* StoreFence, NTStore of 0 into header->log_head, StoreFence; the rest
\* of Open starts from an empty block_dirty.
RecoverDone ==
  /\ pc = "recover" /\ cursor >= hdr_log_head
  /\ hdr_log_head' = 0
  /\ pc' = "run" /\ cursor' = 0
  /\ UNCHANGED <<data, nvm_data, log, log_head, block_dirty, flush_blocks, locks, th>>

\* The steps of the pool without the process's end.
Step ==
  \/ \E t \in Threads, u \in Blocks, v \in Vals : Hook(t, u, v)
  \/ \E t \in Threads : \/ AcquireDirty(t) \/ Reserve(t)
                        \/ WriteEntry(t) \/ Publish(t)
  \/ Checkpoint \/ CheckpointDone
  \/ RecoverEntry \/ RecoverDone

Next ==
  \/ Step
  \/ \E t \in Threads : ExitOutOfLog(t)
  \/ \E lost \in SUBSET Blocks : Crash(lost)

\* The threads run their hook_routine and the leader its checkpoint and
\* recovery to the end; the program's stores, checkpoints and crashes are
\* the environment.
Fairness ==
  /\ \A t \in Threads : WF_vars(AcquireDirty(t) \/ Reserve(t) \/ ExitOutOfLog(t))
  /\ \A t \in Threads : WF_vars(WriteEntry(t)) /\ WF_vars(Publish(t))
  /\ WF_vars(CheckpointDone) /\ WF_vars(RecoverEntry) /\ WF_vars(RecoverDone)

Spec == Init /\ [][Next]_vars

=============================================================================

----------------------------- MODULE LmcEngine -----------------------------
(***************************************************************************)
(* LmcEngine (lmc_engine.cpp), the instrumented single-epoch engine that  *)
(* saves the old contents of a block in the shadow area before its first  *)
(* store of an epoch.  The program works in place in the working area.    *)
(* hook_routine takes the block's segment lock; a block whose tagmap      *)
(* entry is current_epoch is already saved.  Otherwise the block is       *)
(* copied to its shadow with NonTemporalCopy64 and a fence, and then the  *)
(* tag is set, flushed and fenced.  checkpoint flushes the tagged blocks   *)
(* and advances current_epoch, which untags them all at once.  Open        *)
(* (recover) copies the blocks tagged with current_epoch back from their   *)
(* shadow and advances the epoch.  current_epoch is a uint8_t: at          *)
(* UINT8_MAX the tagmap is cleared and the epoch restarts at 1.            *)
(*                                                                         *)
(* working is the working area as the program sees it, nvm_working as it *)
(* is on NVM.  The shadow area, the tagmap and current_epoch are written   *)
(* non-temporally or flushed, and fenced, so they are durable when        *)
(* written.  The NT copies of recover become durable at its StoreFence.   *)
(***************************************************************************)
EXTENDS Naturals, Sequences, SequencesExt

CONSTANTS
  Blocks,          \* block ids 0 .. nr_blocks - 1
  Threads,         \* the mutator threads, each with its own bucket
  Vals, Zero,      \* contents of a block
  MaxFlushBlocks,  \* kMaxFlushBlocks
  EpochMax         \* UINT8_MAX, the largest value of current_epoch

ASSUME /\ Blocks \subseteq Nat /\ MaxFlushBlocks \in Nat \ {0}
       /\ EpochMax \in Nat \ {0, 1}

VARIABLES
  working,        \* the working area, through the cache
  nvm_working,    \* the working area on NVM
  shadow,         \* the shadow area
  tagmap,         \* header->tagmap
  current_epoch,  \* header->current_epoch
  has_snapshot,   \* kAttributeHasSnapshot in header->attributes
  flush_blocks,   \* flush_blocks[tid][0 .. flush_blocks_count[tid] - 1]
  locks,          \* the segment_locks entries held
  th,             \* per thread: where it is in hook_routine, block, value
  pc,             \* "run", "advance", "wrap" or "recover"
  todo            \* blocks recover() has still to copy back

vars == <<working, nvm_working, shadow, tagmap, current_epoch, has_snapshot,
          flush_blocks, locks, th, pc, todo>>

Epochs == 1 .. EpochMax

FMODE_NO_ACTION == "FMODE_NO_ACTION"
FMODE_USE_FLUSH_BLOCKS == "FMODE_USE_FLUSH_BLOCKS"
FMODE_WBINVD == "FMODE_WBINVD"

Idle == [at |-> "idle", blk |-> CHOOSE b \in Blocks : TRUE, val |-> Zero]

TypeOK ==
  /\ working \in [Blocks -> Vals] /\ nvm_working \in [Blocks -> Vals]
  /\ shadow \in [Blocks -> Vals]
  /\ tagmap \in [Blocks -> 0 .. EpochMax] /\ current_epoch \in Epochs
  /\ has_snapshot \in BOOLEAN
  /\ \A t \in Threads : flush_blocks[t] \in Seq(Blocks)
                        /\ Len(flush_blocks[t]) <= MaxFlushBlocks
  /\ th \in [Threads -> [at : {"idle", "tag"},
                         blk : Blocks, val : Vals]]
  /\ pc \in {"run", "advance", "wrap", "recover"}
  /\ todo \subseteq Blocks

\* segment_locks[block_id & (kSegmentLocks - 1)]
LockOf(u) == u % 1024

BucketBlocks == UNION {ToSet(flush_blocks[t]) : t \in Threads}

\* The leader's choice in checkpoint(): no action when every bucket is
\* empty, WBINVD when one is full, else flushing the bucket blocks.
\* Variant: the test for a full bucket left out.
FlushModeOfIgnoringFull(fb) ==
  IF \A t \in Threads : fb[t] = <<>> THEN FMODE_NO_ACTION
  ELSE FMODE_USE_FLUSH_BLOCKS
FlushModeOf(fb) ==
  IF \A t \in Threads : fb[t] = <<>> THEN FMODE_NO_ACTION
  ELSE IF \E t \in Threads : Len(fb[t]) = MaxFlushBlocks THEN FMODE_WBINVD
  ELSE FMODE_USE_FLUSH_BLOCKS

\* flush_parallel: WriteBackAndInvalidate, or FlushRegion of every bucket
\* block; then StoreFence.
FlushParallel(mode) ==
  LET S == IF mode = FMODE_WBINVD THEN Blocks ELSE BucketBlocks
  IN nvm_working' = [u \in Blocks |-> IF u \in S THEN working[u] ELSE nvm_working[u]]

\* The blocks recover() copies back from the shadow area.
Tagged == {u \in Blocks : tagmap[u] = current_epoch}

\* What recover() makes of the working area w.
Recovered(w) == [u \in Blocks |-> IF u \in Tagged THEN shadow[u] ELSE w[u]]

\* advance_current_epoch(): the increment, flushed and fenced; at
\* UINT8_MAX the memset of the tagmap, flushed and fenced, comes first,
\* and pc = "wrap" until current_epoch = 1 is written.
\* Variant: the epoch restarts at 1 without the memset of the tagmap.
AdvanceCurrentEpochNoClear ==
  /\ current_epoch' = IF current_epoch = EpochMax THEN 1 ELSE current_epoch + 1
  /\ pc' = "run"
  /\ UNCHANGED tagmap
AdvanceCurrentEpoch ==
  IF current_epoch = EpochMax
    THEN /\ tagmap' = [u \in Blocks |-> 0]
         /\ pc' = "wrap"
         /\ UNCHANGED current_epoch
    ELSE /\ current_epoch' = current_epoch + 1
         /\ pc' = "run"
         /\ UNCHANGED tagmap

\* Open on a new file: the zeroed header and tagmap, current_epoch 1, and
\* working and shadow areas of zeroes.
Init ==
  /\ working = [u \in Blocks |-> Zero] /\ nvm_working = working
  /\ shadow = working
  /\ tagmap = [u \in Blocks |-> 0] /\ current_epoch = 1
  /\ has_snapshot = FALSE
  /\ flush_blocks = [t \in Threads |-> <<>>]
  /\ locks = {} /\ th = [t \in Threads |-> Idle]
  /\ pc = "run" /\ todo = {}

(***************************************************************************)
(* hook_routine(addr), called by __crpm_hook_rt_store before the store of *)
(* value v to block u.  AcquireLock spins without side effects, so a      *)
(* thread waiting for the lock is one whose step is not yet enabled:      *)
(* taking the lock and what follows under it up to the next durable      *)
(* write are one step.                                                     *)
(***************************************************************************)
\* The block is tagged with current_epoch: ReleaseLock and return; the
\* store follows.
HookTagged(t, u, v) ==
  /\ pc = "run" /\ th[t].at = "idle" /\ LockOf(u) \notin locks
  /\ tagmap[u] = current_epoch
  /\ working' = [working EXCEPT ![u] = v]
  /\ UNCHANGED <<nvm_working, shadow, tagmap, current_epoch, has_snapshot,
                 flush_blocks, locks, th, pc, todo>>

\* The block is not tagged: NonTemporalCopy64 of the working block to its
\* shadow, and StoreFence, under the lock.
HookUntagged(t, u, v) ==
  /\ pc = "run" /\ th[t].at = "idle" /\ LockOf(u) \notin locks
  /\ tagmap[u] /= current_epoch
  /\ locks' = locks \cup {LockOf(u)}
  /\ shadow' = [shadow EXCEPT ![u] = working[u]]
  /\ th' = [th EXCEPT ![t] = [at |-> "tag", blk |-> u, val |-> v]]
  /\ UNCHANGED <<working, nvm_working, tagmap, current_epoch, has_snapshot,
                 flush_blocks, pc, todo>>

\* tagmap[block_id] = current_epoch, Flush, StoreFence; ReleaseLock; the
\* append unless the bucket is full; and the store.
SetTag(t) ==
  LET u == th[t].blk
  IN /\ th[t].at = "tag"
     /\ tagmap' = [tagmap EXCEPT ![u] = current_epoch]
     /\ locks' = locks \ {LockOf(u)}
     /\ flush_blocks' =
          IF Len(flush_blocks[t]) /= MaxFlushBlocks
            THEN [flush_blocks EXCEPT ![t] = Append(@, u)]
            ELSE flush_blocks
     /\ working' = [working EXCEPT ![u] = th[t].val]
     /\ th' = [th EXCEPT ![t] = Idle]
     /\ UNCHANGED <<nvm_working, shadow, current_epoch, has_snapshot, pc, todo>>

(***************************************************************************)
(* checkpoint(nr_threads).  Every mutator thread is in the barrier.  The  *)
(* leader picks the mode; FMODE_NO_ACTION returns at once, a step that    *)
(* changes nothing.  Otherwise flush_parallel, the barrier, the snapshot  *)
(* attribute, advance_current_epoch and the reset of the bucket counts.   *)
(* The counts are reset here: the threads wait in the latch until the     *)
(* leader is done, and a crash discards them.                              *)
(***************************************************************************)
Checkpoint ==
  LET mode == FlushModeOf(flush_blocks)
  IN /\ pc = "run" /\ \A t \in Threads : th[t].at = "idle"
     /\ mode /= FMODE_NO_ACTION
     /\ FlushParallel(mode)
     /\ has_snapshot' = TRUE
     /\ flush_blocks' = [t \in Threads |-> <<>>]
     /\ pc' = "advance"
     /\ UNCHANGED <<working, shadow, tagmap, current_epoch, locks, th, todo>>

CheckpointAdvance ==
  /\ pc = "advance"
  /\ AdvanceCurrentEpoch
  /\ UNCHANGED <<working, nvm_working, shadow, has_snapshot, flush_blocks,
                 locks, th, todo>>

\* The second half of advance_current_epoch at UINT8_MAX.
WrapDone ==
  /\ pc = "wrap"
  /\ current_epoch' = 1 /\ pc' = "run"
  /\ UNCHANGED <<working, nvm_working, shadow, tagmap, has_snapshot,
                 flush_blocks, locks, th, todo>>

\* The process ends at any point (lost: the lines a power failure takes
\* back to what NVM held; the rest reach NVM), and Open(path) starts
\* recover().
Crash(lost) ==
  /\ working' = [u \in Blocks |-> IF u \in lost THEN nvm_working[u] ELSE working[u]]
  /\ nvm_working' = working'
  /\ flush_blocks' = [t \in Threads |-> <<>>]
  /\ locks' = {} /\ th' = [t \in Threads |-> Idle]
  /\ pc' = "recover" /\ todo' = Tagged
  /\ UNCHANGED <<shadow, tagmap, current_epoch, has_snapshot>>

\* One block of recover(): NonTemporalCopy64 of the shadow to the working
\* block, not yet fenced.
RecoverBlock(u) ==
  /\ pc = "recover" /\ u \in todo
  /\ working' = [working EXCEPT ![u] = shadow[u]]
  /\ todo' = todo \ {u}
  /\ UNCHANGED <<nvm_working, shadow, tagmap, current_epoch, has_snapshot,
                 flush_blocks, locks, th, pc>>

\* The StoreFence that ends the copies, and advance_current_epoch.
RecoverAdvance ==
  /\ pc = "recover" /\ todo = {}
  /\ nvm_working' = working
  /\ AdvanceCurrentEpoch
  /\ UNCHANGED <<working, shadow, has_snapshot, flush_blocks, locks, th, todo>>

\* The steps of the pool without the process's end.
Step ==
  \/ \E t \in Threads, u \in Blocks, v \in Vals :
       HookTagged(t, u, v) \/ HookUntagged(t, u, v)
  \/ \E t \in Threads : SetTag(t)
  \/ Checkpoint \/ CheckpointAdvance \/ WrapDone
  \/ \E u \in Blocks : RecoverBlock(u)
  \/ RecoverAdvance

Next ==
  \/ Step
  \/ \E lost \in SUBSET Blocks : Crash(lost)

=============================================================================

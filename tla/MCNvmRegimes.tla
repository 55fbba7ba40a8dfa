---------------------------- MODULE MCNvmRegimes ----------------------------
(***************************************************************************)
(* The NVM instrumented engine in its two regimes, one per behaviour,     *)
(* chosen at the start.  D gives every segment its own back slot, so     *)
(* skip_copy_on_write is reachable and both flush modes occur; C makes    *)
(* the segments share one slot, so allocate_back_segment steals, and     *)
(* every checkpoint with a dirty block takes the WBINVD path that starts  *)
(* the cleaner.  The two share no state.                                  *)
(***************************************************************************)
EXTENDS Naturals

CONSTANTS Segs, Offs, Vals, NullSeg, RecordsPerLine, Threads,
          NumBufferedAddresses, BitWidth, SegmentLocks, CrashPCs,
          DBacks, DEpochModulus, DMaxFlushBlocks,
          CBacks, CEpochModulus, CMaxFlushBlocks

VARIABLES regime,
          d_committed_epoch, d_segment_state, d_back_to_main, d_main_data,
          d_back_data, d_main_to_back, d_segment_state_dirty,
          d_segment_state_update, d_block_dirty, d_segment_dirty,
          d_flush_blocks, d_address_buffer, d_flush_mode,
          d_skip_copy_on_write, d_checkpoint_in_progress, d_thread_busy,
          d_next_back_id, d_cleaner_state, d_cleaner_seg, d_cleaner_pc, d_pc,
          d_todo, d_rec, d_snap, d_published,
          c_committed_epoch, c_segment_state, c_back_to_main, c_main_data,
          c_back_data, c_main_to_back, c_segment_state_dirty,
          c_segment_state_update, c_block_dirty, c_segment_dirty,
          c_flush_blocks, c_address_buffer, c_flush_mode,
          c_skip_copy_on_write, c_checkpoint_in_progress, c_thread_busy,
          c_next_back_id, c_cleaner_state, c_cleaner_seg, c_cleaner_pc, c_pc,
          c_todo, c_rec, c_snap, c_published

dVars == <<d_committed_epoch, d_segment_state, d_back_to_main, d_main_data,
           d_back_data, d_main_to_back, d_segment_state_dirty,
           d_segment_state_update, d_block_dirty, d_segment_dirty,
           d_flush_blocks, d_address_buffer, d_flush_mode,
           d_skip_copy_on_write, d_checkpoint_in_progress, d_thread_busy,
           d_next_back_id, d_cleaner_state, d_cleaner_seg, d_cleaner_pc, d_pc,
           d_todo, d_rec, d_snap, d_published>>
cVars == <<c_committed_epoch, c_segment_state, c_back_to_main, c_main_data,
           c_back_data, c_main_to_back, c_segment_state_dirty,
           c_segment_state_update, c_block_dirty, c_segment_dirty,
           c_flush_blocks, c_address_buffer, c_flush_mode,
           c_skip_copy_on_write, c_checkpoint_in_progress, c_thread_busy,
           c_next_back_id, c_cleaner_state, c_cleaner_seg, c_cleaner_pc, c_pc,
           c_todo, c_rec, c_snap, c_published>>
regimeVars == <<regime, dVars, cVars>>

D == INSTANCE MCNvmInstEngine WITH
       Backs <- DBacks, EpochModulus <- DEpochModulus,
       MaxFlushBlocks <- DMaxFlushBlocks,
       committed_epoch <- d_committed_epoch, segment_state <- d_segment_state,
       back_to_main <- d_back_to_main, main_data <- d_main_data,
       back_data <- d_back_data, main_to_back <- d_main_to_back,
       segment_state_dirty <- d_segment_state_dirty,
       segment_state_update <- d_segment_state_update,
       block_dirty <- d_block_dirty, segment_dirty <- d_segment_dirty,
       flush_blocks <- d_flush_blocks, address_buffer <- d_address_buffer,
       flush_mode <- d_flush_mode, skip_copy_on_write <- d_skip_copy_on_write,
       checkpoint_in_progress <- d_checkpoint_in_progress,
       thread_busy <- d_thread_busy, next_back_id <- d_next_back_id,
       cleaner_state <- d_cleaner_state, cleaner_seg <- d_cleaner_seg,
       cleaner_pc <- d_cleaner_pc, pc <- d_pc, todo <- d_todo, rec <- d_rec,
       snap <- d_snap, published <- d_published

C == INSTANCE MCNvmInstEngine WITH
       Backs <- CBacks, EpochModulus <- CEpochModulus,
       MaxFlushBlocks <- CMaxFlushBlocks,
       committed_epoch <- c_committed_epoch, segment_state <- c_segment_state,
       back_to_main <- c_back_to_main, main_data <- c_main_data,
       back_data <- c_back_data, main_to_back <- c_main_to_back,
       segment_state_dirty <- c_segment_state_dirty,
       segment_state_update <- c_segment_state_update,
       block_dirty <- c_block_dirty, segment_dirty <- c_segment_dirty,
       flush_blocks <- c_flush_blocks, address_buffer <- c_address_buffer,
       flush_mode <- c_flush_mode, skip_copy_on_write <- c_skip_copy_on_write,
       checkpoint_in_progress <- c_checkpoint_in_progress,
       thread_busy <- c_thread_busy, next_back_id <- c_next_back_id,
       cleaner_state <- c_cleaner_state, cleaner_seg <- c_cleaner_seg,
       cleaner_pc <- c_cleaner_pc, pc <- c_pc, todo <- c_todo, rec <- c_rec,
       snap <- c_snap, published <- c_published

Init == regime \in {"durability", "cleaner"} /\ D!Init /\ C!Init

Next ==
  \/ regime = "durability" /\ D!Next /\ UNCHANGED <<regime, cVars>>
  \/ regime = "cleaner" /\ C!Next /\ UNCHANGED <<regime, dVars>>

\* The fairness of NvmInstEngine for the engine of the regime that runs.
CStep(A) == regime = "cleaner" /\ A /\ UNCHANGED <<regime, dVars>>

Fairness ==
  /\ WF_regimeVars(CStep(C!Leader /\ ~C!LockCleaner))
  /\ SF_regimeVars(CStep(C!LockCleaner))
  /\ SF_regimeVars(CStep(C!CleanerAcquire))
  /\ WF_regimeVars(CStep(C!CleanerStart \/ C!CleanerCheck \/
                          C!CleanerWriteBack \/ C!CleanerIdle))

Spec == Init /\ [][Next]_regimeVars /\ Fairness

TypeOK == D!TypeOK /\ C!TypeOK

(***************************************************************************)
(* With a slot per segment: every committed segment would be recovered   *)
(* by Open's recovery(SS_Back) to its contents at the last commit, across *)
(* skip_copy_on_write, both flush modes and crashes at run, lock,         *)
(* main_set, write_back and back_set.                                      *)
(***************************************************************************)
DPublishedRecoverable == D!PublishedRecoverable

(***************************************************************************)
(* With a slot per segment: outside checkpoint(), every block of a        *)
(* committed segment that differs from the last commit is in an address   *)
(* buffer or in block_dirty, so the next checkpoint writes it back.       *)
(***************************************************************************)
DStoresAreTracked == D!StoresAreTracked

(***************************************************************************)
(* With one shared slot: durability of committed segments across the     *)
(* steals of allocate_back_segment, which may only take the slot of a    *)
(* segment whose committed copy does not need it.                         *)
(***************************************************************************)
CPublishedRecoverable == C!PublishedRecoverable

(***************************************************************************)
(* A checkpoint that has begun its commit ends once crashes stop: the    *)
(* leader gets cleaner_mutex from a cleaner waiting on                    *)
(* checkpoint_in_progress.                                                 *)
(***************************************************************************)
CCheckpointCompletes == C!CheckpointCompletes

(***************************************************************************)
(* The cleaner started by a WBINVD checkpoint reaches WB_IDLE once        *)
(* checkpoints stop: the leader's notify_all wakes it.                   *)
(***************************************************************************)
CCleanerQuiesces == C!CleanerQuiesces

=============================================================================

--------------------------- MODULE MCHybridRegimes ---------------------------
(***************************************************************************)
(* The hybrid engine in two regimes, one per behaviour, chosen at the     *)
(* start.  H is one segment of two blocks with its own back slot, three   *)
(* values and crashes where no NVM write of the checkpoint is pending:    *)
(* durability and refinement are checked there.  X is two segments of one *)
(* block sharing one slot, so allocate_back_segment steals the slot and   *)
(* find_back_segment exits on "no free back segments" when both segments *)
(* are dirty.  The two share no state.                                     *)
(***************************************************************************)
EXTENDS Naturals

CONSTANTS Backs, NullSeg, RecordsPerLine, EpochModulus, Threads,
          MaxFlushBlocks, NumBufferedAddresses, IdleCheckpoints, ObservedPCs,
          HSegs, HOffs, HVals, HCrashPCs,
          XSegs, XOffs, XVals, XCrashPCs

VARIABLES regime,
          h_committed_epoch, h_segment_state, h_back_to_main, h_main_data,
          h_back_data, h_main_to_back, h_segment_state_dirty,
          h_segment_state_update, h_work, h_epoch, h_block_dirty,
          h_segment_dirty, h_flush_blocks, h_address_buffer, h_flush_mode,
          h_prev_flush_mode, h_next_back_segment, h_pc, h_todo, h_rec,
          h_snap, h_creating, h_back_memory_lock,
          x_committed_epoch, x_segment_state, x_back_to_main, x_main_data,
          x_back_data, x_main_to_back, x_segment_state_dirty,
          x_segment_state_update, x_work, x_epoch, x_block_dirty,
          x_segment_dirty, x_flush_blocks, x_address_buffer, x_flush_mode,
          x_prev_flush_mode, x_next_back_segment, x_pc, x_todo, x_rec,
          x_snap, x_creating, x_back_memory_lock

hVars == <<h_committed_epoch, h_segment_state, h_back_to_main, h_main_data,
           h_back_data, h_main_to_back, h_segment_state_dirty,
           h_segment_state_update, h_work, h_epoch, h_block_dirty,
           h_segment_dirty, h_flush_blocks, h_address_buffer, h_flush_mode,
           h_prev_flush_mode, h_next_back_segment, h_pc, h_todo, h_rec,
           h_snap, h_creating, h_back_memory_lock>>
xVars == <<x_committed_epoch, x_segment_state, x_back_to_main, x_main_data,
           x_back_data, x_main_to_back, x_segment_state_dirty,
           x_segment_state_update, x_work, x_epoch, x_block_dirty,
           x_segment_dirty, x_flush_blocks, x_address_buffer, x_flush_mode,
           x_prev_flush_mode, x_next_back_segment, x_pc, x_todo, x_rec,
           x_snap, x_creating, x_back_memory_lock>>
regimeVars == <<regime, hVars, xVars>>

H == INSTANCE MCHybridInstEngine WITH
       Segs <- HSegs, Offs <- HOffs, Vals <- HVals, CrashPCs <- HCrashPCs,
       committed_epoch <- h_committed_epoch,
       segment_state <- h_segment_state, back_to_main <- h_back_to_main,
       main_data <- h_main_data, back_data <- h_back_data,
       main_to_back <- h_main_to_back,
       segment_state_dirty <- h_segment_state_dirty,
       segment_state_update <- h_segment_state_update, work <- h_work,
       epoch <- h_epoch, block_dirty <- h_block_dirty,
       segment_dirty <- h_segment_dirty, flush_blocks <- h_flush_blocks,
       address_buffer <- h_address_buffer, flush_mode <- h_flush_mode,
       prev_flush_mode <- h_prev_flush_mode,
       next_back_segment <- h_next_back_segment, pc <- h_pc, todo <- h_todo,
       rec <- h_rec, snap <- h_snap, creating <- h_creating,
       back_memory_lock <- h_back_memory_lock

X == INSTANCE MCHybridInstEngine WITH
       Segs <- XSegs, Offs <- XOffs, Vals <- XVals, CrashPCs <- XCrashPCs,
       committed_epoch <- x_committed_epoch,
       segment_state <- x_segment_state, back_to_main <- x_back_to_main,
       main_data <- x_main_data, back_data <- x_back_data,
       main_to_back <- x_main_to_back,
       segment_state_dirty <- x_segment_state_dirty,
       segment_state_update <- x_segment_state_update, work <- x_work,
       epoch <- x_epoch, block_dirty <- x_block_dirty,
       segment_dirty <- x_segment_dirty, flush_blocks <- x_flush_blocks,
       address_buffer <- x_address_buffer, flush_mode <- x_flush_mode,
       prev_flush_mode <- x_prev_flush_mode,
       next_back_segment <- x_next_back_segment, pc <- x_pc, todo <- x_todo,
       rec <- x_rec, snap <- x_snap, creating <- x_creating,
       back_memory_lock <- x_back_memory_lock

\* The constructor leaves flush_mode uninitialised; in the engine that does
\* not run it is fixed to one value.
Init ==
  /\ regime \in {"one_segment", "shared_slot"}
  /\ H!Init /\ X!Init
  /\ regime = "one_segment" => x_flush_mode = X!FMODE_NO_ACTION
  /\ regime = "shared_slot" => h_flush_mode = H!FMODE_NO_ACTION

Next ==
  \/ regime = "one_segment" /\ H!Next /\ UNCHANGED <<regime, xVars>>
  \/ regime = "shared_slot" /\ X!Next /\ UNCHANGED <<regime, hVars>>

Spec == Init /\ [][Next]_regimeVars

TypeOK == H!TypeOK /\ X!TypeOK

(***************************************************************************)
(* One segment: outside checkpoint(), every block whose DRAM value        *)
(* differs from the last checkpoint is in an address buffer or in         *)
(* block_dirty of the current epoch, so the next checkpoint copies it.    *)
(***************************************************************************)
HStoresAreTracked == H!StoresAreTracked

(***************************************************************************)
(* One segment, I2 for SS_Main: the main segment holds the last committed *)
(* version through apply_dram_to_main and the deferred apply_nvm_to_nvm   *)
(* of a checkpoint that follows a WBINVD one.                             *)
(***************************************************************************)
HMainCopyIsCheckpoint == H!MainCopyIsCheckpoint

(***************************************************************************)
(* One segment, I2 for SS_Back: the segment has a slot and the slot holds *)
(* the last committed version, across the dual-epoch sync and apply.     *)
(***************************************************************************)
HBackCopyIsCheckpoint == H!BackCopyIsCheckpoint

(***************************************************************************)
(* One segment: were the process to die now, recovery(SS_Main) and       *)
(* prepare_working_memory would rebuild the last committed checkpoint.   *)
(***************************************************************************)
HCrashRecoversCheckpoint == H!CrashRecoversCheckpoint

(***************************************************************************)
(* One segment: every recovery that runs to prepare_working_memory's end *)
(* leaves DRAM equal to the last committed checkpoint, across repeated    *)
(* crashes.                                                                *)
(***************************************************************************)
HRecoveryRestoresCheckpoint == H!RecoveryRestoresCheckpoint

(***************************************************************************)
(* One segment: the engine implements SnapshotMemory, stores changing the *)
(* memory, a committed_epoch store taking the snapshot, and a crash with  *)
(* Open's recovery returning the memory to the snapshot.                  *)
(***************************************************************************)
HRefinesSnapshot == H!RefinesSnapshot

=============================================================================

------------------------ MODULE MCHybridInstEngine ------------------------
(***************************************************************************)
(* Model-checking harness for HybridInstEngine: the properties checked of  *)
(* the engine composed with the checkpoint image.                         *)
(***************************************************************************)
EXTENDS HybridInstEngine

CONSTANT
  ObservedPCs   \* positions of the leader at which a crash is evaluated

(***************************************************************************)
(* Durability, crash by crash: after a crash at any explored point, Open's *)
(* recovery(SS_Main) and prepare_working_memory rebuild in DRAM exactly   *)
(* the working memory of the last checkpoint whose committed_epoch store  *)
(* happened, also across crashes during recovery and later checkpoints.   *)
(***************************************************************************)
RecoveryRestoresCheckpoint ==
  [][pc = "prepare" /\ pc' = "run" => work' = snap]_vars

(***************************************************************************)
(* Durability, at every instant: were the process to die now, at a point  *)
(* of ObservedPCs, recovery(SS_Main) followed by prepare_working_memory      *)
(* would rebuild the working memory of the last committed checkpoint.     *)
(***************************************************************************)
CrashRecoversCheckpoint ==
  pc \in ObservedPCs => RecoveredWork = snap

(***************************************************************************)
(* Invariant I2 for segments whose authoritative state is SS_Main: the    *)
(* main segment holds the last committed version, at every point of       *)
(* ObservedPCs.  The epoch-0 write-back (apply_dram_to_main_parallel)     *)
(* and the synchronous copy of the previous epoch (apply_nvm_to_nvm) are  *)
(* what must keep it.                                                      *)
(***************************************************************************)
MainCopyIsCheckpoint ==
  pc \in ObservedPCs =>
    \A s \in Segs : GetSegmentState(s) = SS_Main => main_data[s] = snap[s]

(***************************************************************************)
(* Invariant I2 for segments whose authoritative state is SS_Back: the     *)
(* segment has a back slot and the slot holds the last committed version. *)
(* Slot allocation and stealing (allocate_back_segment) and the creation  *)
(* path of apply_dram_to_main_parallel are what must keep it.             *)
(***************************************************************************)
BackCopyIsCheckpoint ==
  pc \in ObservedPCs =>
    \A s \in Segs : GetSegmentState(s) = SS_Back =>
       /\ main_to_back[s] /= NullSeg
       /\ back_data[main_to_back[s]] = snap[s]

(***************************************************************************)
(* The dirty tracker is complete: outside checkpoint(), every block whose  *)
(* DRAM content differs from the last committed checkpoint is either in   *)
(* some thread's address buffer or in the current epoch's block bitmap,    *)
(* so the next checkpoint writes it.  It rests on address_buffer_clear,    *)
(* hook_routine's test-and-set, the leader draining every buffer, and the  *)
(* bitmaps clear_dirty_bits_last_epoch leaves for the next epoch.         *)
(***************************************************************************)
StoresAreTracked ==
  pc = "run" =>
    \A s \in Segs, o \in Offs :
       work[s][o] /= snap[s][o] =>
          \/ <<s, o>> \in block_dirty[epoch]
          \/ \E t \in Threads : <<s, o>> \in ToSet(address_buffer[t])

(***************************************************************************)
(* back_memory_lock is free whenever no thread is inside                   *)
(* allocate_back_segment.  The one path that returns holding it, when      *)
(* every slot belongs to a segment dirty in this epoch, is meant to end in *)
(* find_back_segment's exit on "no free back segments"; a process that     *)
(* goes on holding the lock hangs at its next allocation.                  *)
(***************************************************************************)
BackMemoryLockReleased == ~back_memory_lock

(***************************************************************************)
(* Refinement.  The snapshot is what Open's recovery(SS_Main) and         *)
(* prepare_working_memory would rebuild from the image now; the memory    *)
(* the program sees is DRAM, or, while Open recovers, that snapshot.      *)
(***************************************************************************)
Recovering == pc \in {"recover", "recover_copy", "prepare"}
HMem == IF Recovering THEN RecoveredWork ELSE work

Abs == INSTANCE SnapshotMemory WITH
         Units <- Segs \X Offs, Zero <- 0,
         mem <- [b \in Segs \X Offs |-> HMem[b[1]][b[2]]],
         snap <- [b \in Segs \X Offs |-> RecoveredWork[b[1]][b[2]]]

(***************************************************************************)
(* The hybrid engine implements SnapshotMemory: the image changes what a  *)
(* recovery would restore only at a commit's epoch store, and then to the *)
(* DRAM contents; every other step of checkpoint() (the NVM-to-NVM sync, *)
(* both write-backs, the set loop and the copy-back) and of recovery      *)
(* leaves it alone, and a crash gives the program exactly that.           *)
(***************************************************************************)
RefinesSnapshot == Abs!Spec

=============================================================================

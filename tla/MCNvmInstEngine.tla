------------------------- MODULE MCNvmInstEngine -------------------------
(***************************************************************************)
(* Model-checking harness for NvmInstEngine: durability of the engine     *)
(* composed with the checkpoint image, and the progress of checkpoint()   *)
(* and of the cleaner thread.                                              *)
(***************************************************************************)
EXTENDS NvmInstEngine

(***************************************************************************)
(* Durability of committed segments: for every segment some checkpoint    *)
(* has committed, were the process to die now, Open's recovery(SS_Back)   *)
(* would leave in main exactly its contents at the last commit point.     *)
(* The copy-on-write hook must have saved the committed version in the   *)
(* slot before the first store of the epoch, the clearing of             *)
(* segment_dirty at the end of a checkpoint must re-arm that hook, and   *)
(* the cleaner and write_back_parallel must copy only committed data.    *)
(***************************************************************************)
PublishedRecoverable ==
  LET md == RecoveredMain(0, main_data)
  IN \A s \in published : md[s] = snap[s]

(***************************************************************************)
(* Every dirty block of the program reaches the next checkpoint: outside  *)
(* checkpoint(), a block of a committed segment whose main content        *)
(* differs from the last commit point is in some thread's address buffer  *)
(* or in block_dirty.  It rests                                            *)
(* on the drain of every buffer by the leader and on clear_dirty_bits     *)
(* clearing only what the buckets wrote back.                            *)
(***************************************************************************)
StoresAreTracked ==
  pc = "run" =>
    \A s \in published, o \in Offs :
      main_data[s][o] /= snap[s][o] =>
        \/ <<s, o>> \in block_dirty
        \/ \E t \in Threads : <<s, o>> \in ToSet(address_buffer[t])

(***************************************************************************)
(* A checkpoint that has begun its commit ends: the leader gets           *)
(* cleaner_mutex from a cleaner that waits for checkpoint_in_progress,    *)
(* and the process is back to running (after an exit, once recovery is    *)
(* done), in every behaviour in which crashes eventually stop.            *)
(***************************************************************************)
CheckpointCompletes ==
  <>[][~Crash]_vars => (pc /= "run" ~> pc = "run")

(***************************************************************************)
(* The background write-back started by a FMODE_WBINVD checkpoint reaches *)
(* WB_IDLE once no more checkpoints come: the notify_all of the leader    *)
(* wakes a cleaner that waited for checkpoint_in_progress.               *)
(***************************************************************************)
CleanerQuiesces ==
  <>[](pc = "run") => <>[](cleaner_state = WB_IDLE)

=============================================================================

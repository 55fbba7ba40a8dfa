--------------------------- MODULE DirtyBitEngine ---------------------------
(***************************************************************************)
(* DirtyBitEngine (dirtybit_engine.cpp, without USE_HYBRID_MEMORY, which   *)
(* only the MPI build defines), the single-epoch engine that lets the     *)
(* kernel track stores: a store sets the page's soft-dirty bit; checkpoint *)
(* reads the bits from /proc/self/pagemap into pte_buffer, issues WBINVD,  *)
(* says consistent_data = kMainData, copies the soft-dirty pages to back,  *)
(* says kBackData and writes "4" to /proc/self/clear_refs.                 *)
(*                                                                         *)
(* Units are the pages of this pool's main arena.  soft_dirty is the set  *)
(* of soft-dirty pages of the whole process, AllPages: clear_refs clears   *)
(* the bit of every page of the process, not only of this pool's pages.   *)
(***************************************************************************)
EXTENDS MetadataV1

CONSTANTS AllPages

ASSUME Units \subseteq AllPages

VARIABLES
  soft_dirty,   \* pages whose PTE has the soft-dirty bit (process-wide)
  pte_buffer,   \* the pages read_page_map found soft-dirty
  pc,           \* "run", "write_back" (in checkpoint) or "recover" (in Open)
  todo          \* pages the current loop has still to copy

localVars == <<metaVars, pte_buffer, pc, todo>>

TypeOK ==
  /\ MetaTypeOK
  /\ soft_dirty \subseteq AllPages
  /\ pte_buffer \subseteq Units
  /\ pc \in {"run", "write_back", "recover"}
  /\ todo \subseteq Units

\* reset_page_map: write "4" to /proc/self/clear_refs.
ResetPageMap == soft_dirty' = {}

\* read_page_map: the soft-dirty bits of this pool's pages.
ReadPageMap == soft_dirty \cap Units

\* Open on a new file: MetadataV1::Open(create), start_dirty_bit_trace
\* and reset_page_map.  Init is the state after it.
Init ==
  /\ OpenCreate
  /\ pte_buffer = {}
  /\ pc = "run" /\ todo = {}

\* A store of the program: the kernel sets the page's soft-dirty bit.
Store(u, v) ==
  /\ pc = "run"
  /\ StoreMain(u, v)
  /\ soft_dirty' = soft_dirty \cup {u}
  /\ UNCHANGED <<consistent_data, back_data, pte_buffer, pc, todo>>

(***************************************************************************)
(* checkpoint(nr_threads), the leader's part after the first barrier:     *)
(* read_page_map, WriteBackAndInvalidate, StoreFence and                  *)
(* set_consistent_data(kMainData).                                        *)
(***************************************************************************)
\* Variant: no WriteBackAndInvalidate before kMainData.
CheckpointNoWbinvd ==
  /\ pc = "run"
  /\ pte_buffer' = ReadPageMap
  /\ UNCHANGED nvm_main
  /\ SetConsistentData(kMainData)
  /\ pc' = "write_back" /\ todo' = ReadPageMap
  /\ UNCHANGED <<main_data, back_data, soft_dirty>>
Checkpoint ==
  /\ pc = "run"
  /\ pte_buffer' = ReadPageMap
  /\ FlushUnits(Units)
  /\ SetConsistentData(kMainData)
  /\ pc' = "write_back" /\ todo' = ReadPageMap
  /\ UNCHANGED <<main_data, back_data, soft_dirty>>

\* One page of write_back_parallel: a page soft-dirty in pte_buffer (todo
\* holds those not yet copied) goes main to back with NonTemporalCopy256.
WriteBack(u) ==
  /\ pc = "write_back" /\ u \in todo
  /\ CopyMainToBack(u)
  /\ todo' = todo \ {u}
  /\ UNCHANGED <<consistent_data, main_data, nvm_main, soft_dirty, pte_buffer, pc>>

\* The barrier, then the leader: set_consistent_data(kBackData) and
\* reset_page_map.
\* Variant: the leader does not wait at the barrier for the copies.
CheckpointDoneNoBarrier ==
  /\ pc = "write_back"
  /\ SetConsistentData(kBackData)
  /\ ResetPageMap
  /\ pc' = "run"
  /\ UNCHANGED <<main_data, nvm_main, back_data, pte_buffer, todo>>
CheckpointDone ==
  /\ pc = "write_back" /\ todo = {}
  /\ SetConsistentData(kBackData)
  /\ ResetPageMap
  /\ pc' = "run"
  /\ UNCHANGED <<main_data, nvm_main, back_data, pte_buffer, todo>>

\* The process ends; Open(path) will run recover_data.  What becomes of
\* soft_dirty is the process's, and the composition says it.
Crash(lost) ==
  /\ LoseUnflushed(lost)
  /\ pte_buffer' = {}
  /\ pc' = "recover" /\ todo' = Units
  /\ UNCHANGED <<consistent_data, back_data>>

RecoverUnit(u) ==
  /\ pc = "recover" /\ u \in todo
  /\ RecoverDataUnit(u)
  /\ todo' = todo \ {u}
  /\ UNCHANGED <<soft_dirty, pte_buffer, pc>>

\* The end of recover_data, then start_dirty_bit_trace and reset_page_map.
RecoverDone ==
  /\ pc = "recover" /\ todo = {}
  /\ RecoverDataDone
  /\ ResetPageMap
  /\ pc' = "run"
  /\ UNCHANGED <<pte_buffer, todo>>

\* The steps of this pool alone; a composition adds the process crash.
Step ==
  \/ \E u \in Units, v \in Vals : Store(u, v)
  \/ Checkpoint
  \/ \E u \in Units : WriteBack(u) \/ RecoverUnit(u)
  \/ CheckpointDone
  \/ RecoverDone

=============================================================================

--------------------------- MODULE MProtectEngine ---------------------------
(***************************************************************************)
(* MProtectEngine (mprotect_engine.cpp), the single-epoch engine that      *)
(* tracks stores with page protection.  Every region of main is read-only *)
(* after Open and after each checkpoint; the first store to a region traps *)
(* into the SIGSEGV handler, which marks the region in region_dirty, makes *)
(* it writable and appends it to the faulting thread's bucket              *)
(* flush_regions[tid] unless that bucket holds kMaxFlushRegions entries.   *)
(* checkpoint(nr_threads) persists main (flushing the bucket regions, or   *)
(* WBINVD when a bucket is full), says consistent_data = kMainData, copies *)
(* the dirty regions to back, and says kBackData.                          *)
(*                                                                         *)
(* Units are the regions 0 .. nr_regions - 1.  The threads calling         *)
(* checkpoint meet in barriers, so no thread stores or faults while it     *)
(* runs; the parallel loops are one step per region, in any order.        *)
(***************************************************************************)
EXTENDS MetadataV1, Naturals, Sequences, SequencesExt

CONSTANTS Threads, MaxFlushRegions, BitWidth, NoTrap

ASSUME /\ Units \subseteq Nat
       /\ MaxFlushRegions \in Nat \ {0}
       /\ BitWidth \in Nat \ {0}

VARIABLES
  writable,       \* regions protect_regions left PROT_READ | PROT_WRITE
  region_dirty,   \* the AtomicBitSet region_dirty
  flush_regions,  \* flush_regions[tid][0 .. flush_regions_count[tid] - 1]
  trap,           \* a thread inside the SIGSEGV handler: <<region, value>>
  flush_mode,
  pc,             \* "run", "write_back" (in checkpoint) or "recover" (in Open)
  todo            \* regions the current parallel loop has still to copy

engineVars == <<writable, region_dirty, flush_regions, trap, flush_mode>>
localVars == <<metaVars, engineVars, pc, todo>>

FMODE_NO_ACTION == "FMODE_NO_ACTION"
FMODE_USE_FLUSH_BLOCKS == "FMODE_USE_FLUSH_BLOCKS"
FMODE_WBINVD == "FMODE_WBINVD"

TypeOK ==
  /\ MetaTypeOK
  /\ writable \subseteq Units /\ region_dirty \subseteq Units
  /\ \A t \in Threads : flush_regions[t] \in Seq(Units)
                        /\ Len(flush_regions[t]) <= MaxFlushRegions
  /\ trap \in [Threads -> (Units \X Vals) \cup {NoTrap}]
  /\ flush_mode \in {FMODE_NO_ACTION, FMODE_USE_FLUSH_BLOCKS, FMODE_WBINVD}
  /\ pc \in {"run", "write_back", "recover"}
  /\ todo \subseteq Units

\* The regions the buckets name.
BucketRegions == UNION {ToSet(flush_regions[t]) : t \in Threads}

\* clear_all(region_id) stores 0 into the whole word holding the bit.
ClearWords(S, idxs) == {u \in S : u \div BitWidth \notin {i \div BitWidth : i \in idxs}}

\* The leader's choice in checkpoint(): no action when every bucket is
\* empty, WBINVD when one is full, else flushing the bucket regions.
\* Variant: the test for a full bucket left out.
FlushModeOfIgnoringFull(fr) ==
  IF \A t \in Threads : fr[t] = <<>> THEN FMODE_NO_ACTION
  ELSE FMODE_USE_FLUSH_BLOCKS
FlushModeOf(fr) ==
  IF \A t \in Threads : fr[t] = <<>> THEN FMODE_NO_ACTION
  ELSE IF \E t \in Threads : Len(fr[t]) = MaxFlushRegions THEN FMODE_WBINVD
  ELSE FMODE_USE_FLUSH_BLOCKS

\* flush_parallel: WriteBackAndInvalidate by the leader, or FlushRegion of
\* every region the buckets name; then StoreFence.
FlushParallel(mode) ==
  FlushUnits(IF mode = FMODE_WBINVD THEN Units ELSE BucketRegions)

\* The regions write_back_parallel copies: those region_dirty.test finds
\* set under FMODE_WBINVD, else those the buckets name.
WriteBackRegions(mode) ==
  IF mode = FMODE_WBINVD THEN region_dirty ELSE BucketRegions

\* clear_dirty_bits_parallel: every word under FMODE_WBINVD, else
\* clear_all(region_id) for each bucket region.
ClearDirtyBitsParallel(mode) ==
  IF mode = FMODE_WBINVD THEN {} ELSE ClearWords(region_dirty, BucketRegions)

\* Open: the new engine's region_dirty.allocate, and
\* protect_regions(0, nr_regions, false).
OpenEngine ==
  /\ writable' = {} /\ region_dirty' = {}
  /\ flush_regions' = [t \in Threads |-> <<>>]
  /\ trap' = [t \in Threads |-> NoTrap]
  /\ flush_mode' = FMODE_NO_ACTION

Init ==
  /\ OpenCreate
  /\ writable = {} /\ region_dirty = {}
  /\ flush_regions = [t \in Threads |-> <<>>]
  /\ trap = [t \in Threads |-> NoTrap]
  /\ flush_mode = FMODE_NO_ACTION
  /\ pc = "run" /\ todo = {}

\* A store to a writable region.
Store(t, u, v) ==
  /\ pc = "run" /\ trap[t] = NoTrap
  /\ u \in writable
  /\ StoreMain(u, v)
  /\ UNCHANGED <<consistent_data, back_data, engineVars, pc, todo>>

\* A store to a read-only region raises SIGSEGV (SEGV_ACCERR) in thread t.
Fault(t, u, v) ==
  /\ pc = "run" /\ trap[t] = NoTrap
  /\ u \notin writable
  /\ trap' = [trap EXCEPT ![t] = <<u, v>>]
  /\ UNCHANGED <<metaVars, writable, region_dirty, flush_regions, flush_mode, pc, todo>>

\* SegfaultHandlerProc finds the engine by address and runs
\* sigfault_handler: region_dirty.set, protect_regions(region_id, 1, true),
\* and the append unless the bucket is full.  The store is then re-executed.
\* Variant: the append tests bucket_size <= kMaxFlushRegions.
SigfaultHandlerOverflow(t) ==
  LET u == trap[t][1]
  IN /\ trap[t] /= NoTrap
     /\ region_dirty' = region_dirty \cup {u}
     /\ writable' = writable \cup {u}
     /\ flush_regions' =
          IF Len(flush_regions[t]) <= MaxFlushRegions
            THEN [flush_regions EXCEPT ![t] = Append(@, u)]
            ELSE flush_regions
     /\ StoreMain(u, trap[t][2])
     /\ trap' = [trap EXCEPT ![t] = NoTrap]
     /\ UNCHANGED <<consistent_data, back_data, flush_mode, pc, todo>>
SigfaultHandler(t) ==
  LET u == trap[t][1]
  IN /\ trap[t] /= NoTrap
     /\ region_dirty' = region_dirty \cup {u}
     /\ writable' = writable \cup {u}
     /\ flush_regions' =
          IF Len(flush_regions[t]) /= MaxFlushRegions
            THEN [flush_regions EXCEPT ![t] = Append(@, u)]
            ELSE flush_regions
     /\ StoreMain(u, trap[t][2])
     /\ trap' = [trap EXCEPT ![t] = NoTrap]
     /\ UNCHANGED <<consistent_data, back_data, flush_mode, pc, todo>>

(***************************************************************************)
(* checkpoint(nr_threads) up to write_back_parallel: after the barrier the *)
(* leader picks flush_mode; FMODE_NO_ACTION returns at once.  Otherwise   *)
(* flush_parallel (WBINVD, or FlushRegion of every bucket region), the    *)
(* barrier, set_consistent_data(kMainData) and protect_regions(0,         *)
(* nr_regions, false).                                                     *)
(***************************************************************************)
\* Variant: the leader does not protect the regions again.
CheckpointKeepWritable ==
  LET mode == FlushModeOf(flush_regions)
  IN /\ pc = "run"
     /\ \A t \in Threads : trap[t] = NoTrap
     /\ flush_mode' = mode
     /\ IF mode = FMODE_NO_ACTION
          THEN UNCHANGED <<metaVars, writable, pc, todo>>
          ELSE /\ FlushParallel(mode)
               /\ SetConsistentData(kMainData)
               /\ UNCHANGED writable
               /\ pc' = "write_back"
               /\ todo' = WriteBackRegions(mode)
               /\ UNCHANGED <<main_data, back_data>>
     /\ UNCHANGED <<region_dirty, flush_regions, trap>>
Checkpoint ==
  LET mode == FlushModeOf(flush_regions)
  IN /\ pc = "run"
     /\ \A t \in Threads : trap[t] = NoTrap
     /\ flush_mode' = mode
     /\ IF mode = FMODE_NO_ACTION
          THEN UNCHANGED <<metaVars, writable, pc, todo>>
          ELSE /\ FlushParallel(mode)
               /\ SetConsistentData(kMainData)
               /\ writable' = {}
               /\ pc' = "write_back"
               /\ todo' = WriteBackRegions(mode)
               /\ UNCHANGED <<main_data, back_data>>
     /\ UNCHANGED <<region_dirty, flush_regions, trap>>

\* One region of write_back_parallel: NonTemporalCopy256 main to back.
WriteBack(u) ==
  /\ pc = "write_back" /\ u \in todo
  /\ CopyMainToBack(u)
  /\ todo' = todo \ {u}
  /\ UNCHANGED <<consistent_data, main_data, nvm_main, engineVars, pc>>

\* The barrier, clear_dirty_bits_parallel, and the leader's
\* set_consistent_data(kBackData) and reset of the bucket counts.
CheckpointDone ==
  /\ pc = "write_back" /\ todo = {}
  /\ region_dirty' = ClearDirtyBitsParallel(flush_mode)
  /\ SetConsistentData(kBackData)
  /\ flush_regions' = [t \in Threads |-> <<>>]
  /\ pc' = "run"
  /\ UNCHANGED <<main_data, nvm_main, back_data, writable, trap, flush_mode, todo>>

\* The process ends at any point (lost: the units a power failure takes
\* back to their last flushed value) and Open(path) starts recover_data.
Crash(lost) ==
  /\ LoseUnflushed(lost)
  /\ OpenEngine
  /\ pc' = "recover" /\ todo' = Units
  /\ UNCHANGED <<consistent_data, back_data>>

RecoverUnit(u) ==
  /\ pc = "recover" /\ u \in todo
  /\ RecoverDataUnit(u)
  /\ todo' = todo \ {u}
  /\ UNCHANGED <<engineVars, pc>>

\* The end of recover_data, then the rest of Open.
RecoverDone ==
  /\ pc = "recover" /\ todo = {}
  /\ RecoverDataDone
  /\ OpenEngine
  /\ pc' = "run"
  /\ UNCHANGED todo

\* The steps of this pool alone; a composition adds the process crash.
Step ==
  \/ \E t \in Threads, u \in Units, v \in Vals : Store(t, u, v) \/ Fault(t, u, v)
  \/ \E t \in Threads : SigfaultHandler(t)
  \/ Checkpoint
  \/ \E u \in Units : WriteBack(u) \/ RecoverUnit(u)
  \/ CheckpointDone
  \/ RecoverDone

=============================================================================

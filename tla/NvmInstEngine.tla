--------------------------- MODULE NvmInstEngine ---------------------------
(***************************************************************************)
(* The NVM instrumented engine of libcrpm                                 *)
(* (src/runtime/src/engines/nvm_inst_engine.cpp) on top of the checkpoint *)
(* image.  The program works in the main arena itself; the back slots      *)
(* keep the last checkpoint of the segments written since.  Before the    *)
(* first store of an epoch to a segment, the copy-on-write hook runs       *)
(* lazy_write_back under the segment's spin lock, which brings the back   *)
(* slot up to date and marks the segment SS_Back.  A checkpoint commits   *)
(* the written segments as SS_Main; with FMODE_USE_FLUSH_BLOCKS it then   *)
(* copies the buffered blocks to their slots and commits SS_Back, with    *)
(* FMODE_WBINVD it leaves that copy to the cleaner thread                 *)
(* (WriteBackThreadRoutine), which walks every segment in the background. *)
(*                                                                         *)
(* Segment contents are one value per block; the blocks of a segment are  *)
(* taken to share one word of block_dirty (kBlocksPerSegment is a multiple *)
(* of the word width), while segment_dirty words hold BitWidth segments.  *)
(* A lazy_write_back, a store and a work item of write_back_parallel are  *)
(* single steps: each runs under the segment lock or the back-memory lock *)
(* that excludes the other actors touching the same data.                 *)
(***************************************************************************)
EXTENDS CheckpointImage, Sequences, SequencesExt

CONSTANTS
  Threads,               \* ThreadInfo ids of the mutator threads: 0 .. n-1
  MaxFlushBlocks,        \* kMaxFlushBlocks, capacity of a flush bucket
  NumBufferedAddresses,  \* kNumBufferedAddresses, capacity of an address buffer
  BitWidth,              \* AtomicBitSet::kBitWidth
  SegmentLocks,          \* kSegmentLocks, size of the segment lock array
  CrashPCs               \* the positions of the leader at which a crash is explored

ASSUME Threads = 0 .. Cardinality(Threads) - 1
ASSUME Segs = 0 .. Cardinality(Segs) - 1 /\ Backs = 0 .. Cardinality(Backs) - 1
ASSUME MaxFlushBlocks \in Nat \ {0} /\ NumBufferedAddresses \in Nat \ {0}
ASSUME BitWidth \in Nat \ {0} /\ SegmentLocks \in Nat \ {0}

\* NvmInstEngine::FlushMode and NvmInstEngine::CleanerState
FMODE_NO_ACTION == "FMODE_NO_ACTION"
FMODE_USE_FLUSH_BLOCKS == "FMODE_USE_FLUSH_BLOCKS"
FMODE_WBINVD == "FMODE_WBINVD"
FlushModes == {FMODE_NO_ACTION, FMODE_USE_FLUSH_BLOCKS, FMODE_WBINVD}
WB_STARTED == "WB_STARTED"
WB_RUNNING == "WB_RUNNING"
WB_IDLE == "WB_IDLE"
CleanerStates == {WB_STARTED, WB_RUNNING, WB_IDLE}

Blocks == Segs \X Offs
NrSegs == Cardinality(Segs)
NrBack == Cardinality(Backs)
\* Where the leader is in checkpoint() (run: none in progress) or in Open's
\* recovery; main_* and back_* are the two commit_layout_state calls.
PCs == {"run", "lock", "main_set", "main_epoch", "main_copy", "write_back",
        "back_set", "back_epoch", "back_copy", "recover", "recover_copy"}
\* Where the cleaner thread is: waiting to take cleaner_mutex at its start
\* or after a wake-up, in its loop holding it (copy: between the test of
\* checkpoint_in_progress and lazy_write_back), or in cleaner_condvar.wait.
CleanerPCs == {"start", "loop", "copy", "wait", "wake"}
ASSUME CrashPCs \subseteq PCs

VARIABLES
  block_dirty,             \* block_dirty
  segment_dirty,           \* segment_dirty
  flush_blocks,            \* flush_blocks[tid][0 .. flush_blocks_count[tid]-1]
  address_buffer,          \* AddressBuffer ptr[0 .. length-1], per thread
  flush_mode,
  skip_copy_on_write,
  checkpoint_in_progress,
  thread_busy,             \* the leader's local of checkpoint()
  next_back_id,
  cleaner_state,
  cleaner_seg,             \* segment_id of WriteBackThreadRoutine
  cleaner_pc,
  pc,                      \* leader's position in checkpoint() or recovery
  todo,                    \* per checkpoint thread, the blocks left to write back
  rec,                     \* back_id of recovery()'s loop
  snap,                    \* ghost: the main arena at the last commit point
  published                \* ghost: segments some checkpoint has committed

engineVars == <<block_dirty, segment_dirty, flush_blocks, address_buffer,
                flush_mode, skip_copy_on_write, checkpoint_in_progress,
                thread_busy, next_back_id>>
cleanerVars == <<cleaner_state, cleaner_seg, cleaner_pc>>
ctlVars == <<pc, todo, rec, snap, published>>
vars == <<imageVars, engineVars, cleanerVars, ctlVars>>

TypeOK ==
  /\ ImageTypeOK
  /\ block_dirty \subseteq Blocks /\ segment_dirty \subseteq Segs
  /\ flush_blocks \in [Threads -> Seq(Blocks)]
  /\ \A t \in Threads : Len(flush_blocks[t]) <= MaxFlushBlocks
  /\ address_buffer \in [Threads -> Seq(Blocks)]
  /\ \A t \in Threads : Len(address_buffer[t]) < NumBufferedAddresses
  /\ flush_mode \in FlushModes
  /\ skip_copy_on_write \in BOOLEAN /\ checkpoint_in_progress \in BOOLEAN
  /\ thread_busy \in BOOLEAN /\ next_back_id \in Backs
  /\ cleaner_state \in CleanerStates /\ cleaner_seg \in 0 .. NrSegs
  /\ cleaner_pc \in CleanerPCs /\ pc \in PCs
  /\ todo \in [Threads -> Seq(Blocks)] /\ rec \in 0 .. NrBack
  /\ snap \in [Segs -> [Offs -> Vals]] /\ published \subseteq Segs

(***************************************************************************)
(* AtomicBitSet on segment ids: clear_region(0, end) stores 0 into the     *)
(* words below end >> kBitShift; clear_all(idx) into the word of idx.      *)
(***************************************************************************)
ClearRegion(S, end) == {s \in S : s \div BitWidth >= end \div BitWidth}
ClearWords(S, idxs) == {s \in S : s \div BitWidth \notin {i \div BitWidth : i \in idxs}}

(***************************************************************************)
(* The dirty tracker.                                                      *)
(***************************************************************************)
\* hook_routine(addr) run by a thread whose bucket is r.fb.
HookRoutine(r, bl) ==
  IF bl \in r.bd THEN r
  ELSE [bd |-> r.bd \cup {bl},
        fb |-> IF Len(r.fb) /= MaxFlushBlocks THEN Append(r.fb, bl) ELSE r.fb]

\* hook_routine on the addresses addrs, into thread t's bucket.
HookAll(t, addrs) ==
  LET r == FoldLeft(HookRoutine, [bd |-> block_dirty, fb |-> flush_blocks[t]], addrs)
  IN /\ block_dirty' = r.bd
     /\ flush_blocks' = [flush_blocks EXCEPT ![t] = r.fb]

\* determine_flush_mode: total_blocks is overwritten by each bucket's size,
\* so the mode is FMODE_WBINVD when any one bucket is full.
FlushModeOf(fb) ==
  CASE \A t \in Threads : fb[t] = <<>>              -> FMODE_NO_ACTION
    [] \E t \in Threads : Len(fb[t]) >= MaxFlushBlocks -> FMODE_WBINVD
    [] OTHER                                         -> FMODE_USE_FLUSH_BLOCKS

(***************************************************************************)
(* allocate_back_segment / find_back_segment.  The probe starts at         *)
(* next_back_id.  During a checkpoint a slot is taken unless its segment  *)
(* is dirty; otherwise the taker (lazy_write_back, holding the lock of    *)
(* segment s) must also TryAcquire the old segment's lock, which fails    *)
(* when that lock is the one it holds.                                    *)
(***************************************************************************)
LockOf(s) == s % SegmentLocks
Probe(k) == (next_back_id + k) % NrBack
\* Variant: the slot of a dirty segment is taken outside a checkpoint.
StealableIgnoringDirty(b, s) ==
  LET old == back_to_main[b]
  IN \/ old = NullSeg
     \/ checkpoint_in_progress \/ LockOf(old) /= LockOf(s)
Stealable(b, s) ==
  LET old == back_to_main[b]
  IN \/ old = NullSeg
     \/ /\ old \notin segment_dirty
        /\ checkpoint_in_progress \/ LockOf(old) /= LockOf(s)
CanAllocate(s) == \E k \in 0 .. NrBack - 1 : Stealable(Probe(k), s)
AllocatedSlot(s) ==
  Probe(CHOOSE k \in 0 .. NrBack - 1 :
          Stealable(Probe(k), s) /\ \A j \in 0 .. k - 1 : ~Stealable(Probe(j), s))

\* find_back_segment's exit(EXIT_FAILURE): "no free back segments"
OutOfShadow(s) == main_to_back[s] = NullSeg /\ ~CanAllocate(s)
\* the slot find_back_segment(s, created) returns
BackOf(s) == IF main_to_back[s] /= NullSeg THEN main_to_back[s] ELSE AllocatedSlot(s)
\* Variant: advance_next_back_segment without the wrap.
FindBackSegmentNoWrap(s) ==
  IF main_to_back[s] /= NullSeg
    THEN UNCHANGED <<back_to_main, main_to_back, next_back_id>>
    ELSE /\ BindBackSegment(s, AllocatedSlot(s))
         /\ next_back_id' = AllocatedSlot(s) + 1
FindBackSegment(s) ==
  IF main_to_back[s] /= NullSeg
    THEN UNCHANGED <<back_to_main, main_to_back, next_back_id>>
    ELSE /\ BindBackSegment(s, AllocatedSlot(s))
         /\ next_back_id' = (AllocatedSlot(s) + 1) % NrBack

\* dst with the blocks offs of src copied in
CopyBlocks(dst, src, offs) == [o \in Offs |-> IF o \in offs THEN src[o] ELSE dst[o]]
DirtyOffs(s) == {o \in Offs : <<s, o>> \in block_dirty}

(***************************************************************************)
(* lazy_write_back(segment_id, on_demand).  A segment that is not SS_Main *)
(* and has a slot needs nothing (on demand it is marked dirty).  Else,    *)
(* unless the cleaner finds no slot, the slot gets the whole segment when *)
(* it is new (and the segment not SS_Initial) or the dirty blocks, the    *)
(* segment becomes SS_Back in both vectors and its block bits are         *)
(* cleared.                                                                *)
(***************************************************************************)
\* Variant: an existing slot gets no dirty blocks.
LazyWriteBackNoBlockCopy(s, on_demand) ==
  LET st == GetSegmentState(s)
      b  == BackOf(s)
      created == main_to_back[s] = NullSeg
      dirty == IF on_demand THEN segment_dirty \cup {s} ELSE segment_dirty
  IN IF (st /= SS_Main /\ ~created) \/ (created /\ ~on_demand)
       THEN /\ segment_dirty' = dirty
            /\ UNCHANGED <<back_to_main, main_to_back, next_back_id, back_data,
                           segment_state, block_dirty>>
       ELSE /\ FindBackSegment(s)
            /\ back_data' = [back_data EXCEPT ![b] =
                               IF created /\ st /= SS_Initial THEN main_data[s] ELSE @]
            /\ SetSegmentStateAtomic(s, SS_Back)
            /\ block_dirty' = {bl \in block_dirty : bl[1] /= s}
            /\ segment_dirty' = dirty
LazyWriteBack(s, on_demand) ==
  LET st == GetSegmentState(s)
      b  == BackOf(s)
      created == main_to_back[s] = NullSeg
      dirty == IF on_demand THEN segment_dirty \cup {s} ELSE segment_dirty
  IN IF (st /= SS_Main /\ ~created) \/ (created /\ ~on_demand)
       THEN /\ segment_dirty' = dirty
            /\ UNCHANGED <<back_to_main, main_to_back, next_back_id, back_data,
                           segment_state, block_dirty>>
       ELSE /\ FindBackSegment(s)
            /\ back_data' = [back_data EXCEPT ![b] =
                               IF ~created THEN CopyBlocks(@, main_data[s], DirtyOffs(s))
                               ELSE IF st /= SS_Initial THEN main_data[s] ELSE @]
            /\ SetSegmentStateAtomic(s, SS_Back)
            /\ block_dirty' = {bl \in block_dirty : bl[1] /= s}
            /\ segment_dirty' = dirty

(***************************************************************************)
(* Open(path, create): the fresh image, the constructor's state and the   *)
(* cleaner thread, not yet holding cleaner_mutex.  flush_mode is left     *)
(* uninitialised; determine_flush_mode writes it before any read.         *)
(***************************************************************************)
Init ==
  /\ ImageInit
  /\ block_dirty = {} /\ segment_dirty = {}
  /\ flush_blocks = [t \in Threads |-> <<>>]
  /\ address_buffer = [t \in Threads |-> <<>>]
  /\ flush_mode = FMODE_NO_ACTION
  /\ skip_copy_on_write = FALSE /\ checkpoint_in_progress = FALSE
  /\ thread_busy = FALSE /\ next_back_id = 0
  /\ cleaner_state = WB_IDLE /\ cleaner_seg = 0 /\ cleaner_pc = "start"
  /\ pc = "run" /\ todo = [t \in Threads |-> <<>>] /\ rec = 0
  /\ snap = main_data /\ published = {}

\* the leader took cleaner_mutex in this checkpoint and has not released it
LeaderHoldsMutex ==
  /\ pc \in {"main_set", "main_epoch", "main_copy", "write_back",
             "back_set", "back_epoch", "back_copy"}
  /\ flush_mode = FMODE_WBINVD \/ thread_busy
\* the cleaner thread holds cleaner_mutex
CleanerHolds == {"loop", "copy"}
\* cleaner_condvar.notify_all()
Notify == cleaner_pc' = IF cleaner_pc = "wait" THEN "wake" ELSE cleaner_pc

(***************************************************************************)
(* The process ends (a crash, or exit on "no free back segments") and is   *)
(* started again: Open rebuilds main_to_back, recovery(SS_Back) begins its *)
(* update, and the engine and its cleaner thread start afresh.            *)
(***************************************************************************)
Restart ==
  /\ main_to_back' = RebuiltMainToBack(back_to_main)
  /\ segment_state_dirty' = {} /\ segment_state_update' = TRUE
  /\ block_dirty' = {} /\ segment_dirty' = {}
  /\ flush_blocks' = [t \in Threads |-> <<>>]
  /\ address_buffer' = [t \in Threads |-> <<>>]
  /\ flush_mode' = FMODE_NO_ACTION
  /\ skip_copy_on_write' = FALSE /\ checkpoint_in_progress' = FALSE
  /\ thread_busy' = FALSE /\ next_back_id' = 0
  /\ cleaner_state' = WB_IDLE /\ cleaner_seg' = 0 /\ cleaner_pc' = "start"
  /\ pc' = "recover" /\ todo' = [t \in Threads |-> <<>>] /\ rec' = 0
  /\ UNCHANGED <<persistentVars, snap, published>>

(***************************************************************************)
(* The mutator.  __crpm_hook_rt_store(addr) runs before the store: the     *)
(* copy-on-write half (hook_copy_on_write_routine) is its own step, taken *)
(* when the segment is not yet dirty in this epoch; the store then finds  *)
(* it dirty, buffers the address (address_buffer_clear when the buffer is *)
(* full) and writes main.  Stores happen only outside checkpoint().       *)
(***************************************************************************)
CopyOnWrite(s) ==
  /\ pc = "run"
  /\ s \notin segment_dirty
  /\ IF skip_copy_on_write
       THEN /\ segment_dirty' = segment_dirty \cup {s}
            /\ UNCHANGED <<imageVars, block_dirty, next_back_id>>
       ELSE /\ ~OutOfShadow(s)
            /\ LazyWriteBack(s, TRUE)
            /\ UNCHANGED <<committed_epoch, main_data, segment_state_dirty,
                           segment_state_update>>
  /\ UNCHANGED <<flush_blocks, address_buffer, flush_mode, skip_copy_on_write,
                 checkpoint_in_progress, thread_busy, cleanerVars, ctlVars>>

CopyOnWriteExit(s) ==
  /\ pc = "run"
  /\ s \notin segment_dirty /\ ~skip_copy_on_write
  /\ OutOfShadow(s)
  /\ Restart

\* Variant: the buffer is drained one address late.
StoreLateDrain(t, s, o, v) ==
  LET addrs == Append(address_buffer[t], <<s, o>>)
  IN /\ pc = "run"
     /\ s \in segment_dirty
     /\ main_data' = [main_data EXCEPT ![s][o] = v]
     /\ IF Len(addrs) > NumBufferedAddresses
          THEN /\ HookAll(t, addrs)
               /\ address_buffer' = [address_buffer EXCEPT ![t] = <<>>]
          ELSE /\ address_buffer' = [address_buffer EXCEPT ![t] = addrs]
               /\ UNCHANGED <<block_dirty, flush_blocks>>
     /\ UNCHANGED <<committed_epoch, segment_state, back_to_main, back_data,
                    main_to_back, segment_state_dirty, segment_state_update,
                    segment_dirty, flush_mode, skip_copy_on_write,
                    checkpoint_in_progress, thread_busy, next_back_id,
                    cleanerVars, ctlVars>>
\* Variant: a full buffer is drained without the address just stored.
StoreDropLast(t, s, o, v) ==
  LET addrs == Append(address_buffer[t], <<s, o>>)
  IN /\ pc = "run"
     /\ s \in segment_dirty
     /\ main_data' = [main_data EXCEPT ![s][o] = v]
     /\ IF Len(addrs) = NumBufferedAddresses
          THEN /\ HookAll(t, address_buffer[t])
               /\ address_buffer' = [address_buffer EXCEPT ![t] = <<>>]
          ELSE /\ address_buffer' = [address_buffer EXCEPT ![t] = addrs]
               /\ UNCHANGED <<block_dirty, flush_blocks>>
     /\ UNCHANGED <<committed_epoch, segment_state, back_to_main, back_data,
                    main_to_back, segment_state_dirty, segment_state_update,
                    segment_dirty, flush_mode, skip_copy_on_write,
                    checkpoint_in_progress, thread_busy, next_back_id,
                    cleanerVars, ctlVars>>
Store(t, s, o, v) ==
  LET addrs == Append(address_buffer[t], <<s, o>>)
  IN /\ pc = "run"
     /\ s \in segment_dirty
     /\ main_data' = [main_data EXCEPT ![s][o] = v]
     /\ IF Len(addrs) = NumBufferedAddresses
          THEN /\ HookAll(t, addrs)
               /\ address_buffer' = [address_buffer EXCEPT ![t] = <<>>]
          ELSE /\ address_buffer' = [address_buffer EXCEPT ![t] = addrs]
               /\ UNCHANGED <<block_dirty, flush_blocks>>
     /\ UNCHANGED <<committed_epoch, segment_state, back_to_main, back_data,
                    main_to_back, segment_state_dirty, segment_state_update,
                    segment_dirty, flush_mode, skip_copy_on_write,
                    checkpoint_in_progress, thread_busy, next_back_id,
                    cleanerVars, ctlVars>>

\* __crpm_hook_rt_range_store over the blocks of segment s: after the
\* copy-on-write of the range, hook_routine(addr, len) marks every block
\* directly, without the address buffer.
RangeStore(t, s, v) ==
  /\ pc = "run"
  /\ s \in segment_dirty
  /\ main_data' = [main_data EXCEPT ![s] = [o \in Offs |-> v]]
  /\ HookAll(t, [i \in 1 .. Cardinality(Offs) |-> <<s, SetToSortSeq(Offs, <)[i]>>])
  /\ UNCHANGED <<committed_epoch, segment_state, back_to_main, back_data,
                 main_to_back, segment_state_dirty, segment_state_update,
                 segment_dirty, address_buffer, flush_mode, skip_copy_on_write,
                 checkpoint_in_progress, thread_busy, next_back_id,
                 cleanerVars, ctlVars>>


(***************************************************************************)
(* checkpoint(nr_threads).                                                 *)
(***************************************************************************)
\* The segments commit_layout_state stages: the segment_dirty bits in
\* FMODE_WBINVD, else the segments of the buffered blocks.
BucketSegs == UNION {{bl[1] : bl \in ToSet(flush_blocks[t])} : t \in Threads}
CommitSegs == IF flush_mode = FMODE_WBINVD THEN segment_dirty ELSE BucketSegs

\* From the first barrier to the latch: the leader drains every address
\* buffer into its own bucket, reads the cleaner's state, picks the mode,
\* and decides whether it must take cleaner_mutex and whether the
\* copy-on-write may be skipped in the coming epoch.
Checkpoint(t) ==
  LET r == FoldLeft(HookRoutine, [bd |-> block_dirty, fb |-> flush_blocks[t]],
                    FlattenSeq([i \in 1 .. Cardinality(Threads) |-> address_buffer[i - 1]]))
      fm == FlushModeOf([flush_blocks EXCEPT ![t] = r.fb])
      busy == cleaner_state /= WB_IDLE
      locks == fm = FMODE_WBINVD \/ busy
  IN /\ pc = "run"
     /\ block_dirty' = r.bd
     /\ flush_blocks' = [flush_blocks EXCEPT ![t] = r.fb]
     /\ address_buffer' = [x \in Threads |-> <<>>]
     /\ flush_mode' = fm
     /\ IF fm = FMODE_NO_ACTION
          THEN UNCHANGED <<skip_copy_on_write, checkpoint_in_progress,
                           thread_busy, pc, segment_state_update>>
          ELSE /\ checkpoint_in_progress' = TRUE
               /\ thread_busy' = busy
               /\ skip_copy_on_write' = (~locks /\ NrSegs = NrBack)
               /\ pc' = IF locks THEN "lock" ELSE "main_set"
               /\ IF locks THEN UNCHANGED segment_state_update
                           ELSE BeginSegmentStateUpdate
     /\ UNCHANGED <<committed_epoch, segment_state, back_to_main, main_data,
                    back_data, main_to_back, segment_state_dirty, segment_dirty,
                    next_back_id, cleanerVars, todo, rec, snap, published>>

\* cleaner_mutex.lock(), then (after flush_parallel, which changes nothing a
\* process crash can lose) begin_segment_state_update.
LockCleaner ==
  /\ pc = "lock"
  /\ cleaner_pc \notin CleanerHolds
  /\ pc' = "main_set"
  /\ BeginSegmentStateUpdate
  /\ UNCHANGED <<committed_epoch, segment_state, back_to_main, main_data,
                 back_data, main_to_back, segment_state_dirty, engineVars,
                 cleanerVars, todo, rec, snap, published>>

\* commit_layout_state(st): the set_segment_state loop ...
CommitLayoutSet(from, to, st) ==
  /\ pc = from
  /\ SetSegmentStates(CommitSegs, st)
  /\ pc' = to
  /\ UNCHANGED <<committed_epoch, back_to_main, main_data, back_data,
                 main_to_back, segment_state_update, engineVars, cleanerVars,
                 todo, rec, snap, published>>

\* ... and commit_segment_state_update's epoch store.  The first commit of
\* a checkpoint is its commit point: snap and published record it.
MainEpoch ==
  /\ pc = "main_epoch"
  /\ CommitEpochStore
  /\ snap' = main_data
  /\ published' = published \cup CommitSegs
  /\ pc' = "main_copy"
  /\ UNCHANGED <<segment_state, back_to_main, main_data, back_data, main_to_back,
                 segment_state_dirty, segment_state_update, engineVars,
                 cleanerVars, todo, rec>>

BackEpoch ==
  /\ pc = "back_epoch"
  /\ CommitEpochStore
  /\ pc' = "back_copy"
  /\ UNCHANGED <<segment_state, back_to_main, main_data, back_data, main_to_back,
                 segment_state_dirty, segment_state_update, engineVars,
                 cleanerVars, todo, rec, snap, published>>

\* Variant: the FMODE_WBINVD finish releases cleaner_mutex without notify_all.
MainCopyNoNotify ==
  /\ pc = "main_copy"
  /\ CommitCopyBack
  /\ IF flush_mode = FMODE_WBINVD
       THEN /\ segment_dirty' = ClearRegion(segment_dirty, NrSegs)
            /\ cleaner_state' = WB_STARTED
            /\ flush_blocks' = [t \in Threads |-> <<>>]
            /\ checkpoint_in_progress' = FALSE
            /\ UNCHANGED cleaner_pc
            /\ pc' = "run"
            /\ UNCHANGED todo
       ELSE /\ pc' = "write_back"
            /\ todo' = flush_blocks
            /\ UNCHANGED <<segment_dirty, cleaner_state, flush_blocks,
                           checkpoint_in_progress, cleaner_pc>>
  /\ UNCHANGED <<committed_epoch, back_to_main, main_data, back_data,
                 main_to_back, block_dirty, address_buffer, flush_mode,
                 skip_copy_on_write, thread_busy, next_back_id, cleaner_seg,
                 rec, snap, published>>

\* The rest of the SS_Main commit.  FMODE_USE_FLUSH_BLOCKS goes on to
\* write_back_parallel (thread t takes bucket t); FMODE_WBINVD clears
\* segment_dirty with clear_region(0, nr_segments), starts the cleaner,
\* resets the buckets and releases cleaner_mutex.
MainCopy ==
  /\ pc = "main_copy"
  /\ CommitCopyBack
  /\ IF flush_mode = FMODE_WBINVD
       THEN /\ segment_dirty' = ClearRegion(segment_dirty, NrSegs)
            /\ cleaner_state' = WB_STARTED
            /\ flush_blocks' = [t \in Threads |-> <<>>]
            /\ checkpoint_in_progress' = FALSE
            /\ Notify
            /\ pc' = "run"
            /\ UNCHANGED todo
       ELSE /\ pc' = "write_back"
            /\ todo' = flush_blocks
            /\ UNCHANGED <<segment_dirty, cleaner_state, flush_blocks,
                           checkpoint_in_progress, cleaner_pc>>
  /\ UNCHANGED <<committed_epoch, back_to_main, main_data, back_data,
                 main_to_back, block_dirty, address_buffer, flush_mode,
                 skip_copy_on_write, thread_busy, next_back_id, cleaner_seg,
                 rec, snap, published>>

\* One block of write_back_parallel: the whole segment into a new slot,
\* else the block.  find_back_segment's exit is left without a step: a
\* state that reached it would have no successor, a deadlock the passing
\* runs (which check deadlock) would report.
WriteBackStep(t) ==
  LET bl == Head(todo[t])
      s == bl[1]
  IN /\ pc = "write_back"
     /\ todo[t] /= <<>>
     /\ ~OutOfShadow(s)
     /\ FindBackSegment(s)
     /\ back_data' = [back_data EXCEPT ![BackOf(s)] =
                        IF main_to_back[s] = NullSeg THEN main_data[s]
                        ELSE CopyBlocks(@, main_data[s], {bl[2]})]
     /\ todo' = [todo EXCEPT ![t] = Tail(@)]
     /\ UNCHANGED <<committed_epoch, segment_state, main_data, segment_state_dirty,
                    segment_state_update, block_dirty, segment_dirty, flush_blocks,
                    address_buffer, flush_mode, skip_copy_on_write,
                    checkpoint_in_progress, thread_busy, cleanerVars, pc, rec,
                    snap, published>>

\* The barrier after write_back_parallel, then begin_segment_state_update.
WriteBackDone ==
  /\ pc = "write_back"
  /\ \A t \in Threads : todo[t] = <<>>
  /\ BeginSegmentStateUpdate
  /\ pc' = "back_set"
  /\ UNCHANGED <<committed_epoch, segment_state, back_to_main, main_data,
                 back_data, main_to_back, segment_state_dirty, engineVars,
                 cleanerVars, todo, rec, snap, published>>

\* clear_dirty_bits: clear_all on the word of every buffered block and on
\* the segment_dirty word of its segment.
ClearDirtyBits ==
  /\ block_dirty' = {bl \in block_dirty : bl[1] \notin BucketSegs}
  /\ segment_dirty' = ClearWords(segment_dirty, BucketSegs)

\* The rest of the SS_Back commit, then clear_dirty_bits, the buckets
\* reset, and cleaner_mutex released and notified if it was taken.
BackCopy ==
  /\ pc = "back_copy"
  /\ CommitCopyBack
  /\ ClearDirtyBits
  /\ flush_blocks' = [t \in Threads |-> <<>>]
  /\ checkpoint_in_progress' = FALSE
  /\ IF thread_busy THEN Notify ELSE UNCHANGED cleaner_pc
  /\ pc' = "run"
  /\ UNCHANGED <<committed_epoch, back_to_main, main_data, back_data,
                 main_to_back, address_buffer, flush_mode, skip_copy_on_write,
                 thread_busy, next_back_id, cleaner_state, cleaner_seg, todo,
                 rec, snap, published>>


(***************************************************************************)
(* WriteBackThreadRoutine.  The thread holds cleaner_mutex except inside  *)
(* cleaner_condvar.wait; it is created by Open after recovery.            *)
(***************************************************************************)
CleanerAcquire ==
  /\ cleaner_pc \in {"start", "wake"}
  /\ ~LeaderHoldsMutex
  /\ cleaner_pc = "start" => pc \notin {"recover", "recover_copy"}
  /\ cleaner_pc' = "loop"
  /\ UNCHANGED <<imageVars, engineVars, cleaner_state, cleaner_seg, ctlVars>>

\* case WB_STARTED
CleanerStart ==
  /\ cleaner_pc = "loop" /\ cleaner_state = WB_STARTED
  /\ cleaner_seg' = 0 /\ cleaner_state' = WB_RUNNING
  /\ UNCHANGED <<imageVars, engineVars, cleaner_pc, ctlVars>>

\* case WB_RUNNING: wait while a checkpoint is in progress ...
\* Variant: the cleaner re-tests checkpoint_in_progress without waiting.
CleanerCheckSpin ==
  /\ cleaner_pc = "loop" /\ cleaner_state = WB_RUNNING
  /\ cleaner_pc' = IF checkpoint_in_progress THEN "loop" ELSE "copy"
  /\ UNCHANGED <<imageVars, engineVars, cleaner_state, cleaner_seg, ctlVars>>
CleanerCheck ==
  /\ cleaner_pc = "loop" /\ cleaner_state = WB_RUNNING
  /\ cleaner_pc' = IF checkpoint_in_progress THEN "wait" ELSE "copy"
  /\ UNCHANGED <<imageVars, engineVars, cleaner_state, cleaner_seg, ctlVars>>

\* ... else lazy_write_back(segment_id), segment_id++, WB_IDLE at the end.
CleanerWriteBack ==
  /\ cleaner_pc = "copy"
  /\ LazyWriteBack(cleaner_seg, FALSE)
  /\ cleaner_seg' = cleaner_seg + 1
  /\ cleaner_state' = IF cleaner_seg + 1 = NrSegs THEN WB_IDLE ELSE cleaner_state
  /\ cleaner_pc' = "loop"
  /\ UNCHANGED <<committed_epoch, main_data, segment_state_dirty,
                 segment_state_update, flush_blocks, address_buffer, flush_mode,
                 skip_copy_on_write, checkpoint_in_progress, thread_busy, ctlVars>>

\* case WB_IDLE
CleanerIdle ==
  /\ cleaner_pc = "loop" /\ cleaner_state = WB_IDLE
  /\ cleaner_pc' = "wait"
  /\ UNCHANGED <<imageVars, engineVars, cleaner_state, cleaner_seg, ctlVars>>

\* condition_variable::wait may return without a notify.
SpuriousWakeup ==
  /\ cleaner_pc = "wait"
  /\ cleaner_pc' = "wake"
  /\ UNCHANGED <<imageVars, engineVars, cleaner_state, cleaner_seg, ctlVars>>

(***************************************************************************)
(* A crash of the process, and Open's recovery(SS_Back) (the single-      *)
(* threaded loop of checkpoint.cpp).                                       *)
(***************************************************************************)
Crash ==
  /\ pc \in CrashPCs
  /\ Restart

RecoverSlot ==
  /\ pc = "recover"
  /\ rec < NrBack
  /\ RecoverBackSlot(rec, SS_Back)
  /\ rec' = rec + 1
  /\ UNCHANGED <<committed_epoch, back_to_main, main_to_back,
                 segment_state_update, engineVars, cleanerVars, pc, todo,
                 snap, published>>

RecoverCommit ==
  /\ pc = "recover"
  /\ rec = NrBack
  /\ CommitEpochStore
  /\ pc' = "recover_copy"
  /\ UNCHANGED <<segment_state, back_to_main, main_data, back_data,
                 main_to_back, segment_state_dirty, segment_state_update,
                 engineVars, cleanerVars, todo, rec, snap, published>>

RecoverCopy ==
  /\ pc = "recover_copy"
  /\ CommitCopyBack
  /\ pc' = "run"
  /\ UNCHANGED <<committed_epoch, back_to_main, main_data, back_data,
                 main_to_back, engineVars, cleanerVars, todo, rec, snap,
                 published>>

Leader ==
  \/ LockCleaner
  \/ CommitLayoutSet("main_set", "main_epoch", SS_Main) \/ MainEpoch \/ MainCopy
  \/ \E t \in Threads : WriteBackStep(t)
  \/ WriteBackDone
  \/ CommitLayoutSet("back_set", "back_epoch", SS_Back) \/ BackEpoch \/ BackCopy
  \/ RecoverSlot \/ RecoverCommit \/ RecoverCopy

Cleaner ==
  CleanerAcquire \/ CleanerStart \/ CleanerCheck \/ CleanerWriteBack \/ CleanerIdle

Mutator ==
  \/ \E s \in Segs : CopyOnWrite(s) \/ CopyOnWriteExit(s)
  \/ \E t \in Threads, s \in Segs, o \in Offs, v \in Vals : Store(t, s, o, v)
  \/ \E t \in Threads, s \in Segs, v \in Vals : RangeStore(t, s, v)
  \/ \E t \in Threads : Checkpoint(t)

Next == Mutator \/ Leader \/ Cleaner \/ SpuriousWakeup \/ Crash

(***************************************************************************)
(* Fairness.  Once checkpoint() has started, its threads run it to the    *)
(* end; the cleaner thread keeps running while it holds cleaner_mutex.    *)
(* cleaner_mutex (std::mutex) promises no order among waiters, so taking  *)
(* it is assumed strongly fair.  Nothing forces the program to store, to  *)
(* checkpoint or to crash, nor a wait to return spuriously.               *)
(***************************************************************************)
Fairness ==
  /\ WF_vars(Leader /\ ~LockCleaner)
  /\ SF_vars(LockCleaner)
  /\ SF_vars(CleanerAcquire)
  /\ WF_vars(CleanerStart \/ CleanerCheck \/ CleanerWriteBack \/ CleanerIdle)

Spec == Init /\ [][Next]_vars /\ Fairness

=============================================================================

------------------------- MODULE HybridInstEngine -------------------------
(***************************************************************************)
(* The dual-epoch instrumented engine of libcrpm                          *)
(* (src/runtime/src/engines/hybrid_inst_engine.cpp) on top of the         *)
(* checkpoint image.  The working copy lives in DRAM; stores are recorded *)
(* by the instrumentation hook in per-thread address buffers and, when a  *)
(* buffer fills or a checkpoint starts, in the dirty bitmaps of the       *)
(* current epoch.  A checkpoint of epoch 1 writes DRAM into back slots and *)
(* commits the dirty segments as SS_Back; one of epoch 0 writes DRAM into  *)
(* the main segments and commits them as SS_Main.                         *)
(*                                                                         *)
(* The build defines USE_SYNCHRONOUS_CHECKPOINT, so the write-back thread *)
(* is never started: the copy of the previous epoch's blocks to the other *)
(* side (apply_nvm_to_nvm_parallel) runs at the start of the next          *)
(* checkpoint when the previous one used FMODE_WBINVD.                     *)
(*                                                                         *)
(* The mutator threads' share of each parallel loop is a queue of work    *)
(* items per checkpoint thread; the threads' items interleave freely.     *)
(* A crash (or the exit on "no free back segments") ends the process;     *)
(* the next Open runs recovery(SS_Main) and prepare_working_memory.       *)
(***************************************************************************)
EXTENDS CheckpointImage, Sequences, SequencesExt

CONSTANTS
  Threads,               \* ThreadInfo ids of the mutator threads: 0 .. n-1
  MaxFlushBlocks,        \* kMaxFlushBlocks, capacity of a flush bucket
  NumBufferedAddresses,  \* kNumBufferedAddresses, capacity of an address buffer
  CrashPCs,              \* the positions of the leader at which a crash is explored
  IdleCheckpoints        \* whether checkpoint() is called with no new dirty block

ASSUME Threads = 0 .. Cardinality(Threads) - 1
ASSUME Backs = 0 .. Cardinality(Backs) - 1
ASSUME MaxFlushBlocks \in Nat \ {0} /\ NumBufferedAddresses \in Nat \ {0}

\* HybridInstEngine::FlushMode
FMODE_NO_ACTION == "FMODE_NO_ACTION"
FMODE_USE_FLUSH_BLOCKS == "FMODE_USE_FLUSH_BLOCKS"
FMODE_WBINVD == "FMODE_WBINVD"
FlushModes == {FMODE_NO_ACTION, FMODE_USE_FLUSH_BLOCKS, FMODE_WBINVD}

Blocks == Segs \X Offs
Zero == [o \in Offs |-> 0]
NrThreads == Cardinality(Threads)
NrBack == Cardinality(Backs)
\* A work item of the parallel loops: a segment and the blocks of it to copy.
Items == [seg : Segs, offs : SUBSET Offs]
\* Where the leader is in checkpoint() (run: no checkpoint in progress), or
\* in Open's recovery after a crash.
PCs == {"run", "latch", "sync", "apply1", "commit_set", "commit_epoch", "commit_copy", "apply2",
        "recover", "recover_copy", "prepare"}
ASSUME CrashPCs \subseteq PCs /\ IdleCheckpoints \in BOOLEAN

VARIABLES
  work,              \* working_memory (DRAM), per segment and block
  epoch,             \* HybridInstEngine::epoch
  block_dirty,       \* block_dirty[0..1]
  segment_dirty,     \* segment_dirty[0..1]
  flush_blocks,      \* flush_blocks[tid][0 .. flush_blocks_count[tid]-1]
  address_buffer,    \* AddressBuffer ptr[0 .. length-1], per thread
  flush_mode,
  prev_flush_mode,
  next_back_segment,
  pc,                \* leader's position in checkpoint() or recovery
  todo,              \* per checkpoint thread, the items left in this loop
  rec,               \* back_id of recovery()'s loop
  snap,              \* ghost: working memory at the last commit point
  creating,          \* per checkpoint thread: find_back_segment read no slot
  back_memory_lock   \* held: allocate_back_segment found no slot to take

engineVars == <<work, epoch, block_dirty, segment_dirty, flush_blocks,
                address_buffer, flush_mode, prev_flush_mode,
                next_back_segment>>
ctlVars == <<pc, todo, rec, snap>>
raceVars == <<creating, back_memory_lock>>
vars == <<imageVars, engineVars, ctlVars, raceVars>>

TypeOK ==
  /\ ImageTypeOK
  /\ work \in [Segs -> [Offs -> Vals]]
  /\ epoch \in {0, 1}
  /\ block_dirty \in [{0, 1} -> SUBSET Blocks]
  /\ segment_dirty \in [{0, 1} -> SUBSET Segs]
  /\ flush_blocks \in [Threads -> Seq(Blocks)]
  /\ \A t \in Threads : Len(flush_blocks[t]) <= MaxFlushBlocks
  /\ address_buffer \in [Threads -> Seq(Blocks)]
  /\ \A t \in Threads : Len(address_buffer[t]) < NumBufferedAddresses
  /\ flush_mode \in FlushModes /\ prev_flush_mode \in FlushModes
  /\ next_back_segment \in Backs
  /\ pc \in PCs
  /\ todo \in [Threads -> Seq(Items)]
  /\ rec \in 0 .. NrBack
  /\ snap \in [Segs -> [Offs -> Vals]]
  /\ creating \in [Threads -> BOOLEAN] /\ back_memory_lock \in BOOLEAN

(***************************************************************************)
(* The dirty tracker.                                                      *)
(***************************************************************************)
\* Variant: a block is skipped when its segment is already dirty.
HookRoutineBySegment(r, bl) ==
  IF bl[1] \in r.sd THEN r
  ELSE [bd |-> r.bd \cup {bl},
        fb |-> IF Len(r.fb) /= MaxFlushBlocks THEN Append(r.fb, bl) ELSE r.fb,
        sd |-> r.sd \cup {bl[1]}]

\* hook_routine(addr) of one thread on the current epoch's bitmaps and its
\* own bucket, as a function of that tracker state r.
HookRoutine(r, bl) ==
  IF bl \in r.bd THEN r
  ELSE [bd |-> r.bd \cup {bl},
        fb |-> IF Len(r.fb) /= MaxFlushBlocks THEN Append(r.fb, bl) ELSE r.fb,
        sd |-> r.sd \cup {bl[1]}]

\* address_buffer_clear on the addresses addrs, run by thread t.
HookAll(t, addrs) ==
  LET r == FoldLeft(HookRoutine,
                    [bd |-> block_dirty[epoch], fb |-> flush_blocks[t],
                     sd |-> segment_dirty[epoch]], addrs)
  IN /\ block_dirty' = [block_dirty EXCEPT ![epoch] = r.bd]
     /\ segment_dirty' = [segment_dirty EXCEPT ![epoch] = r.sd]
     /\ flush_blocks' = [flush_blocks EXCEPT ![t] = r.fb]

\* determine_flush_mode, on the bucket contents fb.
FlushModeOf(fb) ==
  LET total == SumFunction([t \in Threads |-> Len(fb[t])])
  IN CASE total = 0               -> FMODE_NO_ACTION
       [] total >= MaxFlushBlocks -> FMODE_WBINVD
       [] OTHER                   -> FMODE_USE_FLUSH_BLOCKS

(***************************************************************************)
(* Work lists of the parallel loops.  A segment loop gives checkpoint      *)
(* thread t the segments t, t+n, ...; the bucket loop of                  *)
(* apply_dram_to_main gives it bucket t; the bucket loop of               *)
(* apply_dram_to_back runs on thread 0 only.                               *)
(***************************************************************************)
SegItems(S, e) ==
  [t \in Threads |->
     [i \in 1 .. Cardinality({s \in S : s % NrThreads = t}) |->
        LET s == SetToSortSeq({x \in S : x % NrThreads = t}, <)[i]
        IN [seg |-> s, offs |-> {o \in Offs : <<s, o>> \in block_dirty[e]}]]]
BlockItem(bl) == [seg |-> bl[1], offs |-> {bl[2]}]
BucketItems(t) == [i \in 1 .. Len(flush_blocks[t]) |-> BlockItem(flush_blocks[t][i])]
AllBuckets == FlattenSeq([i \in 1 .. NrThreads |-> BucketItems(i - 1)])
\* the items of apply_dram_to_back_parallel / apply_dram_to_main_parallel
ApplyItems(toBack) ==
  CASE flush_mode = FMODE_WBINVD -> SegItems(segment_dirty[epoch], epoch)
    [] toBack -> [t \in Threads |-> IF t = 0 THEN AllBuckets ELSE <<>>]
    [] OTHER  -> [t \in Threads |-> BucketItems(t)]
NoItems == [t \in Threads |-> <<>>]

(***************************************************************************)
(* allocate_back_segment / find_back_segment.                              *)
(***************************************************************************)
Probe(k) == (next_back_segment + k) % NrBack
\* A slot may be taken when free or bound to a segment not dirty this epoch.
Stealable(b) ==
  back_to_main[b] = NullSeg \/ back_to_main[b] \notin segment_dirty[epoch]
CanAllocate == \E k \in 0 .. NrBack - 1 : Stealable(Probe(k))
AllocatedSlot ==
  Probe(CHOOSE k \in 0 .. NrBack - 1 :
          Stealable(Probe(k)) /\ \A j \in 0 .. k - 1 : ~Stealable(Probe(j)))

\* allocate_back_segment(s) when it finds a slot.
AllocateBackSegment(s) ==
  /\ BindBackSegment(s, AllocatedSlot)
  /\ next_back_segment' = (AllocatedSlot + 1) % NrBack

\* the back slot find_back_segment(s, created) returns
BackOf(s) == IF main_to_back[s] /= NullSeg THEN main_to_back[s] ELSE AllocatedSlot
\* find_back_segment's exit(EXIT_FAILURE): "no free back segments"
OutOfShadow(s) == main_to_back[s] = NullSeg /\ ~CanAllocate
\* the allocation, if find_back_segment needs one
FindBackSegment(s) ==
  IF main_to_back[s] /= NullSeg
    THEN UNCHANGED <<back_to_main, main_to_back, next_back_segment>>
    ELSE AllocateBackSegment(s)

\* dst with the blocks offs of src copied in
CopyBlocks(dst, src, offs) == [o \in Offs |-> IF o \in offs THEN src[o] ELSE dst[o]]

(***************************************************************************)
(* One item of each parallel loop, run by one checkpoint thread.           *)
(***************************************************************************)
\* apply_dram_to_back_parallel: a whole segment when the slot is new and
\* the segment is not SS_Initial, else the dirty blocks.
ApplyToBack(it) ==
  LET s == it.seg
      b == BackOf(s)
      whole == main_to_back[s] = NullSeg /\ GetSegmentState(s) /= SS_Initial
  IN /\ ~OutOfShadow(s)
     /\ FindBackSegment(s)
     /\ back_data' = [back_data EXCEPT ![b] =
                        IF whole THEN work[s] ELSE CopyBlocks(back_data[b], work[s], it.offs)]
     /\ UNCHANGED <<main_data, segment_state>>

\* apply_dram_to_main_parallel on a segment that needs no new slot: the
\* dirty blocks are copied to main.
ApplyToMain(it) ==
  /\ main_data' = [main_data EXCEPT ![it.seg] = CopyBlocks(@, work[it.seg], it.offs)]
  /\ UNCHANGED <<back_to_main, main_to_back, next_back_segment, segment_state,
                 back_data>>

\* apply_dram_to_main_parallel calls find_back_segment for a segment in
\* SS_Main, whose unlocked get_main_to_back may find no slot.
NeedsSlot(s) == GetSegmentState(s) = SS_Main /\ main_to_back[s] = NullSeg

\* Variant: the side is chosen with the epoch test inverted.
ApplyNvmToNvmSwapped(it) ==
  LET s == it.seg
      b == main_to_back[s]
      offs == {o \in Offs : <<s, o>> \in block_dirty[1 - epoch] \ block_dirty[epoch]}
  IN /\ IF b = NullSeg
          THEN UNCHANGED <<main_data, back_data>>
        ELSE IF epoch = 0
          THEN /\ back_data' = [back_data EXCEPT ![b] = CopyBlocks(@, work[s], offs)]
               /\ UNCHANGED main_data
          ELSE /\ main_data' = [main_data EXCEPT ![s] = CopyBlocks(@, work[s], offs)]
               /\ UNCHANGED back_data
     /\ UNCHANGED <<back_to_main, main_to_back, next_back_segment, segment_state>>

\* apply_nvm_to_nvm_parallel (synchronous build): blocks dirty in the
\* previous epoch and not in this one are copied from DRAM to the side this
\* epoch writes, for segments that have a back slot.
ApplyNvmToNvm(it) ==
  LET s == it.seg
      b == main_to_back[s]
      offs == {o \in Offs : <<s, o>> \in block_dirty[1 - epoch] \ block_dirty[epoch]}
  IN /\ IF b = NullSeg
          THEN UNCHANGED <<main_data, back_data>>
        ELSE IF epoch = 1
          THEN /\ back_data' = [back_data EXCEPT ![b] = CopyBlocks(@, work[s], offs)]
               /\ UNCHANGED main_data
          ELSE /\ main_data' = [main_data EXCEPT ![s] = CopyBlocks(@, work[s], offs)]
               /\ UNCHANGED back_data
     /\ UNCHANGED <<back_to_main, main_to_back, next_back_segment, segment_state>>

(***************************************************************************)
(* The end of a checkpoint: clear_dirty_bits_last_epoch, the buckets'      *)
(* counts reset, and the epoch flip.                                       *)
(***************************************************************************)
ClearDirtyBitsLastEpoch ==
  LET e == 1 - epoch
  IN /\ block_dirty' = [block_dirty EXCEPT ![e] =
                          {bl \in @ : bl[1] \notin segment_dirty[e]}]
     /\ segment_dirty' = [segment_dirty EXCEPT ![e] = {}]

\* Variant: the epoch is not flipped.
FinishCheckpointNoFlip ==
  /\ ClearDirtyBitsLastEpoch
  /\ flush_blocks' = [t \in Threads |-> <<>>]
  /\ UNCHANGED epoch

FinishCheckpoint ==
  /\ ClearDirtyBitsLastEpoch
  /\ flush_blocks' = [t \in Threads |-> <<>>]
  /\ epoch' = 1 - epoch

\* commit_layout_state(state), the set_segment_state loop: every segment
\* dirty in either epoch is staged in the scratch vector.
CommitLayoutStateSet ==
  SetSegmentStates(segment_dirty[0] \cup segment_dirty[1],
                   IF epoch = 1 THEN SS_Back ELSE SS_Main)

(***************************************************************************)
(* What Open would rebuild from the image as it is now: recovery(SS_Main)  *)
(* (RecoveredMain of the image), whose commit publishes the scratch       *)
(* vector; prepare_working_memory then reads main for every segment not   *)
(* SS_Initial in it.                                                       *)
(***************************************************************************)
RecoveredState(s) ==
  IF /\ \E b \in Backs : back_to_main[b] = s /\ ~RecoverySkips(b)
     /\ GetSegmentState(s) /= SS_Main
    THEN SS_Main ELSE Scratch[s]

RecoveredWork ==
  LET md == RecoveredMain(0, main_data)
  IN [s \in Segs |-> IF RecoveredState(s) /= SS_Initial THEN md[s] ELSE Zero]

(***************************************************************************)
(* Open(path, create): the fresh image and the engine's constructor.  The  *)
(* constructor leaves flush_mode uninitialised; determine_flush_mode      *)
(* copies it into prev_flush_mode before either is read.                  *)
(***************************************************************************)
Init ==
  /\ ImageInit
  /\ work = [s \in Segs |-> Zero]
  /\ epoch = 1
  /\ block_dirty = [e \in {0, 1} |-> {}]
  /\ segment_dirty = [e \in {0, 1} |-> {}]
  /\ flush_blocks = [t \in Threads |-> <<>>]
  /\ address_buffer = [t \in Threads |-> <<>>]
  /\ flush_mode \in FlushModes
  /\ prev_flush_mode = flush_mode
  /\ next_back_segment = 0
  /\ pc = "run"
  /\ todo = NoItems
  /\ rec = 0
  /\ snap = work
  /\ creating = [t \in Threads |-> FALSE] /\ back_memory_lock = FALSE

itemLeftVars == <<committed_epoch, segment_state_dirty, segment_state_update>>

(***************************************************************************)
(* The mutator: a store instrumented with __crpm_hook_rt_store, which      *)
(* buffers the address and runs address_buffer_clear when the buffer is   *)
(* full.  Stores happen only outside checkpoint().                        *)
(***************************************************************************)
\* Variant: the buffer is drained one address too late.
StoreLateDrain(t, s, o, v) ==
  LET addrs == Append(address_buffer[t], <<s, o>>)
  IN /\ pc = "run"
     /\ work' = [work EXCEPT ![s][o] = v]
     /\ IF Len(addrs) > NumBufferedAddresses
          THEN /\ HookAll(t, addrs)
               /\ address_buffer' = [address_buffer EXCEPT ![t] = <<>>]
          ELSE /\ address_buffer' = [address_buffer EXCEPT ![t] = addrs]
               /\ UNCHANGED <<block_dirty, segment_dirty, flush_blocks>>
     /\ UNCHANGED <<imageVars, epoch, flush_mode, prev_flush_mode,
                    next_back_segment, ctlVars, raceVars>>

Store(t, s, o, v) ==
  LET addrs == Append(address_buffer[t], <<s, o>>)
  IN /\ pc = "run"
     /\ work' = [work EXCEPT ![s][o] = v]
     /\ IF Len(addrs) = NumBufferedAddresses
          THEN /\ HookAll(t, addrs)
               /\ address_buffer' = [address_buffer EXCEPT ![t] = <<>>]
          ELSE /\ address_buffer' = [address_buffer EXCEPT ![t] = addrs]
               /\ UNCHANGED <<block_dirty, segment_dirty, flush_blocks>>
     /\ UNCHANGED <<imageVars, epoch, flush_mode, prev_flush_mode,
                    next_back_segment, ctlVars, raceVars>>

(***************************************************************************)
(* checkpoint(nr_threads).                                                 *)
(***************************************************************************)
\* Between B1 and the latch: the leader drains every address buffer as its
\* own thread and picks the flush mode; FMODE_NO_ACTION returns at once.
Checkpoint(leader) ==
  /\ pc = "run"
  /\ HookAll(leader, FlattenSeq([i \in 1 .. NrThreads |-> address_buffer[i - 1]]))
  /\ address_buffer' = [t \in Threads |-> <<>>]
  /\ prev_flush_mode' = flush_mode
  /\ flush_mode' = FlushModeOf(flush_blocks')
  /\ IdleCheckpoints \/ flush_mode' /= FMODE_NO_ACTION
  /\ pc' = IF flush_mode' = FMODE_NO_ACTION THEN "run" ELSE "latch"
  /\ UNCHANGED <<imageVars, work, epoch, next_back_segment, todo, rec, snap, raceVars>>

\* Variant: the test reads this checkpoint's mode, not the previous one.
LatchOnFlushMode ==
  /\ pc = "latch"
  /\ IF flush_mode = FMODE_WBINVD
       THEN /\ pc' = "sync"
            /\ todo' = SegItems(segment_dirty[1 - epoch], 1 - epoch)
       ELSE /\ pc' = "apply1"
            /\ todo' = ApplyItems(epoch = 1)
  /\ UNCHANGED <<imageVars, engineVars, rec, snap, raceVars>>

\* After the latch: apply_nvm_to_nvm_parallel if the previous mode was
\* FMODE_WBINVD, else straight to the DRAM write-back of this epoch.
Latch ==
  /\ pc = "latch"
  /\ IF prev_flush_mode = FMODE_WBINVD
       THEN /\ pc' = "sync"
            /\ todo' = SegItems(segment_dirty[1 - epoch], 1 - epoch)
       ELSE /\ pc' = "apply1"
            /\ todo' = ApplyItems(epoch = 1)
  /\ UNCHANGED <<imageVars, engineVars, rec, snap, raceVars>>

SyncStep(t) ==
  /\ pc = "sync"
  /\ todo[t] /= <<>>
  /\ ApplyNvmToNvm(Head(todo[t]))
  /\ todo' = [todo EXCEPT ![t] = Tail(@)]
  /\ UNCHANGED <<itemLeftVars, work, epoch, block_dirty, segment_dirty,
                 flush_blocks, address_buffer, flush_mode, prev_flush_mode,
                 pc, rec, snap, raceVars>>

SyncDone ==
  /\ pc = "sync"
  /\ todo = NoItems
  /\ pc' = "apply1"
  /\ todo' = ApplyItems(epoch = 1)
  /\ UNCHANGED <<imageVars, engineVars, rec, snap, raceVars>>

\* The loop this step belongs to writes to the back slots.
WritesBack == (pc = "apply1") = (epoch = 1)
\* The next item of thread t cannot get a back slot.
\* allocate_back_segment, which takes back_memory_lock, finds no slot, and
\* find_back_segment's second read still finds none.
ItemOutOfShadow(t) ==
  LET s == Head(todo[t]).seg
  IN /\ OutOfShadow(s) /\ ~back_memory_lock
     /\ WritesBack \/ creating[t]

\* One item that needs no allocation, or, writing back, whose allocation
\* succeeds under back_memory_lock.
ApplyStep(t) ==
  LET s == Head(todo[t]).seg
  IN /\ pc \in {"apply1", "apply2"}
     /\ todo[t] /= <<>> /\ ~creating[t]
     /\ IF WritesBack
          THEN /\ ~OutOfShadow(s)
               /\ main_to_back[s] = NullSeg => ~back_memory_lock
               /\ ApplyToBack(Head(todo[t]))
          ELSE /\ ~NeedsSlot(s)
               /\ ApplyToMain(Head(todo[t]))
     /\ todo' = [todo EXCEPT ![t] = Tail(@)]
     /\ UNCHANGED <<itemLeftVars, work, epoch, block_dirty, segment_dirty,
                    flush_blocks, address_buffer, flush_mode, prev_flush_mode,
                    pc, rec, snap, raceVars>>

\* find_back_segment's unlocked get_main_to_back finds no slot: created.
FindBackSegmentTest(t) ==
  /\ pc \in {"apply1", "apply2"} /\ ~WritesBack
  /\ todo[t] /= <<>> /\ ~creating[t]
  /\ NeedsSlot(Head(todo[t]).seg)
  /\ creating' = [creating EXCEPT ![t] = TRUE]
  /\ UNCHANGED <<imageVars, engineVars, ctlVars, back_memory_lock>>

\* allocate_back_segment(s) under back_memory_lock, which does not test
\* main_to_back[s] again and returns with the lock held when every slot
\* belongs to a dirty segment; find_back_segment reads main_to_back[s]
\* again, and the item goes on with created set: main is overwritten from
\* that slot, the state set to SS_Back, and the blocks copied to main.
FindBackSegmentAllocate(t) ==
  LET it == Head(todo[t])
      s == it.seg
      b == IF CanAllocate THEN AllocatedSlot ELSE main_to_back[s]
  IN /\ creating[t] /\ ~back_memory_lock
     /\ CanAllocate \/ main_to_back[s] /= NullSeg
     /\ IF CanAllocate
          THEN /\ AllocateBackSegment(s)
               /\ UNCHANGED back_memory_lock
          ELSE /\ back_memory_lock' = TRUE
               /\ UNCHANGED <<back_to_main, main_to_back, next_back_segment>>
     /\ main_data' = [main_data EXCEPT ![s] = CopyBlocks(back_data[b], work[s], it.offs)]
     /\ SetSegmentStateAtomic(s, SS_Back)
     /\ todo' = [todo EXCEPT ![t] = Tail(@)]
     /\ creating' = [creating EXCEPT ![t] = FALSE]
     /\ UNCHANGED <<itemLeftVars, back_data, work, epoch, block_dirty,
                    segment_dirty, flush_blocks, address_buffer, flush_mode,
                    prev_flush_mode, pc, rec, snap>>

\* The barrier after the write-back, then begin_segment_state_update.
ApplyDone ==
  /\ pc = "apply1"
  /\ todo = NoItems
  /\ BeginSegmentStateUpdate
  /\ pc' = "commit_set"
  /\ UNCHANGED <<committed_epoch, segment_state, back_to_main, main_data,
                 back_data, main_to_back, segment_state_dirty, engineVars,
                 todo, rec, snap, raceVars>>

CommitSet ==
  /\ pc = "commit_set"
  /\ CommitLayoutStateSet
  /\ pc' = "commit_epoch"
  /\ UNCHANGED <<committed_epoch, back_to_main, main_data, back_data,
                 main_to_back, segment_state_update, engineVars, todo, rec, snap, raceVars>>

\* The commit point; snap records what this checkpoint saved.
CommitEpoch ==
  /\ pc = "commit_epoch"
  /\ CommitEpochStore
  /\ snap' = work
  /\ pc' = "commit_copy"
  /\ UNCHANGED <<segment_state, back_to_main, main_data, back_data,
                 main_to_back, segment_state_dirty, segment_state_update,
                 engineVars, todo, rec, raceVars>>

\* The rest of commit_segment_state_update; in FMODE_WBINVD the leader then
\* clears the last epoch's bits and flips the epoch, otherwise all threads
\* copy the buckets to the other side first.
CommitCopy ==
  /\ pc = "commit_copy"
  /\ CommitCopyBack
  /\ IF flush_mode = FMODE_WBINVD
       THEN /\ FinishCheckpoint
            /\ pc' = "run"
            /\ UNCHANGED todo
       ELSE /\ pc' = "apply2"
            /\ todo' = ApplyItems(epoch = 0)
            /\ UNCHANGED <<epoch, block_dirty, segment_dirty, flush_blocks>>
  /\ UNCHANGED <<committed_epoch, back_to_main, main_data, back_data,
                 main_to_back, work, address_buffer, flush_mode,
                 prev_flush_mode, next_back_segment, rec, snap, raceVars>>

Apply2Done ==
  /\ pc = "apply2"
  /\ todo = NoItems
  /\ FinishCheckpoint
  /\ pc' = "run"
  /\ UNCHANGED <<imageVars, work, address_buffer, flush_mode, prev_flush_mode,
                 next_back_segment, todo, rec, snap, raceVars>>

(***************************************************************************)
(* The process ends (a crash, or exit on "no free back segments") and is   *)
(* started again: the constructor's volatile state, Open's rebuilt        *)
(* main_to_back, and recovery(SS_Main)'s begin_segment_state_update.      *)
(***************************************************************************)
Restart ==
  /\ main_to_back' = RebuiltMainToBack(back_to_main)
  /\ segment_state_dirty' = {}
  /\ segment_state_update' = TRUE
  /\ work' = [s \in Segs |-> Zero]
  /\ epoch' = 1
  /\ block_dirty' = [e \in {0, 1} |-> {}]
  /\ segment_dirty' = [e \in {0, 1} |-> {}]
  /\ flush_blocks' = [t \in Threads |-> <<>>]
  /\ address_buffer' = [t \in Threads |-> <<>>]
  /\ flush_mode' \in FlushModes
  /\ prev_flush_mode' = flush_mode'
  /\ next_back_segment' = 0
  /\ pc' = "recover"
  /\ todo' = NoItems
  /\ rec' = 0
  /\ creating' = [t \in Threads |-> FALSE] /\ back_memory_lock' = FALSE
  /\ UNCHANGED <<persistentVars, snap>>

Crash ==
  /\ pc \in CrashPCs
  /\ Restart

ExitOutOfShadow(t) ==
  /\ pc \in {"apply1", "apply2"}
  /\ todo[t] /= <<>>
  /\ ItemOutOfShadow(t)
  /\ Restart

(***************************************************************************)
(* recovery(SS_Main) and prepare_working_memory.                          *)
(***************************************************************************)
RecoverSlot ==
  /\ pc = "recover"
  /\ rec < NrBack
  /\ RecoverBackSlot(rec, SS_Main)
  /\ rec' = rec + 1
  /\ UNCHANGED <<committed_epoch, back_to_main, main_to_back,
                 segment_state_update, engineVars, pc, todo, snap, raceVars>>

RecoverCommit ==
  /\ pc = "recover"
  /\ rec = NrBack
  /\ CommitEpochStore
  /\ pc' = "recover_copy"
  /\ UNCHANGED <<segment_state, back_to_main, main_data, back_data,
                 main_to_back, segment_state_dirty, segment_state_update,
                 engineVars, todo, rec, snap, raceVars>>

RecoverCopy ==
  /\ pc = "recover_copy"
  /\ CommitCopyBack
  /\ pc' = "prepare"
  /\ UNCHANGED <<committed_epoch, back_to_main, main_data, back_data,
                 main_to_back, engineVars, todo, rec, snap, raceVars>>

PrepareWorkingMemory ==
  /\ pc = "prepare"
  /\ work' = [s \in Segs |-> IF GetSegmentState(s) /= SS_Initial
                               THEN main_data[s] ELSE Zero]
  /\ pc' = "run"
  /\ UNCHANGED <<imageVars, epoch, block_dirty, segment_dirty, flush_blocks,
                 address_buffer, flush_mode, prev_flush_mode,
                 next_back_segment, todo, rec, snap, raceVars>>

Next ==
  \/ \E t \in Threads, s \in Segs, o \in Offs, v \in Vals : Store(t, s, o, v)
  \/ \E t \in Threads : Checkpoint(t)
  \/ Latch \/ SyncDone \/ ApplyDone \/ CommitSet \/ CommitEpoch
  \/ CommitCopy \/ Apply2Done
  \/ \E t \in Threads : \/ SyncStep(t) \/ ApplyStep(t) \/ FindBackSegmentTest(t)
                        \/ FindBackSegmentAllocate(t) \/ ExitOutOfShadow(t)
  \/ Crash
  \/ RecoverSlot \/ RecoverCommit \/ RecoverCopy \/ PrepareWorkingMemory

Spec == Init /\ [][Next]_vars

=============================================================================

---------------------------- MODULE MCSingleEpoch ----------------------------
(***************************************************************************)
(* The three single-epoch engines, each running one pool: M uses          *)
(* MProtectEngine (regions MRegions), D uses DirtyBitEngine (pages DPages), *)
(* U uses UndoLogEngine (blocks UBlocks), L uses LmcEngine (blocks        *)
(* LBlocks, threads LThreads).  A behaviour runs one pool,                 *)
(* chosen at the start: pools of different engines share no state, so     *)
(* their interleavings would only multiply the states.  A crash ends the  *)
(* process; the pool is reopened and recovers.  For D the crash also      *)
(* clears the process's soft-dirty bits.                                   *)
(***************************************************************************)
EXTENDS Naturals

CONSTANTS MRegions, DPages, UBlocks, Vals, Zero, Threads, MaxFlushRegions,
          MaxFlushBlocks, BitWidth, BlockSize, NoTrap, NoEntry,
          LBlocks, LThreads, LMaxFlushBlocks, EpochMax,
          NrSBs, ChunkSBs, LargeSBs, StampModulus, MaxOps, Null

VARIABLES pool,
          m_consistent, m_main, m_nvm, m_back, m_writable, m_dirty, m_buckets,
          m_trap, m_mode, m_pc, m_todo,
          d_consistent, d_main, d_nvm, d_back, d_pte, d_pc, d_todo,
          soft_dirty,
          u_data, u_nvm, u_log, u_hdr_log_head, u_log_head, u_dirty, u_buckets,
          u_locks, u_th, u_pc, u_cursor,
          l_working, l_nvm, l_shadow, l_tagmap, l_epoch, l_has_snapshot,
          l_buckets, l_locks, l_th, l_pc, l_todo,
          s_head, s_next_free, s_bulk_tail, s_held, s_th, s_ops

mVars == <<m_consistent, m_main, m_nvm, m_back, m_writable, m_dirty, m_buckets,
           m_trap, m_mode, m_pc, m_todo>>
dVars == <<d_consistent, d_main, d_nvm, d_back, d_pte, d_pc, d_todo, soft_dirty>>
uVars == <<u_data, u_nvm, u_log, u_hdr_log_head, u_log_head, u_dirty, u_buckets,
           u_locks, u_th, u_pc, u_cursor>>
lVars == <<l_working, l_nvm, l_shadow, l_tagmap, l_epoch, l_has_snapshot,
           l_buckets, l_locks, l_th, l_pc, l_todo>>
sVars == <<s_head, s_next_free, s_bulk_tail, s_held, s_th, s_ops>>
vars == <<pool, mVars, dVars, uVars, lVars, sVars>>

M == INSTANCE MProtectEngine WITH
       Units <- MRegions, consistent_data <- m_consistent, main_data <- m_main,
       nvm_main <- m_nvm, back_data <- m_back, writable <- m_writable,
       region_dirty <- m_dirty, flush_regions <- m_buckets, trap <- m_trap,
       flush_mode <- m_mode, pc <- m_pc, todo <- m_todo

D == INSTANCE DirtyBitEngine WITH
       Units <- DPages, AllPages <- DPages, consistent_data <- d_consistent,
       main_data <- d_main, nvm_main <- d_nvm, back_data <- d_back,
       pte_buffer <- d_pte, pc <- d_pc, todo <- d_todo

U == INSTANCE UndoLogEngine WITH
       Blocks <- UBlocks, data <- u_data, nvm_data <- u_nvm, log <- u_log,
       hdr_log_head <- u_hdr_log_head, log_head <- u_log_head,
       block_dirty <- u_dirty, flush_blocks <- u_buckets, locks <- u_locks,
       th <- u_th, pc <- u_pc, cursor <- u_cursor

L == INSTANCE LmcEngine WITH
       Blocks <- LBlocks, Threads <- LThreads, MaxFlushBlocks <- LMaxFlushBlocks,
       working <- l_working, nvm_working <- l_nvm, shadow <- l_shadow,
       tagmap <- l_tagmap, current_epoch <- l_epoch, has_snapshot <- l_has_snapshot,
       flush_blocks <- l_buckets, locks <- l_locks, th <- l_th, pc <- l_pc,
       todo <- l_todo

\* The superblock free list of the allocator of a pool, with its threads.
S == INSTANCE MCSuperblockList WITH
       head <- s_head, next_free <- s_next_free, bulk_tail <- s_bulk_tail,
       held <- s_held, th <- s_th, ops <- s_ops

Init ==
  /\ pool \in {"mprotect", "dirtybit", "undolog", "lmc", "lrmalloc"}
  /\ M!Init /\ D!Init /\ soft_dirty = {} /\ U!Init /\ L!Init /\ S!Init

\* The process ends; the soft-dirty bits of its pages go with it.
DProcessCrash ==
  /\ \E lost \in SUBSET DPages : D!Crash(lost)
  /\ soft_dirty' = {}

Next ==
  \/ /\ pool = "mprotect"
     /\ M!Step \/ \E lost \in SUBSET MRegions : M!Crash(lost)
     /\ UNCHANGED <<pool, dVars, uVars, lVars, sVars>>
  \/ /\ pool = "dirtybit"
     /\ D!Step \/ DProcessCrash
     /\ UNCHANGED <<pool, mVars, uVars, lVars, sVars>>
  \/ /\ pool = "undolog"
     /\ U!Next
     /\ UNCHANGED <<pool, mVars, dVars, lVars, sVars>>
  \/ /\ pool = "lmc"
     /\ L!Next
     /\ UNCHANGED <<pool, mVars, dVars, uVars, sVars>>
  \/ /\ pool = "lrmalloc"
     /\ S!Next
     /\ UNCHANGED <<pool, mVars, dVars, uVars, lVars>>

\* Only the undo-log engine has threads of its own that the properties
\* wait for (see UndoLogEngine's Fairness).
Spec == Init /\ [][Next]_vars /\ U!Fairness

TypeOK == M!TypeOK /\ D!TypeOK /\ U!TypeOK /\ L!TypeOK /\ S!TypeOK

(***************************************************************************)
(* Refinement.  The snapshot of a pool is the arena consistent_data names;*)
(* the memory its program sees is main, or, while Open recovers, the     *)
(* snapshot it is restoring.                                              *)
(***************************************************************************)
MSnap == IF m_consistent = M!kMainData THEN m_main ELSE m_back
MMem == IF m_pc = "recover" THEN MSnap ELSE m_main
DSnap == IF d_consistent = D!kMainData THEN d_main ELSE d_back
DMem == IF d_pc = "recover" THEN DSnap ELSE d_main

\* For U the snapshot is what recover would make of NVM: the data area
\* with the published undo entries replayed.
USnap == U!Recovered(u_nvm)
UMem == IF u_pc = "recover" THEN USnap ELSE u_data

\* For L the snapshot is what recover would make of NVM: the working area
\* with the blocks tagged current_epoch taken from the shadow area.
LSnap == L!Recovered(l_nvm)
LMem == IF l_pc = "recover" THEN LSnap ELSE l_working

MAbs == INSTANCE SnapshotMemory WITH Units <- MRegions, mem <- MMem, snap <- MSnap
DAbs == INSTANCE SnapshotMemory WITH Units <- DPages, mem <- DMem, snap <- DSnap
UAbs == INSTANCE SnapshotMemory WITH Units <- UBlocks, mem <- UMem, snap <- USnap
LAbs == INSTANCE SnapshotMemory WITH Units <- LBlocks, mem <- LMem, snap <- LSnap

(***************************************************************************)
(* The mprotect pool implements SnapshotMemory: every checkpoint that     *)
(* returns has made main durable (flush_parallel, then the copy of the    *)
(* dirty regions to back), and whatever crash or power failure follows,    *)
(* recover_data gives the program the last checkpoint, across the          *)
(* sigfault_handler's tracking, the flush-mode choice and the region      *)
(* protection that checkpoint restores.                                    *)
(***************************************************************************)
MRefinesSnapshot == MAbs!Spec

(***************************************************************************)
(* The dirty-bit pool implements SnapshotMemory: the soft-dirty pages     *)
(* read_page_map reports are all the pages written since the last         *)
(* checkpoint, so copying them to back completes the checkpoint, and      *)
(* recover_data restores it.                                               *)
(***************************************************************************)
DRefinesSnapshot == DAbs!Spec

(***************************************************************************)
(* The undo-log pool implements SnapshotMemory: an entry is durable before *)
(* header->log_head covers it, the CAS loop publishes entries in the order *)
(* fetch_add reserved them, so the published prefix never holds a stale   *)
(* entry of an earlier epoch, and the log is truncated only after the     *)
(* data area is flushed; recover then restores the last checkpoint after  *)
(* any crash, power failure or exit on a full log.                         *)
(***************************************************************************)
URefinesSnapshot == UAbs!Spec

(***************************************************************************)
(* The LMC pool implements SnapshotMemory: a block's shadow holds its     *)
(* contents at the last checkpoint from its first store of the epoch on,  *)
(* checkpoint flushes every tagged block before advance_current_epoch     *)
(* untags them, and at UINT8_MAX the tagmap is cleared before the epoch   *)
(* restarts at 1, so no tag written epochs ago passes for a current one;  *)
(* recover then restores the last checkpoint after any crash or power     *)
(* failure, including one inside recover or inside the wrap.              *)
(***************************************************************************)
LRefinesSnapshot == LAbs!Spec

(***************************************************************************)
(* Outside recover, every LMC block not tagged with current_epoch holds   *)
(* the same contents in the cache and on NVM: checkpoint flushed it      *)
(* (FlushRegion of the bucket blocks, or WBINVD when a full bucket        *)
(* dropped an append) before advancing the epoch, and recover fenced its  *)
(* NT copies before advancing.  recover relies on this, since it copies  *)
(* back only the tagged blocks.                                            *)
(***************************************************************************)
LUntaggedBlocksDurable ==
  l_pc /= "recover" =>
    \A u \in LBlocks \ L!Tagged : l_working[u] = l_nvm[u]

(***************************************************************************)
(* Every thread that enters the undo-log hook_routine returns from it:     *)
(* the segment lock it spins on is released, and the CAS loop it spins in *)
(* is eventually released by the threads holding the earlier entries.     *)
(***************************************************************************)
UHookReturns == \A t \in Threads : u_th[t].at /= "idle" ~> u_th[t].at = "idle"

(***************************************************************************)
(* Between checkpoints, every mprotect region whose main differs from its *)
(* back copy is one the next checkpoint will copy: in region_dirty when   *)
(* the buckets will force WBINVD, otherwise in a bucket.  This is what    *)
(* lets sigfault_handler drop the append when the bucket is full.          *)
(***************************************************************************)
MCheckpointCoversModified ==
  (m_pc = "run" /\ m_consistent = M!kBackData) =>
    \A u \in MRegions :
      m_main[u] /= m_back[u] =>
        IF M!FlushModeOf(m_buckets) = M!FMODE_WBINVD THEN u \in m_dirty
        ELSE u \in M!BucketRegions

(***************************************************************************)
(* Between checkpoints, every dirty-bit page whose main differs from its  *)
(* back copy has its soft-dirty bit set, so read_page_map will report it. *)
(***************************************************************************)
DModifiedPagesSoftDirty ==
  (d_pc = "run" /\ d_consistent = D!kBackData) =>
    \A u \in DPages : d_main[u] /= d_back[u] => u \in soft_dirty

(***************************************************************************)
(* The allocator's avail_sb never hands a superblock out twice: its list  *)
(* ends and is disjoint from every block pmalloc has returned, and those  *)
(* blocks do not overlap, across the load / read next_free /              *)
(* compare-exchange interleavings of alloc_small_sb, alloc_large_sb,      *)
(* retire_small_sb and fill_sb_list, which the stamp keeps apart.         *)
(***************************************************************************)
SSuperblockExclusive == S!SuperblockExclusive

(***************************************************************************)
(* No carved superblock leaves the allocator's books: each is on          *)
(* avail_sb, in a returned block, or owned by a retire or fill_sb_list in *)
(* progress, which relinks its chain to the head of every retried         *)
(* compare-exchange.                                                       *)
(***************************************************************************)
SNoSuperblockLost == S!NoSuperblockLost

=============================================================================

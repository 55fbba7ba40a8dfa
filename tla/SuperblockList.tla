--------------------------- MODULE SuperblockList ---------------------------
(***************************************************************************)
(* The free list of superblocks of HookLRMallocAllocator                  *)
(* (hook_lrmalloc_allocator.cpp): metadata->avail_sb, a lock-free stack   *)
(* of descriptors linked through next_free, whose head is an              *)
(* atomic_stamped_pptr (pptr.h) that packs the pointer with an 8-bit      *)
(* stamp incremented by every successful compare-exchange.                *)
(*                                                                         *)
(* A superblock and its descriptor share an index (lookup_desc and        *)
(* lookup_sb), so both are an element of SBs.  bulk_tail is the index of  *)
(* the first superblock never carved.  Every thread runs pmalloc/pfree    *)
(* of small superblocks (alloc_small_sb, retire_small_sb) and of large    *)
(* ones of LargeSBs superblocks (alloc_large_sb, retire_large_sb); each    *)
(* load, store and compare-exchange of shared state is one step.          *)
(***************************************************************************)
EXTENDS Naturals, Sequences, FiniteSets

CONSTANTS
  Threads,       \* the mutator threads
  NrSBs,         \* engine->get_capacity() / kSuperBlockSize
  ChunkSBs,      \* kMinAllocateSuperBlockSize / kSuperBlockSize
  LargeSBs,      \* superblocks of the large blocks pmalloc hands out
  StampModulus,  \* 2^8: the stamp is a uint8_t
  MaxOps,        \* bound on the operations the threads start
  Null           \* nullptr

ASSUME /\ NrSBs \in Nat /\ ChunkSBs \in Nat \ {0, 1} /\ ChunkSBs <= NrSBs
       /\ LargeSBs \in Nat \ {0, 1} /\ StampModulus \in Nat \ {0}
       /\ MaxOps \in Nat /\ Null \notin Nat

SBs == 0 .. NrSBs - 1

VARIABLES
  head,        \* avail_sb: [ptr, stamp]
  next_free,   \* descriptor -> next_free
  bulk_tail,   \* metadata->bulk_tail, as a superblock index
  held,        \* the blocks pmalloc has returned and pfree not yet taken
  th,          \* per thread: its position and locals
  ops          \* operations started so far

vars == <<head, next_free, bulk_tail, held, th, ops>>

Ptrs == SBs \cup {Null}
Block(s, n) == [start |-> s, n |-> n]
Blocks == {Block(s, n) : s \in SBs, n \in {1, LargeSBs, ChunkSBs}}
SBsOf(b) == b.start .. b.start + b.n - 1

\* od, os, nd: old_desc, old_stamp, new_desc of alloc_*_sb and
\* retire_small_sb; fo, fs: old_head, old_stamp of fill_sb_list; blk: the
\* block being filled or retired; ret: where fill_sb_list returns to.
Idle == [pc |-> "idle", od |-> Null, os |-> 0, nd |-> Null, fo |-> Null,
         fs |-> 0, blk |-> Block(0, 1), ret |-> "idle"]

TypeOK ==
  /\ head \in [ptr : Ptrs, stamp : 0 .. StampModulus - 1]
  /\ next_free \in [SBs -> Ptrs]
  /\ bulk_tail \in ChunkSBs .. NrSBs
  /\ held \subseteq Blocks
  /\ th \in [Threads -> [pc : {"idle", "as_loop", "as_cas", "al_walk", "al_cas",
                               "al_bulk", "rs_load", "rs_cas", "fill_cas"},
                         od : Ptrs, os : 0 .. StampModulus - 1, nd : Ptrs,
                         fo : Ptrs, fs : 0 .. StampModulus - 1,
                         blk : Blocks, ret : {"idle", "as_loop"}]]
  /\ ops \in 0 .. MaxOps

\* compare_exchange_weak / compare_exchange_strong of atomic_stamped_pptr:
\* the new head when the expected pointer and stamp match, and otherwise
\* what the call writes back to expected and expected_stamp.  A null
\* current value sets expected to nullptr and leaves expected_stamp.
\* Variant: the stamp left out of the comparison, as with the
\* atomic_pptr<Descriptor> avail_sb the declaration has commented out.
CasSucceedsIgnoringStamp(od, os) == head.ptr = od
CasSucceeds(od, os) == head = [ptr |-> od, stamp |-> os]
Reload(o, s) ==
  IF head.ptr = Null THEN [o |-> Null, s |-> s]
  ELSE [o |-> head.ptr, s |-> head.stamp]

Bump(s) == (s + 1) % StampModulus

\* bulk_allocate(&sb, kPageSize, n superblocks): the CAS of bulk_tail.  A
\* lost CAS (-EAGAIN) changes nothing and is retried, so only the success
\* is a step; -ENOMEM is the guard.
BulkAllocate(n) ==
  /\ bulk_tail + n <= NrSBs
  /\ bulk_tail' = bulk_tail + n

\* fill_sb_list(sb, count): new Descriptor() on every descriptor of the
\* chunk, linked through next_free, the last one null; then the load of
\* avail_sb.  The descriptors are not yet reachable, so these writes and
\* the load are one step.  ret is where the caller resumes.
FillLoad(t, s, n, ret) ==
  /\ next_free' = [d \in SBs |-> IF d \in s .. s + n - 2 THEN d + 1
                                 ELSE IF d = s + n - 1 THEN Null
                                 ELSE next_free[d]]
  /\ th' = [th EXCEPT ![t] = [@ EXCEPT !.pc = "fill_cas", !.fo = head.ptr,
                                       !.fs = head.stamp, !.blk = Block(s, n),
                                       !.ret = ret]]

\* setup_metadata: the first chunk, its first superblock left unused, and
\* fill_sb_list of the others on an empty avail_sb.
Init ==
  /\ head = [ptr |-> 1, stamp |-> 1]
  /\ next_free = [d \in SBs |-> IF d \in 1 .. ChunkSBs - 2 THEN d + 1 ELSE Null]
  /\ bulk_tail = ChunkSBs
  /\ held = {}
  /\ th = [t \in Threads |-> Idle]
  /\ ops = 0

StartOp(t) ==
  /\ th[t].pc = "idle" /\ ops < MaxOps
  /\ ops' = ops + 1
Goto(t, pc) == th' = [th EXCEPT ![t].pc = pc]

(***************************************************************************)
(* alloc_small_sb, from malloc_from_new_sb when pmalloc's cache and the   *)
(* partial list are empty.                                                 *)
(***************************************************************************)
AllocSmallLoad(t) ==
  /\ StartOp(t)
  /\ th' = [th EXCEPT ![t] = [Idle EXCEPT !.pc = "as_loop", !.od = head.ptr,
                                          !.os = head.stamp]]
  /\ UNCHANGED <<head, next_free, bulk_tail, held>>

\* old_desc->next_free.load()
AllocSmallReadNext(t) ==
  /\ th[t].pc = "as_loop" /\ th[t].od /= Null
  /\ th' = [th EXCEPT ![t].nd = next_free[th[t].od], ![t].pc = "as_cas"]
  /\ UNCHANGED <<head, next_free, bulk_tail, held, ops>>

\* compare_exchange_strong(old_desc, new_desc, old_stamp, old_stamp + 1)
AllocSmallCas(t) ==
  LET l == th[t]
  IN /\ l.pc = "as_cas"
     /\ IF CasSucceeds(l.od, l.os)
          THEN /\ head' = [ptr |-> l.nd, stamp |-> Bump(l.os)]
               /\ held' = held \cup {Block(l.od, 1)}
               /\ th' = [th EXCEPT ![t] = Idle]
          ELSE /\ th' = [th EXCEPT ![t].od = Reload(l.od, l.os).o,
                                   ![t].os = Reload(l.od, l.os).s,
                                   ![t].pc = "as_loop"]
               /\ UNCHANGED <<head, held>>
     /\ UNCHANGED <<next_free, bulk_tail, ops>>

\* old_desc is null: bulk_allocate of a chunk and fill_sb_list of it.
AllocSmallBulk(t) ==
  /\ th[t].pc = "as_loop" /\ th[t].od = Null
  /\ BulkAllocate(ChunkSBs)
  /\ FillLoad(t, bulk_tail, ChunkSBs, "as_loop")
  /\ UNCHANGED <<head, held, ops>>

(***************************************************************************)
(* alloc_large_sb, from pmalloc of more than kMaxSize bytes: one attempt  *)
(* to take LargeSBs contiguous descriptors off the top of avail_sb, and   *)
(* bulk_allocate otherwise.                                                *)
(***************************************************************************)
AllocLargeLoad(t) ==
  /\ StartOp(t)
  /\ th' = [th EXCEPT ![t] = [Idle EXCEPT !.pc = IF head.ptr /= Null THEN "al_walk"
                                                                     ELSE "al_bulk",
                                          !.od = head.ptr, !.os = head.stamp]]
  /\ UNCHANGED <<head, next_free, bulk_tail, held>>

\* The loop that checks desc->next_free == desc + 1, and the load of the
\* last one's next_free, as one step.
AllocLargeWalk(t) ==
  LET d == th[t].od
      valid == \A i \in 1 .. LargeSBs - 1 : next_free[d + i - 1] = d + i
  IN /\ th[t].pc = "al_walk"
     /\ th' = IF valid
                THEN [th EXCEPT ![t].nd = next_free[d + LargeSBs - 1],
                                ![t].pc = "al_cas"]
                ELSE [th EXCEPT ![t].pc = "al_bulk"]
     /\ UNCHANGED <<head, next_free, bulk_tail, held, ops>>

AllocLargeCas(t) ==
  LET l == th[t]
  IN /\ l.pc = "al_cas"
     /\ IF CasSucceeds(l.od, l.os)
          THEN /\ head' = [ptr |-> l.nd, stamp |-> Bump(l.os)]
               /\ held' = held \cup {Block(l.od, LargeSBs)}
               /\ th' = [th EXCEPT ![t] = Idle]
          ELSE /\ Goto(t, "al_bulk")
               /\ UNCHANGED <<head, held>>
     /\ UNCHANGED <<next_free, bulk_tail, ops>>

\* bulk_allocate until it succeeds, or pmalloc returns nullptr on -ENOMEM.
AllocLargeBulk(t) ==
  /\ th[t].pc = "al_bulk"
  /\ \/ /\ BulkAllocate(LargeSBs)
        /\ held' = held \cup {Block(bulk_tail, LargeSBs)}
     \/ /\ bulk_tail + LargeSBs > NrSBs
        /\ UNCHANGED <<bulk_tail, held>>
  /\ th' = [th EXCEPT ![t] = Idle]
  /\ UNCHANGED <<head, next_free, ops>>

(***************************************************************************)
(* retire_small_sb, when flush_cache or malloc_from_partial finds a       *)
(* superblock with every block free; any thread may free the last block.  *)
(***************************************************************************)
\* new(desc) Descriptor(): next_free is reset to nullptr.
RetireSmallReset(t, b) ==
  /\ StartOp(t) /\ b \in held /\ b.n = 1
  /\ held' = held \ {b}
  /\ next_free' = [next_free EXCEPT ![b.start] = Null]
  /\ th' = [th EXCEPT ![t] = [Idle EXCEPT !.pc = "rs_load", !.blk = b]]
  /\ UNCHANGED <<head, bulk_tail>>

\* The load of avail_sb at the top of the loop and desc->next_free = old_head.
RetireSmallLoad(t) ==
  /\ th[t].pc = "rs_load"
  /\ next_free' = [next_free EXCEPT ![th[t].blk.start] = head.ptr]
  /\ th' = [th EXCEPT ![t].od = head.ptr, ![t].os = head.stamp, ![t].pc = "rs_cas"]
  /\ UNCHANGED <<head, bulk_tail, held, ops>>

RetireSmallCas(t) ==
  LET l == th[t]
  IN /\ l.pc = "rs_cas"
     /\ IF CasSucceeds(l.od, l.os)
          THEN /\ head' = [ptr |-> l.blk.start, stamp |-> Bump(l.os)]
               /\ th' = [th EXCEPT ![t] = Idle]
          ELSE /\ Goto(t, "rs_load")
               /\ UNCHANGED head
     /\ UNCHANGED <<next_free, bulk_tail, held, ops>>

(***************************************************************************)
(* retire_large_sb, from pfree of a large block: fill_sb_list of its      *)
(* superblocks.                                                            *)
(***************************************************************************)
RetireLarge(t, b) ==
  /\ StartOp(t) /\ b \in held /\ b.n = LargeSBs
  /\ held' = held \ {b}
  /\ FillLoad(t, b.start, LargeSBs, "idle")
  /\ UNCHANGED <<head, bulk_tail>>

\* Variant: the store of desc->next_free left out of the loop.
FillCasNoRelink(t) ==
  LET l == th[t]
  IN /\ l.pc = "fill_cas"
     /\ IF CasSucceeds(l.fo, l.fs)
          THEN /\ head' = [ptr |-> l.blk.start, stamp |-> Bump(l.fs)]
               /\ th' = [th EXCEPT ![t] = IF l.ret = "idle" THEN Idle
                                          ELSE [l EXCEPT !.pc = "as_loop",
                                                         !.od = l.blk.start]]
          ELSE /\ th' = [th EXCEPT ![t].fo = Reload(l.fo, l.fs).o,
                                   ![t].fs = Reload(l.fo, l.fs).s]
               /\ UNCHANGED head
     /\ UNCHANGED <<next_free, bulk_tail, held, ops>>

\* The loop of fill_sb_list: desc->next_free.store(old_head) on the last
\* descriptor of the chain and compare_exchange_weak(old_head, desc_start,
\* old_stamp, old_stamp + 1).  old_head is loaded once, before the loop.
\* On success alloc_small_sb goes on with old_desc = lookup_desc(sb_base)
\* and its own old_stamp.
FillCas(t) ==
  LET l == th[t]
      last == l.blk.start + l.blk.n - 1
  IN /\ l.pc = "fill_cas"
     /\ next_free' = [next_free EXCEPT ![last] = l.fo]
     /\ IF CasSucceeds(l.fo, l.fs)
          THEN /\ head' = [ptr |-> l.blk.start, stamp |-> Bump(l.fs)]
               /\ th' = [th EXCEPT ![t] = IF l.ret = "idle" THEN Idle
                                          ELSE [l EXCEPT !.pc = "as_loop",
                                                         !.od = l.blk.start]]
          ELSE /\ th' = [th EXCEPT ![t].fo = Reload(l.fo, l.fs).o,
                                   ![t].fs = Reload(l.fo, l.fs).s]
               /\ UNCHANGED head
     /\ UNCHANGED <<bulk_tail, held, ops>>

(***************************************************************************)
(* The steps of an operation in progress, and the start of one.           *)
(***************************************************************************)
Continue(t) ==
  \/ AllocSmallReadNext(t) \/ AllocSmallCas(t) \/ AllocSmallBulk(t)
  \/ AllocLargeWalk(t) \/ AllocLargeCas(t) \/ AllocLargeBulk(t)
  \/ RetireSmallLoad(t) \/ RetireSmallCas(t)
  \/ FillCas(t)

Begin(t) ==
  \/ AllocSmallLoad(t) \/ AllocLargeLoad(t)
  \/ \E b \in held : RetireSmallReset(t, b) \/ RetireLarge(t, b)

Next == \E t \in Threads : Begin(t) \/ Continue(t)

\* The OS keeps running a thread that is inside an operation; no thread
\* has to start one.
Fairness == \A t \in Threads : WF_vars(Continue(t))

Spec == Init /\ [][Next]_vars /\ Fairness

=============================================================================

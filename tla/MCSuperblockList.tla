-------------------------- MODULE MCSuperblockList --------------------------
(***************************************************************************)
(* Properties of the superblock free list of HookLRMallocAllocator.       *)
(***************************************************************************)
EXTENDS SuperblockList

\* The descriptors reachable from avail_sb through next_free, cut after
\* k of them.
RECURSIVE FreeFrom(_, _)
FreeFrom(p, k) ==
  IF p = Null \/ k = 0 THEN <<>> ELSE <<p>> \o FreeFrom(next_free[p], k - 1)

FreeSeq == FreeFrom(head.ptr, NrSBs + 1)
FreeSet == {FreeSeq[i] : i \in 1 .. Len(FreeSeq)}

\* The superblocks of an operation in progress that owns them: a retire,
\* or a fill_sb_list whose chain is not yet on avail_sb.
InFlight == UNION {SBsOf(th[t].blk) : t \in {u \in Threads :
                     th[u].pc \in {"rs_load", "rs_cas", "fill_cas"}}}

(***************************************************************************)
(* No superblock is handed out twice: avail_sb is a list that ends, and   *)
(* none of its descriptors is part of a block pmalloc has returned, nor    *)
(* do two such blocks overlap.  alloc_small_sb and alloc_large_sb read    *)
(* next_free of a descriptor another thread may pop, retire and push back *)
(* before their compare-exchange; the stamp of avail_sb is what makes     *)
(* that compare-exchange fail.                                             *)
(***************************************************************************)
SuperblockExclusive ==
  /\ Cardinality(FreeSet) = Len(FreeSeq) /\ Len(FreeSeq) <= NrSBs
  /\ \A b \in held : SBsOf(b) \cap FreeSet = {}
  /\ \A b, c \in held : b /= c => SBsOf(b) \cap SBsOf(c) = {}

(***************************************************************************)
(* No superblock is lost: every superblock bulk_allocate has carved,      *)
(* except the first one setup_metadata leaves unused, is on avail_sb, in  *)
(* a block pmalloc has returned, or owned by a retire or fill_sb_list in  *)
(* progress.  fill_sb_list links its chain to the old_head of its last    *)
(* compare-exchange, so a head pushed while it retries must not be cut    *)
(* off.                                                                    *)
(***************************************************************************)
NoSuperblockLost ==
  \A d \in 1 .. bulk_tail - 1 :
    \/ d \in FreeSet \/ d \in InFlight
    \/ \E b \in held : d \in SBsOf(b)

(***************************************************************************)
(* fill_sb_list returns: from retire_large_sb (pfree of a large block) or *)
(* from alloc_small_sb after bulk_allocate, its compare-exchange loop     *)
(* ends while the thread keeps being scheduled.                          *)
(***************************************************************************)
FillSbListReturns ==
  \A t \in Threads : th[t].pc = "fill_cas" ~> th[t].pc /= "fill_cas"

=============================================================================

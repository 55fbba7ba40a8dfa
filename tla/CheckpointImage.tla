-------------------------- MODULE CheckpointImage --------------------------
(***************************************************************************)
(* The checkpoint image of libcrpm (src/runtime/src/checkpoint.cpp): the   *)
(* persistent header with committed_epoch, the two segment-state vectors,  *)
(* the back->main index, the main and back segment arenas, and the        *)
(* volatile main->back index and per-cache-line "state dirty" flags.      *)
(*                                                                         *)
(* Segment contents are abstracted to one value per block.  Every store   *)
(* issued by the image (NT stores, flushed lines) is taken to be durable   *)
(* when the step that issues it ends: the model considers process crashes, *)
(* where the mapping keeps every store, not power failures.               *)
(*                                                                         *)
(* The module defines the image's operations as actions over its own      *)
(* variables; the engines (HybridInstEngine, ...) INSTANCE it and drive    *)
(* them from their own control flow.                                       *)
(***************************************************************************)
EXTENDS Naturals, FiniteSets

CONSTANTS
  Segs,               \* main segment ids 0 .. nr_main_segments-1
  Backs,              \* back segment ids 0 .. nr_back_segments-1 (an interval)
  Offs,               \* block offsets inside a segment
  Vals,               \* block contents
  NullSeg,            \* kNullSegmentIndex (UINT64_MAX)
  RecordsPerLine,     \* kCacheLineSize / sizeof(uint8_t) state records per line
  EpochModulus        \* committed_epoch + 1 is computed in a uint32_t

ASSUME Segs \subseteq Nat /\ Backs \subseteq Nat /\ NullSeg \notin Nat
ASSUME RecordsPerLine \in Nat \ {0} /\ EpochModulus \in Nat \ {0, 1}

\* CheckpointImage::SS_Initial, SS_Main, SS_Back, SS_Identical
SS_Initial == 0
SS_Main == 1
SS_Back == 2
SS_Identical == 3
SStates == {SS_Initial, SS_Main, SS_Back, SS_Identical}

Lines == {s \div RecordsPerLine : s \in Segs}
Line(s) == s \div RecordsPerLine

VARIABLES
  committed_epoch,      \* header->committed_epoch            (persistent)
  segment_state,        \* segment_state[0..1][seg]            (persistent)
  back_to_main,         \* back_to_main[back]                  (persistent)
  main_data,            \* main arena, per segment and block    (persistent)
  back_data,            \* back arena, per back slot and block  (persistent)
  main_to_back,         \* main_to_back[seg]                   (DRAM)
  segment_state_dirty,  \* lines of the scratch vector written (DRAM)
  segment_state_update  \* thread_local flag set by begin_...  (DRAM)

imageVars == <<committed_epoch, segment_state, back_to_main, main_data,
               back_data, main_to_back, segment_state_dirty,
               segment_state_update>>
persistentVars == <<committed_epoch, segment_state, back_to_main, main_data,
                    back_data>>

ImageTypeOK ==
  /\ committed_epoch \in 0 .. EpochModulus - 1
  /\ segment_state \in [{0, 1} -> [Segs -> SStates]]
  /\ back_to_main \in [Backs -> Segs \cup {NullSeg}]
  /\ main_data \in [Segs -> [Offs -> Vals]]
  /\ back_data \in [Backs -> [Offs -> Vals]]
  /\ main_to_back \in [Segs -> Backs \cup {NullSeg}]
  /\ segment_state_dirty \subseteq Lines
  /\ segment_state_update \in BOOLEAN

(***************************************************************************)
(* Reading the image.                                                      *)
(***************************************************************************)
\* bi_epoch = committed_epoch & 1 selects the authoritative vector.
BiEpoch == committed_epoch % 2
\* get_segment_state
GetSegmentState(s) == segment_state[BiEpoch][s]
\* the vector set_segment_state writes: segment_state[1 - bi_epoch]
Scratch == segment_state[1 - BiEpoch]
\* get_main_to_back
GetMainToBack(s) == main_to_back[s]
\* The volatile inverse that Open rebuilds from back_to_main; its loop runs
\* upwards, so the last slot bound to a segment wins.
RebuiltMainToBack(b2m) ==
  [s \in Segs |-> IF \E b \in Backs : b2m[b] = s
                    THEN CHOOSE b \in Backs : b2m[b] = s /\
                           \A c \in Backs : b2m[c] = s => c <= b
                    ELSE NullSeg]

(***************************************************************************)
(* Open(addr, ..., initialize): a fresh image; the volatile main_to_back  *)
(* is built from the persistent back_to_main, as every reopen rebuilds   *)
(* it (the engines' restarts do the same).                               *)
(***************************************************************************)
ImageInit ==
  /\ committed_epoch = 0
  /\ segment_state = [e \in {0, 1} |-> [s \in Segs |-> SS_Initial]]
  /\ back_to_main = [b \in Backs |-> b]
  /\ main_data = [s \in Segs |-> [o \in Offs |-> 0]]
  /\ back_data = [b \in Backs |-> [o \in Offs |-> 0]]
  /\ main_to_back = RebuiltMainToBack([b \in Backs |-> b])
  /\ segment_state_dirty = {}
  /\ segment_state_update = FALSE

(***************************************************************************)
(* The epoch-flip commit.                                                  *)
(***************************************************************************)
\* begin_segment_state_update
BeginSegmentStateUpdate ==
  /\ segment_state_update' = TRUE

\* set_segment_state(seg, state) for every seg of a set, as the engines'
\* commit loops issue them.  Called outside an update the code exits.
SetSegmentStates(S, st) ==
  /\ segment_state_update
  /\ segment_state' = [segment_state EXCEPT ![1 - BiEpoch] =
                         [s \in Segs |-> IF s \in S THEN st ELSE @[s]]]
  /\ segment_state_dirty' = segment_state_dirty \cup
                              {Line(s) : s \in {x \in S : Scratch[x] /= st}}

\* commit_segment_state_update, first half: flush the dirty lines of the
\* new vector, fence, and NT-store next_epoch (the commit point).
CommitEpochStore ==
  /\ committed_epoch' = (committed_epoch + 1) % EpochModulus

\* commit_segment_state_update, second half: copy every dirty line of the
\* now authoritative vector back into what becomes the next scratch.
CommitCopyBack ==
  /\ segment_state' = [segment_state EXCEPT ![1 - BiEpoch] =
                         [s \in Segs |-> IF Line(s) \in segment_state_dirty
                                           THEN segment_state[BiEpoch][s]
                                           ELSE @[s]]]
  /\ segment_state_dirty' = {}
  /\ segment_state_update' = FALSE

\* set_segment_state_atomic: the authoritative slot, then the scratch slot.
SetSegmentStateAtomic(s, st) ==
  /\ segment_state' = [e \in {0, 1} |-> [segment_state[e] EXCEPT ![s] = st]]

(***************************************************************************)
(* Back-slot binding.                                                      *)
(***************************************************************************)
\* bind_back_segment(main, back)
BindBackSegment(m, b) ==
  LET old == back_to_main[b]
      m2b == IF old /= NullSeg THEN [main_to_back EXCEPT ![old] = NullSeg]
                               ELSE main_to_back
  IN /\ back_to_main' = [back_to_main EXCEPT ![b] = m]
     /\ main_to_back' = [m2b EXCEPT ![m] = b]

(***************************************************************************)
(* recovery(to_state), the body of one iteration of its loop over back     *)
(* slots: copy the authoritative side over the other one, and stage        *)
(* to_state for the segment in the scratch vector.                         *)
(***************************************************************************)
RecoverySkips(b) ==
  back_to_main[b] = NullSeg \/ GetSegmentState(back_to_main[b]) = SS_Initial

\* Variant: the copy runs from the non-authoritative side.
RecoverBackSlotSwapped(b, to_state) ==
  LET m  == back_to_main[b]
      st == GetSegmentState(m)
  IN IF RecoverySkips(b)
       THEN UNCHANGED <<main_data, back_data, segment_state, segment_state_dirty>>
       ELSE /\ back_data' = IF st = SS_Back
                              THEN [back_data EXCEPT ![b] = main_data[m]]
                              ELSE back_data
            /\ main_data' = IF st = SS_Main
                              THEN [main_data EXCEPT ![m] = back_data[b]]
                              ELSE main_data
            /\ IF to_state /= st
                 THEN SetSegmentStates({m}, to_state)
                 ELSE UNCHANGED <<segment_state, segment_state_dirty>>

RecoverBackSlot(b, to_state) ==
  LET m  == back_to_main[b]
      st == GetSegmentState(m)
  IN IF RecoverySkips(b)
       THEN UNCHANGED <<main_data, back_data, segment_state, segment_state_dirty>>
       ELSE /\ back_data' = IF st = SS_Main
                              THEN [back_data EXCEPT ![b] = main_data[m]]
                              ELSE back_data
            /\ main_data' = IF st = SS_Back
                              THEN [main_data EXCEPT ![m] = back_data[b]]
                              ELSE main_data
            /\ IF to_state /= st
                 THEN SetSegmentStates({m}, to_state)
                 ELSE UNCHANGED <<segment_state, segment_state_dirty>>


(***************************************************************************)
(* The main arena as recovery would leave it if the process restarted now: *)
(* its loop visits the back slots in ascending order and, for each bound   *)
(* segment not SS_Initial, copies the authoritative side over the other,  *)
(* so main ends with back's copy where the segment is SS_Back.            *)
(***************************************************************************)
RECURSIVE RecoveredMain(_, _)
RecoveredMain(b, md) ==
  IF b \notin Backs THEN md
  ELSE LET m == back_to_main[b]
       IN RecoveredMain(b + 1,
            IF ~RecoverySkips(b) /\ GetSegmentState(m) = SS_Back
              THEN [md EXCEPT ![m] = back_data[b]] ELSE md)

=============================================================================

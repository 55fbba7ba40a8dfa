----------------------------- MODULE MetadataV1 -----------------------------
(***************************************************************************)
(* The single-epoch pool layout of metadata.cpp, shared by the mprotect    *)
(* and the dirty-bit engines: a header whose consistent_data names the     *)
(* arena that holds the last checkpoint, the main arena the program works  *)
(* on in place, and the back arena.  Data is abstracted to one value per   *)
(* unit (an mprotect region or a soft-dirty page).                         *)
(*                                                                         *)
(* Persistence: main_data is what the program reads; nvm_main is what of   *)
(* main has reached the persistence domain.  A plain store to main stays   *)
(* in the cache until a flush (or WBINVD) writes it back; a power failure  *)
(* keeps, for each unit, either value.  Non-temporal stores (the copies    *)
(* into back and into main, and NTStore32 of consistent_data) bypass the  *)
(* cache and are persistent once the StoreFence that follows them ran.   *)
(***************************************************************************)
CONSTANTS Units, Vals, Zero

ASSUME Zero \in Vals

VARIABLES consistent_data, main_data, nvm_main, back_data

metaVars == <<consistent_data, main_data, nvm_main, back_data>>

kMainData == "kMainData"
kBackData == "kBackData"

MetaTypeOK ==
  /\ consistent_data \in {kMainData, kBackData}
  /\ main_data \in [Units -> Vals]
  /\ nvm_main \in [Units -> Vals]
  /\ back_data \in [Units -> Vals]

\* MetadataV1::Open(addr, capacity, true) on a freshly created (zero) file:
\* the header says the back arena is consistent.
OpenCreate ==
  /\ consistent_data = kBackData
  /\ main_data = [u \in Units |-> Zero]
  /\ nvm_main = main_data
  /\ back_data = main_data

\* set_consistent_data: NTStore32 followed by StoreFence.
SetConsistentData(c) == consistent_data' = c

\* A store of the program into main (it stays in the cache).
StoreMain(u, v) ==
  /\ main_data' = [main_data EXCEPT ![u] = v]
  /\ UNCHANGED nvm_main

\* FlushRegion over the units S (or WriteBackAndInvalidate when S is all
\* units), followed by StoreFence.
FlushUnits(S) ==
  nvm_main' = [u \in Units |-> IF u \in S THEN main_data[u] ELSE nvm_main[u]]

\* NonTemporalCopy256(addr + capacity, addr, size): main unit u to back.
CopyMainToBack(u) == back_data' = [back_data EXCEPT ![u] = main_data[u]]

\* The process ends.  A process crash leaves the cache to be written back;
\* a power failure loses the units of lost that were not flushed.
LoseUnflushed(lost) ==
  /\ main_data' = [u \in Units |-> IF u \in lost THEN nvm_main[u] ELSE main_data[u]]
  /\ nvm_main' = main_data'

(***************************************************************************)
(* recover_data, one unit of NonTemporalCopyWithWriteElimination at a     *)
(* time: with consistent_data = kMainData main is copied to back (and     *)
(* RecoverDataDone then says kBackData); otherwise back is copied to main. *)
(***************************************************************************)
RecoverDataUnit(u) ==
  IF consistent_data = kMainData
    THEN /\ back_data' = [back_data EXCEPT ![u] = main_data[u]]
         /\ UNCHANGED <<consistent_data, main_data, nvm_main>>
    ELSE /\ main_data' = [main_data EXCEPT ![u] = back_data[u]]
         /\ nvm_main' = [nvm_main EXCEPT ![u] = back_data[u]]
         /\ UNCHANGED <<consistent_data, back_data>>

RecoverDataDone ==
  /\ IF consistent_data = kMainData
       THEN SetConsistentData(kBackData)
       ELSE UNCHANGED consistent_data
  /\ UNCHANGED <<main_data, nvm_main, back_data>>

=============================================================================

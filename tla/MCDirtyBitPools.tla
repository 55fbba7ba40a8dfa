--------------------------- MODULE MCDirtyBitPools ---------------------------
(***************************************************************************)
(* One process with two pools open on the dirty-bit engine, A (pages      *)
(* APages) and B (pages BPages).  Both read the soft-dirty bits of their   *)
(* own pages from /proc/self/pagemap, and both clear them by writing "4"  *)
(* to /proc/self/clear_refs, which clears the bits of every page of the   *)
(* process.  A crash ends the process and both pools are reopened.        *)
(***************************************************************************)
CONSTANTS APages, BPages, Vals, Zero

VARIABLES a_consistent, a_main, a_nvm, a_back, a_pte, a_pc, a_todo,
          b_consistent, b_main, b_nvm, b_back, b_pte, b_pc, b_todo,
          soft_dirty

aVars == <<a_consistent, a_main, a_nvm, a_back, a_pte, a_pc, a_todo>>
bVars == <<b_consistent, b_main, b_nvm, b_back, b_pte, b_pc, b_todo>>
vars == <<aVars, bVars, soft_dirty>>

A == INSTANCE DirtyBitEngine WITH
       Units <- APages, AllPages <- APages \cup BPages, consistent_data <- a_consistent,
       main_data <- a_main, nvm_main <- a_nvm, back_data <- a_back,
       pte_buffer <- a_pte, pc <- a_pc, todo <- a_todo

B == INSTANCE DirtyBitEngine WITH
       Units <- BPages, AllPages <- APages \cup BPages, consistent_data <- b_consistent,
       main_data <- b_main, nvm_main <- b_nvm, back_data <- b_back,
       pte_buffer <- b_pte, pc <- b_pc, todo <- b_todo

Init == A!Init /\ B!Init /\ soft_dirty = {}

ProcessCrash ==
  /\ \E lost \in SUBSET APages : A!Crash(lost)
  /\ \E lost \in SUBSET BPages : B!Crash(lost)
  /\ soft_dirty' = {}

Next ==
  \/ A!Step /\ UNCHANGED bVars
  \/ B!Step /\ UNCHANGED aVars
  \/ ProcessCrash

Spec == Init /\ [][Next]_vars

ASnap == IF a_consistent = A!kMainData THEN a_main ELSE a_back
AMem == IF a_pc = "recover" THEN ASnap ELSE a_main

AAbs == INSTANCE SnapshotMemory WITH Units <- APages, mem <- AMem, snap <- ASnap

(***************************************************************************)
(* Pool A implements SnapshotMemory while pool B is open in the same      *)
(* process: a checkpoint of A that returns is what a crash restores.  B's *)
(* reset_page_map (after its checkpoint and in its Open) also clears the  *)
(* soft-dirty bits of A's pages.                                           *)
(***************************************************************************)
ARefinesSnapshot == AAbs!Spec

=============================================================================

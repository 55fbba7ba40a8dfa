---------------------------- MODULE SnapshotMemory ----------------------------
(***************************************************************************)
(* What a pool promises its program (spec.md, "Control flow in steady     *)
(* state" and the single-epoch variant): the program reads and writes mem; *)
(* checkpoint() makes the current mem the snapshot; after a crash and     *)
(* reopen the program finds mem equal to the last snapshot.  Steps that   *)
(* an engine takes inside checkpoint or recovery without changing either  *)
(* are stuttering steps of this specification.                             *)
(***************************************************************************)
CONSTANTS Units, Vals, Zero

VARIABLES mem, snap

absVars == <<mem, snap>>

Init ==
  /\ mem = [u \in Units |-> Zero]
  /\ snap = mem

Write(u, v) ==
  /\ mem' = [mem EXCEPT ![u] = v]
  /\ UNCHANGED snap

\* checkpoint() returns: the snapshot is what the program had written.
TakeSnapshot ==
  /\ snap' = mem
  /\ UNCHANGED mem

\* A crash: what the program finds after Open is the snapshot.
Restore ==
  /\ mem' = snap
  /\ UNCHANGED snap

Next ==
  \/ \E u \in Units, v \in Vals : Write(u, v)
  \/ TakeSnapshot
  \/ Restore

Spec == Init /\ [][Next]_absVars

=============================================================================

------------------------ MODULE MigrationRefinement ------------------------
(***************************************************************************)
(* A migration implements SafeMove, for the files that verification looks  *)
(* at.  It is committed while the state file says of every batch that it   *)
(* passed verification and was approved.  A failed batch ends the commit   *)
(* as long as the source is whole: it may then be copied again.            *)
(***************************************************************************)
EXTENDS MigrationInvariant

Arrived == {f \in Checked : dst[f] = "Equal"}
Committed ==
    /\ disk # NoState
    /\ FullyApproved(disk)
    /\ src = File => \A b \in Batch : disk.batch[b].phase \in VerifiedPhase

Move == INSTANCE SafeMove WITH File <- Checked, atSource <- src \cap Checked,
                               arrived <- Arrived, committed <- Committed

(* Whatever commands are given, interrupted and repeated, the files move   *)
(* in the order SafeMove lays down: no checked file goes before the record *)
(* that all have passed and are approved is on disk and all have arrived;  *)
(* while it is, no copy of one is touched; once one is gone, it stays.     *)
MovesSafely == Move!Spec
=============================================================================

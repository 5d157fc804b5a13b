------------------------- MODULE MigrationProgress -------------------------
(***************************************************************************)
(* Why every command ends: each step of its own code comes nearer to the   *)
(* end of the command, measured by four numbers of which the first that    *)
(* changes falls.                                                          *)
(***************************************************************************)
EXTENDS MigrationInvariant

(* The parts of a command, by how many may still follow.  A resume         *)
(* verifies in the loop that copies.                                       *)
StageOf(at, cmd) ==
    CASE at = "Plan" -> 11
      [] at = "StartCopy" -> 10
      [] at \in {"Copy", "CopyFiles", "MarkLedger", "MarkConflict"} -> 9
      [] at = "StartVerify" -> 8
      [] at = "Verify" -> IF cmd = "resume" THEN 9 ELSE 7
      [] at = "DropLedger" -> 6
      [] at = "Awaiting" -> 5
      [] at \in {"Delete", "DeleteFiles"} -> 4
      [] at = "Snapshot" -> 3
      [] at = "Error" -> 2
      [] at \in {"Report", "ReportFailed"} -> 1
      [] at = "Idle" -> 0

Stage == StageOf(pc, session.cmd)

Undeleted(st) == {b \in Batch : ~ st.batch[b].deleted}
Unapproved(st) == {b \in Batch : ~ st.batch[b].approved}

(* The rounds a loop has before it: over the batches, or, in deletion,     *)
(* until nothing is left to delete or to ask for.                          *)
Rounds ==
    IF pc \in {"Delete", "DeleteFiles"}
    THEN Cardinality(Undeleted(mem)) + Cardinality(Unapproved(mem))
    ELSE NumBatches + 1 - cur

(* The steps of a round. *)
StepsOf(at) ==
    CASE at = "Copy" -> 3
      [] at = "CopyFiles" -> 2
      [] at \in {"MarkLedger", "MarkConflict", "Delete"} -> 1
      [] OTHER -> 0

StepsLeft == StepsOf(pc)

FilesLeft == Cardinality(todo)

MeasureIsNatural ==
    Stage \in Nat /\ Rounds \in Nat /\ StepsLeft \in Nat /\ FilesLeft \in Nat

Descends ==
    \/ Stage' < Stage
    \/ Stage' = Stage /\ Rounds' < Rounds
    \/ Stage' = Stage /\ Rounds' = Rounds /\ StepsLeft' < StepsLeft
    \/ /\ Stage' = Stage /\ Rounds' = Rounds /\ StepsLeft' = StepsLeft
       /\ FilesLeft' < FilesLeft

(* No loop over batches, files, approvals or snapshots goes round without  *)
(* coming nearer to its end, whatever state file and destination an        *)
(* earlier command has left: there is a bound on the steps of a command.   *)
LoopsDescend == [][SessionStep => Descends]_vars
=============================================================================

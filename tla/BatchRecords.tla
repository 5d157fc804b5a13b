--------------------------- MODULE BatchRecords ---------------------------
(***************************************************************************)
(* The data of one migration and the pure decisions made on it: the        *)
(* immutable batch manifest, the state caravan persists, the operator      *)
(* review that stops a command, and the table that tells `caravan resume`  *)
(* what to do next with a batch.                                           *)
(***************************************************************************)
EXTENDS Naturals, FiniteSets

CONSTANTS
    File,        \* the source files of the migration, in manifest order
    NumBatches,  \* how many batches the plan cut them into
    BatchOf,     \* the batch each file belongs to
    NoState      \* stands for "there is no state file"

Batch == 1 .. NumBatches

(* A batch's files.  The planner never emits an empty batch. *)
FilesOf(b) == {f \in File : BatchOf[f] = b}

BatchPhase == {"Planned", "CopyStarted", "CopyCompleted", "VerifyCompleted",
               "ApprovedForDelete", "DeleteCompleted", "SnapshotCompleted",
               "Failed"}

MigrationPhase == {"NotStarted", "Copying", "Verifying", "AwaitingDeletion",
                   "Completed", "Failed"}

BatchRecord == [phase    : BatchPhase,
                passed   : BOOLEAN,    \* verification_passed
                approved : BOOLEAN,    \* approved_for_delete
                deleted  : BOOLEAN]

(* The journal, the plan options and the paths steer nothing and are left  *)
(* out; the manifest is the constant BatchOf.                              *)
StateRecord == [phase : MigrationPhase, batch : [Batch -> BatchRecord]]

ASSUME FileAssumption == File \subseteq Nat /\ File # {}
ASSUME NumBatchesAssumption == NumBatches \in Nat \ {0}
ASSUME BatchOfAssumption == BatchOf \in [File -> Batch]
ASSUME NonEmptyBatches == \A b \in Batch : FilesOf(b) # {}
ASSUME NoStateAssumption == NoState \notin StateRecord

-----------------------------------------------------------------------------
PlannedBatch == [phase |-> "Planned", passed |-> FALSE,
                 approved |-> FALSE, deleted |-> FALSE]

(* MigrationState::new followed by seed_state_batches *)
FreshState == [phase |-> "NotStarted", batch |-> [b \in Batch |-> PlannedBatch]]

(* upsert_batch: the record of one batch is replaced as a whole *)
UpsertBatch(st, b, r) == [st EXCEPT !.batch = [st.batch EXCEPT ![b] = r]]

SetMigrationPhase(st, p) == [st EXCEPT !.phase = p]

BatchesNeedingApproval(st) ==
    {b \in Batch : /\ st.batch[b].passed
                   /\ ~ st.batch[b].approved
                   /\ ~ st.batch[b].deleted}

BatchesApprovedButNotDeleted(st) ==
    {b \in Batch : st.batch[b].approved /\ ~ st.batch[b].deleted}

ApproveBatches(st, bs) ==
    [st EXCEPT !.batch =
        [b \in Batch |->
            IF b \in bs
            THEN [st.batch[b] EXCEPT !.approved = TRUE,
                                     !.phase = "ApprovedForDelete"]
            ELSE st.batch[b]]]

AllDeleted(st) == \A b \in Batch : st.batch[b].deleted

-----------------------------------------------------------------------------
(* Operator review: what stops a command before it touches anything. *)

FailedBatches(st) ==
    {b \in Batch : st.batch[b].phase = "Failed" /\ ~ st.batch[b].deleted}

VerifiedPhase == {"VerifyCompleted", "ApprovedForDelete",
                  "DeleteCompleted", "SnapshotCompleted"}

FailedVerificationBatches(st) ==
    {b \in Batch : /\ ~ st.batch[b].deleted
                   /\ ~ st.batch[b].passed
                   /\ st.batch[b].phase \in VerifiedPhase}

(* Seeded defect: failed batches no longer block. *)
IgnoresFailedBatches(st, allowFailed) == FailedVerificationBatches(st) # {}

OperatorReviewBlocks(st, allowFailed) ==
    \/ ~ allowFailed /\ FailedBatches(st) # {}
    \/ FailedVerificationBatches(st) # {}

-----------------------------------------------------------------------------
ResumeStep == {"CopyBatch", "VerifyBatch", "Continue", "Review"}

(***************************************************************************)
(* plan_resume_step_with_recovery.  "Continue" stands for the plans after  *)
(* which execute_resume_step does nothing to the batch, "Review" for the   *)
(* two that end the command with an error.  A deleted batch never gets     *)
(* here (process_resume_batch returns first).                              *)
(***************************************************************************)
PlanResumeStep(r, ready, mismatched, recoverFailed) ==
    CASE r.phase = "Failed" ->
            IF ~ recoverFailed THEN "Review"
            ELSE IF ready THEN "VerifyBatch"
            ELSE IF mismatched THEN "Review" ELSE "CopyBatch"
      [] r.phase = "Planned" -> "CopyBatch"
      [] r.phase = "CopyStarted" -> IF ready THEN "VerifyBatch" ELSE "CopyBatch"
      [] r.phase = "CopyCompleted" -> IF ready THEN "VerifyBatch" ELSE "Review"
      [] r.phase \in {"VerifyCompleted", "ApprovedForDelete"} ->
            IF r.passed THEN "Continue" ELSE "Review"
      [] OTHER -> "Continue"
=============================================================================

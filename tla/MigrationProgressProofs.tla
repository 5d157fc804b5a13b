---------------------- MODULE MigrationProgressProofs ----------------------
(***************************************************************************)
(* Every step of a command's own code comes nearer to its end, for every   *)
(* plan of the files.  What is left to TLC of the claim that commands end  *)
(* is that a running command always has a next step.                       *)
(***************************************************************************)
EXTENDS MigrationProgress, MigrationProofs, FiniteSetTheorems

(* What the measure is made of, in a reachable state.                      *)
LEMMA MeasureTyped ==
    ASSUME Inv, IsFiniteSet(File)
    PROVE  /\ NumBatches \in Nat /\ cur \in 1 .. NumBatches + 1
           /\ Cardinality(todo) \in Nat /\ IsFiniteSet(todo)
           /\ \A st : /\ IsFiniteSet(Undeleted(st)) /\ IsFiniteSet(Unapproved(st))
                      /\ Cardinality(Undeleted(st)) \in Nat
                      /\ Cardinality(Unapproved(st)) \in Nat
  <1>1. NumBatches \in Nat /\ cur \in 1 .. NumBatches + 1 /\ todo \subseteq File
    BY NumBatchesAssumption DEF Inv, TypeOK
  <1>2. IsFiniteSet(todo) /\ Cardinality(todo) \in Nat
    BY <1>1, FS_Subset, FS_CardinalityType
  <1>3. IsFiniteSet(Batch)
    BY <1>1, FS_Interval DEF Batch
  <1>4. ASSUME NEW st
        PROVE  /\ IsFiniteSet(Undeleted(st)) /\ IsFiniteSet(Unapproved(st))
               /\ Cardinality(Undeleted(st)) \in Nat
               /\ Cardinality(Unapproved(st)) \in Nat
    <2>1. Undeleted(st) \subseteq Batch /\ Unapproved(st) \subseteq Batch
      BY DEF Undeleted, Unapproved
    <2>2. QED
      BY <1>3, <2>1, FS_Subset, FS_CardinalityType
  <1>5. QED
    BY <1>1, <1>2, <1>4

(* A removed element makes a finite set smaller. *)
LEMMA OneLess ==
    ASSUME NEW S, IsFiniteSet(S), NEW x \in S
    PROVE  Cardinality(S \ {x}) \in Nat /\ Cardinality(S \ {x}) < Cardinality(S)
BY FS_RemoveElement, FS_CardinalityType, FS_Subset

(* Batches that need a deletion or an approval do not come back.           *)
LEMMA FewerDue ==
    ASSUME Inv, IsFiniteSet(File),
           NEW st, NEW new,
           Undeleted(new) \subseteq Undeleted(st), Unapproved(new) \subseteq Unapproved(st),
           Undeleted(new) # Undeleted(st) \/ Unapproved(new) # Unapproved(st)
    PROVE  Cardinality(Undeleted(new)) + Cardinality(Unapproved(new))
             < Cardinality(Undeleted(st)) + Cardinality(Unapproved(st))
  <1>1. /\ IsFiniteSet(Undeleted(st)) /\ IsFiniteSet(Unapproved(st))
        /\ Cardinality(Undeleted(st)) \in Nat /\ Cardinality(Unapproved(st)) \in Nat
        /\ Cardinality(Undeleted(new)) \in Nat /\ Cardinality(Unapproved(new)) \in Nat
    BY MeasureTyped
  <1>2. /\ Cardinality(Undeleted(new)) <= Cardinality(Undeleted(st))
        /\ Cardinality(Undeleted(new)) = Cardinality(Undeleted(st)) =>
              Undeleted(new) = Undeleted(st)
    BY <1>1, FS_Subset
  <1>3. /\ Cardinality(Unapproved(new)) <= Cardinality(Unapproved(st))
        /\ Cardinality(Unapproved(new)) = Cardinality(Unapproved(st)) =>
              Unapproved(new) = Unapproved(st)
    BY <1>1, FS_Subset
  <1>4. QED
    BY <1>1, <1>2, <1>3

(* The numbers of each part. *)
LEMMA StageNumbers ==
    ASSUME NEW c
    PROVE  /\ StageOf("Plan", c) = 11 /\ StageOf("StartCopy", c) = 10
           /\ StageOf("Copy", c) = 9 /\ StageOf("CopyFiles", c) = 9
           /\ StageOf("MarkLedger", c) = 9 /\ StageOf("MarkConflict", c) = 9
           /\ StageOf("StartVerify", c) = 8
           /\ c = "resume" => StageOf("Verify", c) = 9
           /\ c # "resume" => StageOf("Verify", c) = 7
           /\ StageOf("DropLedger", c) = 6 /\ StageOf("Awaiting", c) = 5
           /\ StageOf("Delete", c) = 4 /\ StageOf("DeleteFiles", c) = 4
           /\ StageOf("Snapshot", c) = 3 /\ StageOf("Error", c) = 2
           /\ StageOf("Report", c) = 1 /\ StageOf("ReportFailed", c) = 1
           /\ StageOf("Idle", c) = 0
  <1>1. /\ StageOf("Plan", c) = 11 /\ StageOf("StartCopy", c) = 10
        /\ StageOf("Copy", c) = 9 /\ StageOf("CopyFiles", c) = 9
        /\ StageOf("MarkLedger", c) = 9 /\ StageOf("MarkConflict", c) = 9
    BY DEF StageOf
  <1>2. /\ StageOf("StartVerify", c) = 8
        /\ c = "resume" => StageOf("Verify", c) = 9
        /\ c # "resume" => StageOf("Verify", c) = 7
        /\ StageOf("DropLedger", c) = 6 /\ StageOf("Awaiting", c) = 5
    BY DEF StageOf
  <1>3. /\ StageOf("Delete", c) = 4 /\ StageOf("DeleteFiles", c) = 4
        /\ StageOf("Snapshot", c) = 3 /\ StageOf("Error", c) = 2
        /\ StageOf("Report", c) = 1 /\ StageOf("ReportFailed", c) = 1
        /\ StageOf("Idle", c) = 0
    BY DEF StageOf
  <1>4. QED
    BY <1>1, <1>2, <1>3

LEMMA StepNumbers ==
    /\ StepsOf("Copy") = 3 /\ StepsOf("CopyFiles") = 2
    /\ StepsOf("MarkLedger") = 1 /\ StepsOf("MarkConflict") = 1
    /\ StepsOf("Delete") = 1 /\ StepsOf("DeleteFiles") = 0
    /\ StepsOf("Verify") = 0
  BY DEF StepsOf

(* A resume has no verification phase of its own. *)
PhaseOfTransfer == pc = "StartVerify" => ~ IsResume

LEMMA OnlyTransfersVerifyLater == PhaseOfTransfer /\ [Next]_vars => PhaseOfTransfer'
  <1> SUFFICES ASSUME PhaseOfTransfer, [Next]_vars, pc' = "StartVerify"
               PROVE  ~ IsResume'
    BY DEF PhaseOfTransfer
  <1>1. CASE EndCopyPhase
    BY <1>1 DEF EndCopyPhase, IsTransfer, IsResume
  <1>2. CASE CopyStep
    BY <1>2 DEF CopyStep, SkipCopiedBatch, ResumeNeedsReview, ResumeVerifiesBatch, Copying,
         BeginCopy, BeginSubsetCopy, BeginCopying, SkipConflictingBatch, MarkFailedForConflicts,
         AfterConflict, CopyNextFile, CopyFile, FinishCopy, MarkLedger, MarkConflict
  <1>3. CASE VerifyStep
    BY <1>1, <1>3 DEF VerifyStep, StartVerifyPhase, SkipVerification, VerifyBatch,
         Verifying, DropLedger, AwaitDeletion, BatchesDone, EnterDeletePhase
  <1>4. CASE DeleteStep
    BY <1>4 DEF DeleteStep, BeginDelete, RemoveNextFile, RemoveFile, FinishDelete, Approve,
         AtPrompt, Decline, RefuseUnattended, DeletionDone
  <1>5. CASE EndStep
    BY <1>5 DEF EndStep, TakeSnapshot, PassOverSnapshot, Snapshotting, RecordFinalPhase,
         RecordFinalStatus, EndSession, FailTransfer, FailResume, ReportFailed
  <1>6. CASE StartTransfer \/ RefuseTransfer \/ PlanTransfer \/ StartCopyPhase
    BY <1>6 DEF StartTransfer, RefuseTransfer, PlanTransfer, StartCopyPhase
  <1>7. CASE Fault
    BY <1>7 DEF Fault, CopyCorruptsFile, CopyFile, RemoveFails, Abort, Crash, EndSession
  <1>8. CASE Between \/ UNCHANGED vars
    BY <1>8 DEF Between, StartResume, OperatorClears, LoseCopy, process, vars, PhaseOfTransfer,
         IsResume
  <1>9. QED
    BY <1>2, <1>3, <1>4, <1>5, <1>6, <1>7, <1>8 DEF Next, SessionStep

(* The steps before the first loop, and between two loops.                 *)
LEMMA StagesDescend ==
    ASSUME PhaseOfTransfer,
           \/ RefuseTransfer \/ PlanTransfer \/ StartCopyPhase \/ EndCopyPhase
           \/ StartVerifyPhase \/ DropLedger \/ AwaitDeletion \/ EnterDeletePhase
           \/ Decline \/ RefuseUnattended \/ DeletionDone \/ RecordFinalPhase
           \/ RecordFinalStatus \/ FailTransfer \/ FailResume \/ ReportFailed
           \/ ResumeNeedsReview
    PROVE  Stage' < Stage
  <1> USE StageNumbers DEF Stage
  <1>1. CASE RefuseTransfer \/ PlanTransfer \/ StartCopyPhase \/ EndCopyPhase
    BY <1>1 DEF RefuseTransfer, PlanTransfer, StartCopyPhase, EndCopyPhase
  <1>2. CASE StartVerifyPhase
    <2>1. pc = "StartVerify" /\ pc' = "Verify" /\ session'.cmd # "resume"
      BY <1>2 DEF StartVerifyPhase, PhaseOfTransfer, IsResume
    <2>2. QED
      BY <2>1
  <1>3. CASE DropLedger
    BY <1>3 DEF DropLedger
  <1>4. CASE AwaitDeletion
    <2>1. \/ pc = "Copy"
          \/ pc = "Verify" /\ session.cmd # "resume"
      BY <1>4 DEF AwaitDeletion, BatchesDone, IsTransfer, IsResume
    <2>2. pc' = "Awaiting" \/ pc' = "Error"
      BY <1>4 DEF AwaitDeletion
    <2>3. QED
      BY <2>1, <2>2
  <1>5. CASE EnterDeletePhase
    <2>1. pc = "Awaiting" /\ (pc' = "Error" \/ pc' = "Delete")
      BY <1>5 DEF EnterDeletePhase
    <2>2. QED
      BY <2>1
  <1>6. CASE Decline \/ RefuseUnattended \/ DeletionDone
    <2>1. pc = "Delete" /\ (pc' = "Error" \/ pc' = "Snapshot")
      BY <1>6 DEF Decline, RefuseUnattended, DeletionDone, AtPrompt
    <2>2. QED
      BY <2>1
  <1>7. CASE RecordFinalPhase \/ RecordFinalStatus \/ FailTransfer \/ FailResume \/ ReportFailed
    BY <1>7 DEF RecordFinalPhase, RecordFinalStatus, FailTransfer, FailResume, ReportFailed,
                EndSession
  <1>8. CASE ResumeNeedsReview
    BY <1>8 DEF ResumeNeedsReview, Copying
  <1>9. QED
    BY <1>1, <1>2, <1>3, <1>4, <1>5, <1>6, <1>7, <1>8

(* The loops over the batches count up to the last one. *)
LEMMA NextRound ==
    ASSUME Inv, IsFiniteSet(File), cur \in Batch, cur' = cur + 1, Stage' = Stage,
           pc \notin {"Delete", "DeleteFiles"}, pc' \notin {"Delete", "DeleteFiles"}
    PROVE  Descends
  <1>1. NumBatches \in Nat /\ cur \in Nat
    BY MeasureTyped DEF Batch
  <1>2. Rounds = NumBatches + 1 - cur /\ Rounds' = NumBatches + 1 - (cur + 1)
    BY DEF Rounds
  <1>3. Rounds' < Rounds
    BY <1>1, <1>2
  <1>4. QED
    BY <1>3 DEF Descends

(* The steps within one round of such a loop. *)
LEMMA NextStepOfRound ==
    ASSUME cur' = cur, Stage' = Stage, StepsLeft' < StepsLeft,
           pc \notin {"Delete", "DeleteFiles"}, pc' \notin {"Delete", "DeleteFiles"}
    PROVE  Descends
  <1>1. Rounds' = Rounds
    BY DEF Rounds
  <1>2. QED
    BY <1>1 DEF Descends

(* The copy loop of a transfer, and the loop of a resume over its batches. *)
LEMMA CopyStepsDescend ==
    ASSUME Inv, PhaseOfTransfer, IsFiniteSet(File), CopyStep
    PROVE  Descends
  <1> USE StageNumbers, StepNumbers
  <1>1. CASE SkipCopiedBatch
    <2>1. /\ pc = "Copy" /\ pc' = "Copy" /\ session' = session
          /\ cur \in Batch /\ cur' = cur + 1
      BY <1>1 DEF SkipCopiedBatch, Copying
    <2>2. QED
      BY <2>1, NextRound DEF Stage
  <1>2. CASE ResumeNeedsReview
    BY <1>2, StagesDescend DEF Descends
  <1>3. CASE ResumeVerifiesBatch
    <2>1. /\ pc = "Copy" /\ pc' = "Verify" /\ session' = session /\ cur' = cur
          /\ session.cmd = "resume"
      BY <1>3 DEF ResumeVerifiesBatch, Copying, IsResume
    <2>2. Stage' = Stage /\ StepsLeft = 3 /\ StepsLeft' = 0
      BY <2>1 DEF Stage, StepsLeft
    <2>3. QED
      BY <2>1, <2>2, NextStepOfRound
  <1>4. CASE BeginCopy \/ BeginSubsetCopy
    <2>1. pc = "Copy" /\ pc' = "CopyFiles" /\ session' = session /\ cur' = cur
      BY <1>4 DEF BeginCopy, BeginSubsetCopy, BeginCopying, Copying
    <2>2. Stage' = Stage /\ StepsLeft = 3 /\ StepsLeft' = 2
      BY <2>1 DEF Stage, StepsLeft
    <2>3. QED
      BY <2>1, <2>2, NextStepOfRound
  <1>5. CASE CopyNextFile
    <2>1. PICK f \in todo : CopyFile(f, "Equal")
      BY <1>5 DEF CopyNextFile
    <2>2. pc = "CopyFiles" /\ pc' = pc /\ session' = session /\ cur' = cur /\ todo' = todo \ {f}
      BY <2>1 DEF CopyFile
    <2>3. FilesLeft' < FilesLeft
      BY <2>2, OneLess, MeasureTyped DEF FilesLeft
    <2>4. Stage' = Stage /\ StepsLeft' = StepsLeft /\ Rounds' = Rounds
      BY <2>2 DEF Stage, StepsLeft, Rounds
    <2>5. QED
      BY <2>3, <2>4 DEF Descends
  <1>6. CASE FinishCopy
    <2>1. /\ pc = "CopyFiles" /\ pc' \in {"MarkLedger", "MarkConflict"}
          /\ session' = session /\ cur' = cur
      BY <1>6 DEF FinishCopy
    <2>2. Stage' = Stage /\ StepsLeft = 2 /\ StepsLeft' = 1
      BY <2>1 DEF Stage, StepsLeft
    <2>3. QED
      BY <2>1, <2>2, NextStepOfRound
  <1>7. CASE MarkLedger
    <2>1. /\ pc = "MarkLedger" /\ session' = session /\ cur \in Batch
          /\ IsTransfer \/ IsResume
      BY <1>7 DEF MarkLedger, Inv, Checkpointed, LoopSound, BatchWork
    <2>2. CASE IsTransfer
      <3>1. pc' = "Copy" /\ cur' = cur + 1
        BY <1>7, <2>2 DEF MarkLedger
      <3>2. QED
        BY <2>1, <3>1, NextRound DEF Stage
    <2>3. CASE ~ IsTransfer
      <3>1. pc' = "Verify" /\ cur' = cur /\ session.cmd = "resume"
        BY <1>7, <2>1, <2>3 DEF MarkLedger, IsResume
      <3>2. Stage' = Stage /\ StepsLeft = 1 /\ StepsLeft' = 0
        BY <2>1, <3>1 DEF Stage, StepsLeft
      <3>3. QED
        BY <2>1, <3>1, <3>2, NextStepOfRound
    <2>4. QED
      BY <2>2, <2>3
  <1>8. CASE SkipConflictingBatch \/ MarkConflict
    <2>1. pc \in {"Copy", "MarkConflict"} /\ session' = session /\ cur \in Batch /\ AfterConflict
      BY <1>8 DEF SkipConflictingBatch, MarkConflict, MarkFailedForConflicts, Copying, Inv,
                  LoopSound, BatchWork
    <2>2. CASE IsTransfer
      <3>1. pc' = "Copy" /\ cur' = cur + 1
        BY <2>1, <2>2 DEF AfterConflict
      <3>2. QED
        BY <2>1, <3>1, NextRound DEF Stage
    <2>3. CASE ~ IsTransfer
      <3>1. pc' = "Error"
        BY <2>1, <2>3 DEF AfterConflict
      <3>2. Stage = 9 /\ Stage' = 2
        BY <2>1, <3>1 DEF Stage
      <3>3. QED
        BY <3>2 DEF Descends
    <2>4. QED
      BY <2>2, <2>3
  <1>9. QED
    BY <1>1, <1>2, <1>3, <1>4, <1>5, <1>6, <1>7, <1>8 DEF CopyStep

(* The verification loop. *)
LEMMA VerifyStepsDescend ==
    ASSUME Inv, PhaseOfTransfer, IsFiniteSet(File), VerifyStep
    PROVE  Descends
  <1> USE StageNumbers, StepNumbers
  <1>1. CASE SkipVerification
    <2>1. /\ pc = "Verify" /\ pc' = pc /\ session' = session
          /\ cur \in Batch /\ cur' = cur + 1
      BY <1>1 DEF SkipVerification, Verifying
    <2>2. QED
      BY <2>1, NextRound DEF Stage
  <1>2. CASE VerifyBatch
    <2>1. /\ pc = "Verify" /\ session' = session /\ cur \in Batch
          /\ IsTransfer \/ IsResume
      BY <1>2 DEF VerifyBatch, Verifying, Inv, Checkpointed
    <2>2. CASE VerifyPasses(cur)
      <3>1. /\ cur' = cur + 1 /\ pc' \in {"Verify", "Copy"}
            /\ pc' = "Copy" => session.cmd = "resume"
        BY <1>2, <2>1, <2>2 DEF VerifyBatch, IsResume
      <3>2. Stage' = Stage
        BY <2>1, <3>1 DEF Stage
      <3>3. QED
        BY <2>1, <3>1, <3>2, NextRound
    <2>3. CASE ~ VerifyPasses(cur)
      <3>1. pc' = "DropLedger"
        BY <1>2, <2>3 DEF VerifyBatch
      <3>2. Stage' = 6 /\ Stage \in {7, 9}
        BY <2>1, <3>1 DEF Stage
      <3>3. QED
        BY <3>2 DEF Descends
    <2>4. QED
      BY <2>2, <2>3
  <1>3. CASE \/ EndCopyPhase \/ StartVerifyPhase \/ DropLedger
             \/ AwaitDeletion \/ EnterDeletePhase
    BY <1>3, StagesDescend DEF Descends
  <1>4. QED
    BY <1>1, <1>2, <1>3 DEF VerifyStep

(* The batch whose files are being removed is not recorded as deleted. *)
DeletesUndeleted == pc = "DeleteFiles" => ~ mem.batch[cur].deleted

(* The deletion loop: every round approves or deletes. *)
LEMMA DeleteStepsDescend ==
    ASSUME Inv, PhaseOfTransfer, DeletesUndeleted, IsFiniteSet(File), DeleteStep
    PROVE  Descends
  <1> USE StageNumbers, StepNumbers
  <1>1. CASE BeginDelete
    <2>1. pc = "Delete" /\ pc' = "DeleteFiles" /\ session' = session /\ mem' = mem
      BY <1>1 DEF BeginDelete
    <2>2. Stage' = Stage /\ StepsLeft = 1 /\ StepsLeft' = 0
      BY <2>1 DEF Stage, StepsLeft
    <2>3. Rounds' = Rounds
      BY <2>1 DEF Rounds, Undeleted, Unapproved
    <2>4. QED
      BY <2>2, <2>3 DEF Descends
  <1>2. CASE RemoveNextFile
    <2>1. PICK f \in todo : RemoveFile(f)
      BY <1>2 DEF RemoveNextFile
    <2>2. pc = "DeleteFiles" /\ pc' = pc /\ session' = session /\ mem' = mem /\ todo' = todo \ {f}
      BY <2>1 DEF RemoveFile
    <2>3. FilesLeft' < FilesLeft
      BY <2>2, OneLess, MeasureTyped DEF FilesLeft
    <2>4. Stage' = Stage /\ StepsLeft' = StepsLeft
      BY <2>2 DEF Stage, StepsLeft
    <2>5. Rounds' = Rounds
      BY <2>2 DEF Rounds, Undeleted, Unapproved
    <2>6. QED
      BY <2>3, <2>4, <2>5 DEF Descends
  <1>3. CASE FinishDelete
    <2> DEFINE r == [mem.batch[cur] EXCEPT !.phase = "DeleteCompleted", !.deleted = TRUE]
    <2>1. /\ pc = "DeleteFiles" /\ pc' = "Delete" /\ session' = session
          /\ mem' = UpsertBatch(mem, cur, r)
          /\ cur \in Batch /\ mem \in StateRecord
          /\ ~ mem.batch[cur].deleted
      BY <1>3 DEF FinishDelete, Persist, Inv, Checkpointed, AtWork, LoopSound, BatchWork, TypeOK,
                  DeletesUndeleted
    <2>2. mem.batch[cur] \in BatchRecord
      BY <2>1 DEF StateRecord
    <2>3. r \in BatchRecord /\ r.deleted /\ r.approved = mem.batch[cur].approved
      BY <2>2 DEF BatchRecord, BatchPhase
    <2> HIDE DEF r
    <2>4. /\ mem'.batch[cur] = r
          /\ \A c \in Batch : c # cur => mem'.batch[c] = mem.batch[c]
      BY <2>1, <2>3, UpsertFacts
    <2>5. /\ Undeleted(mem') \subseteq Undeleted(mem) /\ Unapproved(mem') \subseteq Unapproved(mem)
          /\ cur \in Undeleted(mem) /\ cur \notin Undeleted(mem')
      BY <2>1, <2>3, <2>4 DEF Undeleted, Unapproved
    <2>6. Cardinality(Undeleted(mem')) + Cardinality(Unapproved(mem'))
             < Cardinality(Undeleted(mem)) + Cardinality(Unapproved(mem))
      BY <2>5, FewerDue
    <2>7. Rounds' < Rounds
      BY <2>1, <2>6 DEF Rounds, Undeleted, Unapproved
    <2>8. Stage' = Stage
      BY <2>1 DEF Stage
    <2>9. QED
      BY <2>7, <2>8 DEF Descends
  <1>4. CASE Approve
    <2> DEFINE bs == BatchesNeedingApproval(mem)
    <2>1. /\ pc = "Delete" /\ pc' = pc /\ session' = session
          /\ mem' = ApproveBatches(mem, bs) /\ bs # {}
          /\ mem \in StateRecord
      BY <1>4 DEF Approve, AtPrompt, Persist, Inv, Checkpointed, AtWork, TypeOK
    <2>2. bs \subseteq Batch /\ \A b \in bs : ~ mem.batch[b].approved
      BY DEF BatchesNeedingApproval
    <2> HIDE DEF bs
    <2>3. \A b \in Batch : /\ mem'.batch[b].deleted = mem.batch[b].deleted
                           /\ b \in bs => mem'.batch[b].approved
                           /\ b \notin bs => mem'.batch[b] = mem.batch[b]
      BY <2>1, <2>2, ApproveFacts
    <2>4. PICK b \in bs : TRUE
      BY <2>1
    <2>5. /\ Undeleted(mem') \subseteq Undeleted(mem) /\ Unapproved(mem') \subseteq Unapproved(mem)
          /\ b \in Unapproved(mem) /\ b \notin Unapproved(mem')
      BY <2>2, <2>3, <2>4 DEF Undeleted, Unapproved
    <2>6. Cardinality(Undeleted(mem')) + Cardinality(Unapproved(mem'))
             < Cardinality(Undeleted(mem)) + Cardinality(Unapproved(mem))
      BY <2>5, FewerDue
    <2>7. Rounds' < Rounds
      BY <2>1, <2>6 DEF Rounds, Undeleted, Unapproved
    <2>8. Stage' = Stage
      BY <2>1 DEF Stage
    <2>9. QED
      BY <2>7, <2>8 DEF Descends
  <1>5. CASE Decline \/ RefuseUnattended \/ DeletionDone
    BY <1>5, StagesDescend DEF Descends
  <1>6. QED
    BY <1>1, <1>2, <1>3, <1>4, <1>5 DEF DeleteStep

(* The snapshot loop, and the last steps of a command. *)
LEMMA EndStepsDescend ==
    ASSUME Inv, PhaseOfTransfer, IsFiniteSet(File), EndStep
    PROVE  Descends
  <1>1. CASE TakeSnapshot \/ PassOverSnapshot
    <2>1. /\ pc = "Snapshot" /\ pc' = pc /\ session' = session
          /\ cur \in Batch /\ cur' = cur + 1
      BY <1>1 DEF TakeSnapshot, PassOverSnapshot, Snapshotting
    <2>2. QED
      BY <2>1, NextRound DEF Stage
  <1>2. CASE \/ RecordFinalPhase \/ RecordFinalStatus
             \/ FailTransfer \/ FailResume \/ ReportFailed
    BY <1>2, StagesDescend DEF Descends
  <1>3. QED
    BY <1>1, <1>2 DEF EndStep

(* Only a round of the deletion loop that found the batch approved and not *)
(* deleted gets to its files.                                              *)
LEMMA OnlyUndeletedGo == Inv /\ DeletesUndeleted /\ [Next]_vars => DeletesUndeleted'
  <1> SUFFICES ASSUME Inv, DeletesUndeleted, [Next]_vars, pc' = "DeleteFiles"
               PROVE  ~ mem'.batch[cur'].deleted
    BY DEF DeletesUndeleted
  <1>1. CASE CopyStep
    BY <1>1 DEF CopyStep, SkipCopiedBatch, ResumeNeedsReview, ResumeVerifiesBatch, Copying,
         BeginCopy, BeginSubsetCopy, BeginCopying, SkipConflictingBatch, MarkFailedForConflicts,
         AfterConflict, CopyNextFile, CopyFile, FinishCopy, MarkLedger, MarkConflict
  <1>2. CASE VerifyStep
    BY <1>2 DEF VerifyStep, StartVerifyPhase, SkipVerification, VerifyBatch, EndCopyPhase,
         Verifying, DropLedger, AwaitDeletion, BatchesDone, EnterDeletePhase
  <1>3. CASE DeleteStep
    <2>1. CASE BeginDelete
      BY <2>1 DEF BeginDelete, BatchesApprovedButNotDeleted
    <2>2. CASE RemoveNextFile
      BY <2>2 DEF RemoveNextFile, RemoveFile, DeletesUndeleted
    <2>3. CASE FinishDelete \/ Approve \/ Decline \/ RefuseUnattended \/ DeletionDone
      BY <2>3 DEF FinishDelete, Approve, AtPrompt, Decline, RefuseUnattended, DeletionDone
    <2>4. QED
      BY <1>3, <2>1, <2>2, <2>3 DEF DeleteStep
  <1>4. CASE EndStep
    BY <1>4 DEF EndStep, TakeSnapshot, PassOverSnapshot, Snapshotting, RecordFinalPhase,
         RecordFinalStatus, EndSession, FailTransfer, FailResume, ReportFailed
  <1>5. CASE StartTransfer \/ RefuseTransfer \/ PlanTransfer \/ StartCopyPhase
    BY <1>5 DEF StartTransfer, RefuseTransfer, PlanTransfer, StartCopyPhase
  <1>6. CASE Fault
    BY <1>6 DEF Fault, CopyCorruptsFile, CopyFile, RemoveFails, Abort, Crash, EndSession
  <1>7. CASE Between \/ UNCHANGED vars
    BY <1>7 DEF Between, StartResume, OperatorClears, LoseCopy, process, vars, DeletesUndeleted
  <1>8. QED
    BY <1>1, <1>2, <1>3, <1>4, <1>5, <1>6, <1>7 DEF Next, SessionStep

(* Whatever plan, state file and destination a command meets, each of its  *)
(* own steps comes nearer to its end: the loops over batches, files,       *)
(* approvals and snapshots cannot go round for ever.                       *)
THEOREM CommandsDescend == ASSUME IsFiniteSet(File) PROVE Spec => LoopsDescend
  <1>1. Init => PhaseOfTransfer /\ DeletesUndeleted
    BY DEF Init, PhaseOfTransfer, DeletesUndeleted
  <1>2. ASSUME Inv, PhaseOfTransfer, DeletesUndeleted, SessionStep PROVE Descends
    BY <1>2, StagesDescend, CopyStepsDescend, VerifyStepsDescend, DeleteStepsDescend,
       EndStepsDescend DEF SessionStep, Descends
  <1>3. Inv /\ PhaseOfTransfer /\ DeletesUndeleted /\ [Next]_vars => [SessionStep => Descends]_vars
    BY <1>2
  <1>4. QED
    BY <1>1, <1>3, OnlyTransfersVerifyLater, OnlyUndeletedGo, InvariantHolds, PTL
       DEF Spec, LoopsDescend

(* The four numbers never fall below zero, so a descent has an end.        *)
THEOREM MeasureHasFloor == ASSUME IsFiniteSet(File) PROVE Spec => []MeasureIsNatural
  <1>1. ASSUME Inv PROVE MeasureIsNatural
    <2>1. Stage \in Nat
      BY <1>1 DEF Inv, TypeOK, Control, Stage, StageOf
    <2>2. StepsLeft \in Nat
      BY DEF StepsLeft, StepsOf
    <2>3. FilesLeft \in Nat
      BY <1>1, MeasureTyped DEF FilesLeft
    <2>4. /\ NumBatches \in Nat /\ cur \in 1 .. NumBatches + 1
          /\ Cardinality(Undeleted(mem)) \in Nat /\ Cardinality(Unapproved(mem)) \in Nat
      BY <1>1, MeasureTyped
    <2>5. Rounds \in Nat
      BY <2>4 DEF Rounds
    <2>6. QED
      BY <2>1, <2>2, <2>3, <2>5 DEF MeasureIsNatural
  <1>2. QED
    BY <1>1, InvariantHolds, PTL
=============================================================================

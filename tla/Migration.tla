----------------------------- MODULE Migration -----------------------------
(***************************************************************************)
(* One migration of caravan, from the first `caravan transfer` to the last *)
(* source file removed: the sessions an operator runs on it (transfer and  *)
(* resume), the files at the source and at the destination, the persisted  *)
(* migration state, the completed-file ledger and the registry entry.      *)
(*                                                                         *)
(* At most one session runs at a time.  It advances by the steps of the    *)
(* code that change something durable; an update of the in-memory state    *)
(* that is persisted before anything else happens is one step, since a     *)
(* crash between the two equals a crash before them.  A session can crash  *)
(* between any two steps, which loses `mem` and keeps the rest, and can    *)
(* fail at any step (an I/O error, no space, Ctrl-C), which takes it to    *)
(* the error exit of the command.                                          *)
(***************************************************************************)
EXTENDS BatchRecords

CONSTANTS
    Sessions,            \* the commands the operator may give
    SnapshotEvery,       \* snapshot cadence in deleted batches; 0 = none
    InitialDestination,  \* destination contents the migration may start from
    CaravanNamed,        \* files with a path component named ".caravan"
    Unlisted,            \* files whose destination a listing may miss
    Drift                \* whether destination copies may be lost while idle

ConflictPolicy == {"SkipBatch", "SkipFile"}

Session == [cmd         : {"none", "transfer", "resume"},
            recover     : BOOLEAN,          \* --recover-failed
            policy      : ConflictPolicy,   \* --conflict-policy
            interactive : BOOLEAN]

NoSession == [cmd |-> "none", recover |-> FALSE,
              policy |-> "SkipFile", interactive |-> FALSE]

(* What stands at a file's destination path.  "Equal" has the source's     *)
(* content; "Corrupt" was written by a copy, has the right size and the    *)
(* wrong content; the last two were there before, with the source's size   *)
(* and other content, or with another size.                                *)
DestFile == {"Absent", "Equal", "Corrupt", "SameSize", "OtherSize"}
Foreign == {"SameSize", "OtherSize"}

RegistryStatus == {"None", "Running", "Verifying", "AwaitingDeletion",
                   "Completed", "Failed"}

Control == {"Idle", "Plan", "StartCopy", "Copy", "CopyFiles", "MarkLedger",
            "MarkConflict", "StartVerify", "Verify", "DropLedger", "Awaiting",
            "Delete", "DeleteFiles", "Snapshot", "Report", "Error",
            "ReportFailed"}

ASSUME SessionsAssumption ==
    Sessions \subseteq {s \in Session : s.cmd # "none"}
ASSUME SnapshotAssumption == SnapshotEvery \in Nat
ASSUME InitialDestinationAssumption ==
    InitialDestination \subseteq [File -> {"Absent"} \cup Foreign]
ASSUME CaravanNamedAssumption == CaravanNamed \subseteq File
ASSUME UnlistedAssumption == Unlisted \subseteq File
ASSUME DriftAssumption == Drift \in BOOLEAN

VARIABLES
    src,      \* files still at the source
    dst,      \* what each destination path holds
    disk,     \* the persisted migration state
    ledger,   \* files the source's completed-file ledger lists
    reg,      \* effective status of the newest registry entry
    pc,       \* where the running session is; "Idle" when none runs
    session,  \* its command and options
    mem,      \* its in-memory migration state
    cur,      \* the batch its loop is at
    todo,     \* files of that batch still to copy or remove
    whole     \* whether the copy under way is of the whole batch

files   == <<src, dst>>
durable == <<src, dst, disk, ledger, reg>>
process == <<pc, session, mem, cur, todo, whole>>
vars    == <<src, dst, disk, ledger, reg, pc, session, mem, cur, todo, whole>>

TypeOK ==
    /\ src \subseteq File
    /\ dst \in [File -> DestFile]
    /\ disk \in StateRecord \cup {NoState}
    /\ ledger \subseteq File
    /\ reg \in RegistryStatus
    /\ pc \in Control
    /\ session \in Session
    /\ mem \in StateRecord \cup {NoState}
    /\ cur \in 1 .. NumBatches + 1
    /\ todo \subseteq File
    /\ whole \in BOOLEAN

Init ==
    /\ src = File
    /\ dst \in InitialDestination
    /\ disk = NoState
    /\ ledger = {}
    /\ reg = "None"
    /\ pc = "Idle"
    /\ session = NoSession
    /\ mem = NoState
    /\ cur = 1
    /\ todo = {}
    /\ whole = FALSE

-----------------------------------------------------------------------------
(* Shared pieces of the steps. *)

(* persist_state: the new state is in memory and, atomically, in the file *)
Persist(st) == mem' = st /\ disk' = st

(* The registry entry a session updates: the newest one, unless it is      *)
(* already terminal (find_active_migration_id_for_state).                  *)
HasActiveEntry == reg \notin {"None", "Completed", "Failed"}
SetStatus(s) == reg' = IF HasActiveEntry THEN s ELSE reg

EndSession ==
    /\ pc' = "Idle"
    /\ session' = NoSession
    /\ mem' = NoState
    /\ cur' = 1
    /\ todo' = {}
    /\ whole' = FALSE

(* ensure_manifest_matches_snapshot: a fresh plan of the source equals the *)
(* persisted manifest exactly when no planned file is gone                 *)
ManifestMatches == src = File

(* reconcile_batch_destination looks at existence and size only *)
Ready(b) == \A f \in FilesOf(b) : dst[f] \notin {"Absent", "OtherSize"}
Mismatched(b) == \E f \in FilesOf(b) : dst[f] = "OtherSize"

(* detect_batch_conflicts: any file of that name is a conflict, if the     *)
(* listing of its directory shows it.  A directory that cannot be read and *)
(* an entry that cannot be examined are passed over without an error, and  *)
(* the next check may see them.                                            *)
Occupied(b) == {f \in FilesOf(b) : dst[f] # "Absent"}
Conflicts(b) == {found \in SUBSET Occupied(b) : Occupied(b) \ Unlisted \subseteq found}

(* should_skip_caravan: these are counted as verified without a look *)
Checked == File \ CaravanNamed

(* Seeded defect: verification looks at sizes only. *)
SizesMatch(b) ==
    \A f \in FilesOf(b) \cap Checked : f \in src /\ dst[f] \notin {"Absent", "OtherSize"}

(* verify_batch compares size and digest against the source file *)
VerifyPasses(b) ==
    \A f \in FilesOf(b) \cap Checked : f \in src /\ dst[f] = "Equal"

IsTransfer == session.cmd = "transfer"
IsResume == session.cmd = "resume"

(* resume runs with interactive prompts and the skip-file policy *)
Interactive == IsResume \/ session.interactive
EffectivePolicy == IF IsResume THEN "SkipFile" ELSE session.policy

SetPhase(b, p) == UpsertBatch(mem, b, [mem.batch[b] EXCEPT !.phase = p])

-----------------------------------------------------------------------------
(* Starting a command. *)

(* transfer: register or reuse the entry, mark it running, load the state *)
StartTransfer ==
    /\ pc = "Idle"
    /\ \E s \in Sessions : s.cmd = "transfer" /\ session' = s
    /\ reg' = "Running"
    /\ mem' = disk
    /\ pc' = "Plan"
    /\ UNCHANGED <<files, disk, ledger, cur, todo, whole>>

(* operator review or source drift ends the transfer before it acts *)
RefuseTransfer ==
    /\ pc = "Plan"
    /\ mem # NoState
    /\ OperatorReviewBlocks(mem, session.recover) \/ ~ ManifestMatches
    /\ pc' = "Error"
    /\ UNCHANGED <<durable, session, mem, cur, todo, whole>>

(* Seeded defect: every transfer starts from a fresh state. *)
ForgetsState ==
    /\ pc = "Plan"
    /\ mem # NoState => /\ ~ OperatorReviewBlocks(mem, session.recover)
                        /\ ManifestMatches
    /\ Persist(FreshState)
    /\ pc' = "StartCopy"
    /\ UNCHANGED <<files, ledger, reg, session, cur, todo, whole>>

(* the plan is checked or seeded, and the seeded state persisted *)
PlanTransfer ==
    /\ pc = "Plan"
    /\ mem # NoState => /\ ~ OperatorReviewBlocks(mem, session.recover)
                        /\ ManifestMatches
    /\ Persist(IF mem = NoState THEN FreshState ELSE mem)
    /\ pc' = "StartCopy"
    /\ UNCHANGED <<files, ledger, reg, session, cur, todo, whole>>

StartCopyPhase ==
    /\ pc = "StartCopy"
    /\ Persist(SetMigrationPhase(mem, "Copying"))
    /\ cur' = 1
    /\ pc' = "Copy"
    /\ UNCHANGED <<files, ledger, reg, session, todo, whole>>

(* resume: the manifest is checked before anything is written, then the    *)
(* entry is marked running and failed verifications stop the command       *)
StartResume ==
    /\ pc = "Idle"
    /\ disk # NoState
    /\ ManifestMatches
    /\ \E s \in Sessions : s.cmd = "resume" /\ session' = s
    /\ SetStatus("Running")
    /\ mem' = disk
    /\ cur' = 1
    /\ pc' = IF OperatorReviewBlocks(disk, TRUE) THEN "Error" ELSE "Copy"
    /\ UNCHANGED <<files, disk, ledger, todo, whole>>

-----------------------------------------------------------------------------
(* Copying: transfer's copy phase, and the batch loop of resume. *)

AlreadyCopied(b) ==
    \/ mem.batch[b].deleted
    \/ /\ mem.batch[b].phase \in VerifiedPhase \cup {"CopyCompleted"}
       /\ Ready(b)

NextStep(b) ==
    IF mem.batch[b].deleted THEN "Continue"
    ELSE PlanResumeStep(mem.batch[b], Ready(b), Mismatched(b), session.recover)

NeedsCopy(b) == IF IsTransfer THEN ~ AlreadyCopied(b)
                              ELSE NextStep(b) = "CopyBatch"

(* Seeded defects: resume trusts a begun copy as transfer does; conflicts  *)
(* are looked for in planned batches only; they are always looked for.     *)
TrustsBegunCopy(b) == mem.batch[b].phase # "CopyStarted"
ChecksPlannedOnly(b) == mem.batch[b].phase = "Planned"
ChecksAlways(b) == mem.batch[b].phase \in BatchPhase

(* transfer does not look for conflicts in a batch whose copy had begun *)
ChecksConflicts(b) == IsResume \/ mem.batch[b].phase # "CopyStarted"

Copying == pc = "Copy" /\ cur \in Batch

SkipCopiedBatch ==
    /\ Copying
    /\ IF IsTransfer THEN AlreadyCopied(cur) ELSE NextStep(cur) = "Continue"
    /\ cur' = cur + 1
    /\ UNCHANGED <<durable, pc, session, mem, todo, whole>>

ResumeNeedsReview ==
    /\ Copying
    /\ IsResume
    /\ NextStep(cur) = "Review"
    /\ pc' = "Error"
    /\ UNCHANGED <<durable, session, mem, cur, todo, whole>>

ResumeVerifiesBatch ==
    /\ Copying
    /\ IsResume
    /\ NextStep(cur) = "VerifyBatch"
    /\ pc' = "Verify"
    /\ UNCHANGED <<durable, session, mem, cur, todo, whole>>

(* copy_batch_with_state_updates, up to its first persist *)
BeginCopying(batchFiles, isWhole) ==
    /\ Persist(SetPhase(cur, "CopyStarted"))
    /\ todo' = batchFiles
    /\ whole' = isWhole
    /\ pc' = "CopyFiles"
    /\ UNCHANGED <<files, ledger, reg, session, cur>>

BeginCopy ==
    /\ Copying
    /\ NeedsCopy(cur)
    /\ ChecksConflicts(cur) => {} \in Conflicts(cur)
    /\ BeginCopying(FilesOf(cur), TRUE)

BeginSubsetCopy ==
    /\ Copying
    /\ NeedsCopy(cur)
    /\ ChecksConflicts(cur)
    /\ EffectivePolicy = "SkipFile"
    /\ \E found \in Conflicts(cur) :
         /\ found \notin {{}, FilesOf(cur)}
         /\ BeginCopying(FilesOf(cur) \ found, FALSE)

(* after a conflict a transfer goes on with the next batch, a resume ends *)
AfterConflict ==
    /\ pc' = IF IsTransfer THEN "Copy" ELSE "Error"
    /\ cur' = IF IsTransfer THEN cur + 1 ELSE cur

(* mark_batch_failed_for_conflicts; the approval flag stays as it was *)
MarkFailedForConflicts ==
    /\ Persist(UpsertBatch(mem, cur, [mem.batch[cur] EXCEPT !.phase = "Failed",
                                                            !.passed = FALSE]))
    /\ AfterConflict
    /\ UNCHANGED <<files, ledger, reg, session, todo, whole>>

SkipConflictingBatch ==
    /\ Copying
    /\ NeedsCopy(cur)
    /\ ChecksConflicts(cur)
    /\ \E found \in Conflicts(cur) :
         /\ found # {}
         /\ EffectivePolicy = "SkipBatch" \/ found = FilesOf(cur)
    /\ MarkFailedForConflicts

(* copy_file_atomically: the finished temporary file is renamed over       *)
(* whatever the destination path holds                                     *)
CopyFile(f, result) ==
    /\ pc = "CopyFiles"
    /\ f \in todo
    /\ \A g \in todo : f <= g
    /\ f \in src
    /\ dst' = [dst EXCEPT ![f] = result]
    /\ todo' = todo \ {f}
    /\ UNCHANGED <<src, disk, ledger, reg, pc, session, mem, cur, whole>>

CopyNextFile == \E f \in todo : CopyFile(f, "Equal")

(* storage returned other bytes than it was given *)
CopyCorruptsFile == \E f \in todo : CopyFile(f, "Corrupt")

(* Seeded defect: a partly copied batch is entered in the ledger. *)
LedgersSubset ==
    /\ pc = "CopyFiles"
    /\ todo = {}
    /\ Persist(UpsertBatch(mem, cur,
                 [mem.batch[cur] EXCEPT !.phase = "CopyCompleted",
                                        !.passed = IsResume /\ @]))
    /\ pc' = "MarkLedger"
    /\ whole' = FALSE
    /\ UNCHANGED <<files, ledger, reg, session, cur, todo>>

(* only transfer resets the verification flag; it is stale for a resume *)
FinishCopy ==
    /\ pc = "CopyFiles"
    /\ todo = {}
    /\ Persist(UpsertBatch(mem, cur,
                 [mem.batch[cur] EXCEPT !.phase = "CopyCompleted",
                                        !.passed = IsResume /\ @]))
    /\ pc' = IF whole THEN "MarkLedger" ELSE "MarkConflict"
    /\ whole' = FALSE
    /\ UNCHANGED <<files, ledger, reg, session, cur, todo>>

(* mark_batch_completed_with_interrupt, before any verification *)
MarkLedger ==
    /\ pc = "MarkLedger"
    /\ ledger' = ledger \cup FilesOf(cur)
    /\ pc' = IF IsTransfer THEN "Copy" ELSE "Verify"
    /\ cur' = IF IsTransfer THEN cur + 1 ELSE cur
    /\ UNCHANGED <<files, disk, reg, session, mem, todo, whole>>

MarkConflict ==
    /\ pc = "MarkConflict"
    /\ MarkFailedForConflicts

-----------------------------------------------------------------------------
(* Verifying. *)

EndCopyPhase ==
    /\ pc = "Copy"
    /\ IsTransfer
    /\ cur > NumBatches
    /\ SetStatus("Verifying")
    /\ pc' = "StartVerify"
    /\ UNCHANGED <<files, disk, ledger, session, mem, cur, todo, whole>>

StartVerifyPhase ==
    /\ pc = "StartVerify"
    /\ Persist(SetMigrationPhase(mem, "Verifying"))
    /\ cur' = 1
    /\ pc' = "Verify"
    /\ UNCHANGED <<files, ledger, reg, session, todo, whole>>

SkipsVerification(b) ==
    /\ IsTransfer
    /\ \/ mem.batch[b].deleted
       \/ mem.batch[b].phase = "Failed"
       \/ mem.batch[b].passed /\ mem.batch[b].phase \in VerifiedPhase

Verifying == pc = "Verify" /\ cur \in Batch

SkipVerification ==
    /\ Verifying
    /\ SkipsVerification(cur)
    /\ cur' = cur + 1
    /\ UNCHANGED <<durable, pc, session, mem, todo, whole>>

(* Seeded defect: the outcome of a verification is not persisted. *)
RecordsInMemory(b, ok) ==
    /\ mem' = UpsertBatch(mem, b, [mem.batch[b] EXCEPT !.phase = "VerifyCompleted",
                                                       !.passed = ok])
    /\ disk' = disk

RecordVerification(b, ok) ==
    Persist(UpsertBatch(mem, b, [mem.batch[b] EXCEPT !.phase = "VerifyCompleted",
                                                     !.passed = ok]))

VerifyBatch ==
    /\ Verifying
    /\ ~ SkipsVerification(cur)
    /\ RecordVerification(cur, VerifyPasses(cur))
    /\ pc' = IF ~ VerifyPasses(cur) THEN "DropLedger"
             ELSE IF IsTransfer THEN "Verify" ELSE "Copy"
    /\ cur' = IF VerifyPasses(cur) THEN cur + 1 ELSE cur
    /\ UNCHANGED <<files, ledger, reg, session, todo, whole>>

(* handle_verification_error, then the command ends with the error *)
DropLedger ==
    /\ pc = "DropLedger"
    /\ ledger' = ledger \ FilesOf(cur)
    /\ pc' = "Error"
    /\ UNCHANGED <<files, disk, reg, session, mem, cur, todo, whole>>

-----------------------------------------------------------------------------
(* Approval and deletion. *)

BatchesDone ==
    /\ cur = NumBatches + 1
    /\ \/ pc = "Verify" /\ IsTransfer
       \/ pc = "Copy" /\ IsResume

(* resume reviews the batches once more before it records the phase ... *)
AwaitDeletion ==
    /\ BatchesDone
    /\ IF IsResume /\ OperatorReviewBlocks(mem, FALSE)
       THEN pc' = "Error" /\ UNCHANGED <<mem, disk>>
       ELSE /\ pc' = "Awaiting"
            /\ Persist(SetMigrationPhase(mem, "AwaitingDeletion"))
    /\ UNCHANGED <<files, ledger, reg, session, cur, todo, whole>>

(* ... and transfer after it has recorded the phase and the status *)
EnterDeletePhase ==
    /\ pc = "Awaiting"
    /\ SetStatus("AwaitingDeletion")
    /\ pc' = IF IsTransfer /\ OperatorReviewBlocks(mem, FALSE)
             THEN "Error" ELSE "Delete"
    /\ UNCHANGED <<files, disk, ledger, session, mem, cur, todo, whole>>

(* approved batches are deleted first, in order, without a new prompt *)
BeginDelete ==
    /\ pc = "Delete"
    /\ \E b \in BatchesApprovedButNotDeleted(mem) :
         /\ \A c \in BatchesApprovedButNotDeleted(mem) : b <= c
         /\ mem.batch[b].passed
         /\ cur' = b
         /\ todo' = FilesOf(b)
    /\ pc' = "DeleteFiles"
    /\ UNCHANGED <<durable, session, mem, whole>>

RemoveFile(f) ==
    /\ pc = "DeleteFiles"
    /\ f \in todo
    /\ \A g \in todo : f <= g
    /\ src' = src \ {f}
    /\ todo' = todo \ {f}
    /\ UNCHANGED <<dst, disk, ledger, reg, pc, session, mem, cur, whole>>

RemoveNextFile == \E f \in todo : RemoveFile(f)

(* a file cannot be removed: the batch fails in memory, and the `?` of the *)
(* caller skips the persist that would have recorded it                    *)
RemoveFails ==
    /\ pc = "DeleteFiles"
    /\ todo # {}
    /\ mem' = SetPhase(cur, "Failed")
    /\ pc' = "Error"
    /\ todo' = {}
    /\ UNCHANGED <<durable, session, cur, whole>>

(* Seeded defects: a batch is recorded as deleted with files still to      *)
(* remove; a deletion is recorded in the phase but not in the flag.        *)
RecordsDeletionEarly ==
    /\ pc = "DeleteFiles"
    /\ Persist(UpsertBatch(mem, cur,
                 [mem.batch[cur] EXCEPT !.phase = "DeleteCompleted",
                                        !.deleted = TRUE]))
    /\ pc' = "Delete"
    /\ todo' = {}
    /\ UNCHANGED <<files, ledger, reg, session, cur, whole>>

ForgetsDeletedFlag ==
    /\ pc = "DeleteFiles"
    /\ todo = {}
    /\ Persist(SetPhase(cur, "DeleteCompleted"))
    /\ pc' = "Delete"
    /\ UNCHANGED <<files, ledger, reg, session, cur, todo, whole>>

FinishDelete ==
    /\ pc = "DeleteFiles"
    /\ todo = {}
    /\ Persist(UpsertBatch(mem, cur,
                 [mem.batch[cur] EXCEPT !.phase = "DeleteCompleted",
                                        !.deleted = TRUE]))
    /\ pc' = "Delete"
    /\ UNCHANGED <<files, ledger, reg, session, cur, todo, whole>>

AtPrompt ==
    /\ pc = "Delete"
    /\ BatchesApprovedButNotDeleted(mem) = {}
    /\ BatchesNeedingApproval(mem) # {}

(* the operator says yes: one answer approves every verified batch *)
Approve ==
    /\ AtPrompt
    /\ Interactive
    /\ Persist(ApproveBatches(mem, BatchesNeedingApproval(mem)))
    /\ UNCHANGED <<files, ledger, reg, pc, session, cur, todo, whole>>

Decline ==
    /\ AtPrompt
    /\ Interactive
    /\ pc' = "Snapshot"
    /\ cur' = 1
    /\ UNCHANGED <<durable, session, mem, todo, whole>>

(* no prompt without a terminal: deletion is refused *)
RefuseUnattended ==
    /\ AtPrompt
    /\ ~ Interactive
    /\ pc' = "Error"
    /\ UNCHANGED <<durable, session, mem, cur, todo, whole>>

DeletionDone ==
    /\ pc = "Delete"
    /\ BatchesApprovedButNotDeleted(mem) = {}
    /\ BatchesNeedingApproval(mem) = {}
    /\ pc' = "Snapshot"
    /\ cur' = 1
    /\ UNCHANGED <<durable, session, mem, todo, whole>>

-----------------------------------------------------------------------------
(* Snapshots, and the end of the command. *)

DeletedUpTo(b) == {d \in Batch : d <= b /\ mem.batch[d].deleted}

SnapshotDue(b) ==
    /\ SnapshotEvery > 0
    /\ mem.batch[b].deleted
    /\ mem.batch[b].phase # "SnapshotCompleted"
    /\ Cardinality(DeletedUpTo(b)) % SnapshotEvery = 0

Snapshotting == pc = "Snapshot" /\ cur \in Batch

TakeSnapshot ==
    /\ Snapshotting
    /\ SnapshotDue(cur)
    /\ Persist(SetPhase(cur, "SnapshotCompleted"))
    /\ cur' = cur + 1
    /\ UNCHANGED <<files, ledger, reg, pc, session, todo, whole>>

(* Seeded defect: the loop over the batches runs past the last one. *)
SnapshotsPastTheEnd ==
    /\ pc = "Snapshot"
    /\ cur' = cur + 1
    /\ UNCHANGED <<durable, pc, session, mem, todo, whole>>

(* not due, or the snapshot failed, which is only a warning *)
PassOverSnapshot ==
    /\ Snapshotting
    /\ cur' = cur + 1
    /\ UNCHANGED <<durable, pc, session, mem, todo, whole>>

RecordFinalPhase ==
    /\ pc = "Snapshot"
    /\ cur > NumBatches
    /\ Persist(SetMigrationPhase(mem, IF AllDeleted(mem) THEN "Completed"
                                      ELSE "AwaitingDeletion"))
    /\ pc' = "Report"
    /\ UNCHANGED <<files, ledger, reg, session, cur, todo, whole>>

(* Seeded defect: a migration with nothing approved counts as complete. *)
CompletesUnapproved ==
    /\ pc = "Report"
    /\ SetStatus(IF BatchesApprovedButNotDeleted(mem) = {} THEN "Completed"
                                                           ELSE "AwaitingDeletion")
    /\ EndSession
    /\ UNCHANGED <<files, disk, ledger>>

RecordFinalStatus ==
    /\ pc = "Report"
    /\ SetStatus(IF AllDeleted(mem) THEN "Completed" ELSE "AwaitingDeletion")
    /\ EndSession
    /\ UNCHANGED <<files, disk, ledger>>

(* transfer's error exit writes the registry only *)
FailTransfer ==
    /\ pc = "Error"
    /\ IsTransfer
    /\ SetStatus("Failed")
    /\ EndSession
    /\ UNCHANGED <<files, disk, ledger>>

(* resume's first persists its in-memory state, if it can *)
FailResume ==
    /\ pc = "Error"
    /\ IsResume
    /\ disk' \in {disk, SetMigrationPhase(mem, "Failed")}
    /\ pc' = "ReportFailed"
    /\ UNCHANGED <<files, ledger, reg, session, mem, cur, todo, whole>>

ReportFailed ==
    /\ pc = "ReportFailed"
    /\ SetStatus("Failed")
    /\ EndSession
    /\ UNCHANGED <<files, disk, ledger>>

-----------------------------------------------------------------------------
(* What may happen to a session, and between sessions. *)

(* Any step may fail, and Ctrl-C is polled before every batch and file.    *)
(* The final writes of a command are past its error handling.              *)
Abort ==
    /\ pc \notin {"Idle", "Report", "Error", "ReportFailed"}
    /\ ~ (pc = "Snapshot" /\ cur > NumBatches /\ IsResume)
    /\ pc' = "Error"
    /\ cur' = 1
    /\ todo' = {}
    /\ whole' = FALSE
    /\ UNCHANGED <<durable, session, mem>>

Crash ==
    /\ pc # "Idle"
    /\ EndSession
    /\ UNCHANGED durable

(* between sessions the operator clears destination files of a batch that  *)
(* is not verified, keeping the source                                     *)
OperatorClears(f) ==
    /\ pc = "Idle"
    /\ f \in src
    /\ dst[f] # "Absent"
    /\ disk # NoState => ~ disk.batch[BatchOf[f]].passed
    /\ dst' = [dst EXCEPT ![f] = "Absent"]
    /\ UNCHANGED <<src, disk, ledger, reg, process>>

(* a copy is lost, or no longer equals its source (Drift only) *)
LoseCopy(f) ==
    /\ Drift
    /\ pc = "Idle"
    /\ dst[f] = "Equal"
    /\ \E d \in {"Absent", "Corrupt"} : dst' = [dst EXCEPT ![f] = d]
    /\ UNCHANGED <<src, disk, ledger, reg, process>>

-----------------------------------------------------------------------------
(* The steps of a session's own code, without its failures. *)
CopyStep ==
    \/ SkipCopiedBatch
    \/ ResumeNeedsReview
    \/ ResumeVerifiesBatch
    \/ BeginCopy
    \/ BeginSubsetCopy
    \/ SkipConflictingBatch
    \/ CopyNextFile
    \/ FinishCopy
    \/ MarkLedger
    \/ MarkConflict

VerifyStep ==
    \/ EndCopyPhase
    \/ StartVerifyPhase
    \/ SkipVerification
    \/ VerifyBatch
    \/ DropLedger
    \/ AwaitDeletion
    \/ EnterDeletePhase

DeleteStep ==
    \/ BeginDelete
    \/ RemoveNextFile
    \/ FinishDelete
    \/ Approve
    \/ Decline
    \/ RefuseUnattended
    \/ DeletionDone

EndStep ==
    \/ TakeSnapshot
    \/ PassOverSnapshot
    \/ RecordFinalPhase
    \/ RecordFinalStatus
    \/ FailTransfer
    \/ FailResume
    \/ ReportFailed

SessionStep ==
    \/ RefuseTransfer
    \/ PlanTransfer
    \/ StartCopyPhase
    \/ CopyStep
    \/ VerifyStep
    \/ DeleteStep
    \/ EndStep

Fault ==
    \/ CopyCorruptsFile
    \/ RemoveFails
    \/ Abort
    \/ Crash

Between ==
    \/ StartResume
    \/ \E f \in File : OperatorClears(f)
    \/ \E f \in File : LoseCopy(f)

Next == StartTransfer \/ SessionStep \/ Fault \/ Between

Spec == Init /\ [][Next]_vars

(* The code keeps taking its next step as long as it can. *)
FairSpec == Spec /\ WF_vars(SessionStep)

-----------------------------------------------------------------------------
(***************************************************************************)
(* Properties.                                                             *)
(***************************************************************************)

(* What a removed source file leaves at the destination: its content or,   *)
(* where verification does not look, some file.                            *)
Delivered(f) == IF f \in Checked THEN dst[f] = "Equal" ELSE dst[f] # "Absent"

(* Whatever is interrupted, refused or retried, a file's content is at its *)
(* source or, in full, at its destination: cleanup, verification and the   *)
(* skips of both commands never combine to lose one.  Of a file that       *)
(* verification skips for its name only this much is true: where its       *)
(* source is gone, some file stands at the destination.                    *)
NoFileLost == \A f \in File : f \in src \/ Delivered(f)

(* cleanup_batch removes a source file only when the state file says that  *)
(* every batch of the migration passed verification and was approved: one  *)
(* failed batch keeps the source of all of them.                           *)
DeletesOnlyApprovedState ==
    [][src' # src => \A b \in Batch : disk.batch[b].passed /\ disk.batch[b].approved]_vars

(* The state file never runs ahead of cleanup: a batch it calls deleted    *)
(* has no file left at the source; a batch it does not call approved has   *)
(* all of them.                                                            *)
StateFileMatchesSource ==
    disk # NoState =>
        \A b \in Batch :
            /\ disk.batch[b].deleted => FilesOf(b) \cap src = {}
            /\ ~ disk.batch[b].approved => FilesOf(b) \subseteq src

(* A registry entry that is Completed belongs to a migration whose source  *)
(* is empty and whose state file says so, also after later commands on it. *)
CompletedMeansMoved ==
    reg = "Completed" => /\ src = {}
                         /\ disk # NoState
                         /\ disk.phase = "Completed"
                         /\ AllDeleted(disk)

(* Re-running a command, resuming and crashing never take back a deletion  *)
(* or an approval the state file records, and never lose the file.         *)
RecordedProgressStays ==
    [][disk # NoState =>
         /\ disk' # NoState
         /\ \A b \in Batch :
              /\ disk.batch[b].deleted => disk'.batch[b].deleted
              /\ disk.batch[b].approved => disk'.batch[b].approved]_vars

(* resume checks for conflicts again, also in a batch whose copy was       *)
(* interrupted: it never writes over a file that is not caravan's and that *)
(* listings show, even if they miss others.                                *)
ResumeKeepsForeignFiles ==
    [][\A f \in File \ Unlisted : IsResume /\ dst[f] \in Foreign => dst'[f] = dst[f]]_vars

(* A batch recorded as verified is not copied again, whichever command     *)
(* meets it and whatever happened to it since (a failed deletion, say), as *)
(* long as listings show its files: the conflict check, and not the record *)
(* of the pass, is what keeps a batch whose deletion failed.               *)
FullyListed(b) == FilesOf(b) \cap Unlisted = {}
VerifiedNotRecopied ==
    [][\A f \in File :
         /\ FullyListed(BatchOf[f])
         /\ disk # NoState /\ disk.batch[BatchOf[f]].passed
         => dst'[f] = dst[f]]_vars

(* The ledger makes later migrations of this source skip a file, so an     *)
(* entry is added only for a file a copy wrote: a batch of which a foreign *)
(* file was left out is not entered.                                       *)
LedgerAddsOnlyCopies ==
    [][\A f \in ledger' \ ledger : dst[f] \in {"Equal", "Corrupt"}]_vars

(* Every command ends: no loop over batches, files, approvals or snapshots *)
(* keeps a session running.                                                *)
SessionEnds == pc # "Idle" ~> pc = "Idle"

(* What the readme promises of conflicting files ("never overwritten       *)
(* automatically"), of every command.                                      *)
ConflictsNeverOverwritten ==
    [][\A f \in File : pc # "Idle" /\ dst[f] \in Foreign => dst'[f] = dst[f]]_vars

(* What the plan promises when state and file system disagree ("stop and   *)
(* require operator review"): no source file goes while its copy is gone.  *)
NoDeletionAgainstMissingCopy ==
    [][\A f \in src \ src' : dst[f] # "Absent"]_vars

(* What the plan promises of power lost in the middle of a batch ("resume  *)
(* from last checkpoint, reconcile partial destination artifacts"): resume *)
(* fails no batch for a conflict when all its copies are caravan's own.    *)
ResumeReconcilesOwnCopies ==
    [][\A b \in Batch :
         /\ IsResume /\ pc \in {"Copy", "MarkConflict"}
         /\ disk.batch[b].phase # "Failed" /\ disk'.batch[b].phase = "Failed"
         => \E f \in FilesOf(b) : dst[f] \notin {"Absent", "Equal"}]_vars
=============================================================================

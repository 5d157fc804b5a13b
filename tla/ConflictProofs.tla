--------------------------- MODULE ConflictProofs ---------------------------
(***************************************************************************)
(* What overwrites files that were at the destination before: a listing of *)
(* their directory that misses them, and the interruption of a copy that   *)
(* leaves some of a batch's files out; nothing else.  The run `conflicts`  *)
(* shows that the second does.                                             *)
(***************************************************************************)
EXTENDS MigrationProofs

(* No copy of a batch without its conflicting files is broken off: by a    *)
(* crash, an error or Ctrl-C.                                              *)
SubsetsFinish ==
    [][pc = "CopyFiles" /\ ~ whole => pc' \notin {"Idle", "Error"}]_vars

(* The batches whose copy a state calls begun.                             *)
Begun(st) ==
    IF st = NoState THEN {} ELSE {b \in Batch : st.batch[b].phase = "CopyStarted"}

(* What the readme promises, of the files that listings show.              *)
ListedFilesKept ==
    [][\A f \in File \ Unlisted :
         pc # "Idle" /\ dst[f] \in Foreign => dst'[f] = dst[f]]_vars

(* A foreign file that listings show. *)
KnownForeign(f) == f \notin Unlisted /\ dst[f] \in Foreign

(* A batch whose copy has begun has no such file, unless the files that do *)
(* not conflict are being copied right now.                                *)
BegunIsOwn ==
    /\ \A b \in Begun(mem) \cup Begun(disk) :
         \/ \A f \in FilesOf(b) : ~ KnownForeign(f)
         \/ pc = "CopyFiles" /\ ~ whole /\ cur = b
    /\ pc = "CopyFiles" => \A f \in todo : ~ KnownForeign(f)

-----------------------------------------------------------------------------
(* What writing a state does to the batches it calls begun.                *)
LEMMA BegunOfUpsert ==
    ASSUME NEW st \in StateRecord, NEW b \in Batch, NEW r \in BatchRecord,
           r.phase # "CopyStarted"
    PROVE  Begun(UpsertBatch(st, b, r)) = Begun(st) \ {b}
  <1>1. UpsertBatch(st, b, r) # NoState /\ st # NoState
    BY UpsertFacts, NoStateAssumption
  <1>2. UpsertBatch(st, b, r).batch[b] = r
    BY UpsertFacts
  <1>3. \A c \in Batch : c # b => UpsertBatch(st, b, r).batch[c] = st.batch[c]
    BY UpsertFacts
  <1>4. QED
    BY <1>1, <1>2, <1>3 DEF Begun

LEMMA BegunOfPhase ==
    ASSUME NEW st \in StateRecord, NEW p \in MigrationPhase
    PROVE  Begun(SetMigrationPhase(st, p)) = Begun(st)
  <1>1. SetMigrationPhase(st, p) # NoState /\ st # NoState
    BY PhaseFacts, NoStateAssumption
  <1>2. QED
    BY <1>1, PhaseFacts DEF Begun

LEMMA BegunOfOthers ==
    /\ Begun(NoState) = {}
    /\ Begun(FreshState) = {}
    /\ \A st \in StateRecord, bs \in SUBSET Batch :
         Begun(ApproveBatches(st, bs)) \subseteq Begun(st)
  <1>1. Begun(FreshState) = {}
    BY FreshFacts, NoStateAssumption DEF Begun, PlannedBatch
  <1>2. ASSUME NEW st \in StateRecord, NEW bs \in SUBSET Batch
        PROVE  Begun(ApproveBatches(st, bs)) \subseteq Begun(st)
    <2>1. ApproveBatches(st, bs) # NoState /\ st # NoState
      BY ApproveFacts, NoStateAssumption
    <2>2. ASSUME NEW b \in Batch, ApproveBatches(st, bs).batch[b].phase = "CopyStarted"
          PROVE  st.batch[b].phase = "CopyStarted"
      <3>1. CASE b \in bs
        BY <2>2, <3>1, ApproveFacts
      <3>2. CASE b \notin bs
        BY <2>2, <3>2, ApproveFacts
      <3>3. QED
        BY <3>1, <3>2
    <2>3. QED
      BY <2>1, <2>2 DEF Begun
  <1>3. QED
    BY <1>1, <1>2 DEF Begun

(* The steps that record an outcome of a batch: it is no longer begun.     *)
LEMMA OutcomesEndCopies ==
    ASSUME Inv,
           \/ SkipConflictingBatch \/ FinishCopy \/ MarkConflict \/ VerifyBatch
           \/ FinishDelete \/ TakeSnapshot \/ RemoveFails
    PROVE  /\ Begun(mem') \cup Begun(disk') \subseteq Begun(mem) \cup Begun(disk)
           /\ FinishCopy => cur \notin Begun(mem') \cup Begun(disk')
  <1>1. /\ mem # NoState /\ mem \in StateRecord /\ cur \in Batch
        /\ mem.batch[cur] \in BatchRecord
    BY DEF Inv, TypeOK, Checkpointed, AtWork, LoopSound, BatchWork, StateRecord,
           SkipConflictingBatch, FinishCopy, MarkConflict, VerifyBatch, FinishDelete,
           TakeSnapshot, RemoveFails, Copying, Verifying, Snapshotting
  <1>2. \E r \in BatchRecord :
           /\ r.phase # "CopyStarted"
           /\ mem' = UpsertBatch(mem, cur, r)
           /\ disk' = disk \/ disk' = mem'
           /\ FinishCopy => disk' = mem'
    <2>1. CASE SkipConflictingBatch \/ MarkConflict
      <3> DEFINE r == [mem.batch[cur] EXCEPT !.phase = "Failed", !.passed = FALSE]
      <3>1. mem' = UpsertBatch(mem, cur, r) /\ disk' = mem'
        BY <2>1 DEF SkipConflictingBatch, MarkConflict, MarkFailedForConflicts, Persist
      <3>2. r \in BatchRecord /\ r.phase # "CopyStarted"
        BY <1>1 DEF BatchRecord, BatchPhase
      <3> HIDE DEF r
      <3>3. QED
        BY <3>1, <3>2
    <2>2. CASE FinishCopy
      <3> DEFINE r == [mem.batch[cur] EXCEPT !.phase = "CopyCompleted", !.passed = IsResume /\ @]
      <3>1. mem' = UpsertBatch(mem, cur, r) /\ disk' = mem'
        BY <2>2 DEF FinishCopy, Persist
      <3>2. r \in BatchRecord /\ r.phase # "CopyStarted"
        BY <1>1 DEF BatchRecord, BatchPhase
      <3> HIDE DEF r
      <3>3. QED
        BY <3>1, <3>2
    <2>3. CASE VerifyBatch
      <3> DEFINE r == [mem.batch[cur] EXCEPT !.phase = "VerifyCompleted",
                                             !.passed = VerifyPasses(cur)]
      <3>1. mem' = UpsertBatch(mem, cur, r) /\ disk' = mem'
        BY <2>3 DEF VerifyBatch, RecordVerification, Persist
      <3>2. r \in BatchRecord /\ r.phase # "CopyStarted"
        BY <1>1 DEF VerifyPasses, BatchRecord, BatchPhase
      <3> HIDE DEF r
      <3>3. QED
        BY <3>1, <3>2
    <2>4. CASE FinishDelete
      <3> DEFINE r == [mem.batch[cur] EXCEPT !.phase = "DeleteCompleted", !.deleted = TRUE]
      <3>1. mem' = UpsertBatch(mem, cur, r) /\ disk' = mem'
        BY <2>4 DEF FinishDelete, Persist
      <3>2. r \in BatchRecord /\ r.phase # "CopyStarted"
        BY <1>1 DEF BatchRecord, BatchPhase
      <3> HIDE DEF r
      <3>3. QED
        BY <3>1, <3>2
    <2>5. CASE TakeSnapshot
      <3> DEFINE r == [mem.batch[cur] EXCEPT !.phase = "SnapshotCompleted"]
      <3>1. mem' = UpsertBatch(mem, cur, r) /\ disk' = mem'
        BY <2>5 DEF TakeSnapshot, Persist, SetPhase
      <3>2. r \in BatchRecord /\ r.phase # "CopyStarted"
        BY <1>1 DEF BatchRecord, BatchPhase
      <3> HIDE DEF r
      <3>3. QED
        BY <3>1, <3>2
    <2>6. CASE RemoveFails
      <3> DEFINE r == [mem.batch[cur] EXCEPT !.phase = "Failed"]
      <3>1. mem' = UpsertBatch(mem, cur, r) /\ disk' = disk /\ pc = "DeleteFiles"
        BY <2>6 DEF RemoveFails, SetPhase, durable
      <3>2. r \in BatchRecord /\ r.phase # "CopyStarted"
        BY <1>1 DEF BatchRecord, BatchPhase
      <3> HIDE DEF r
      <3>3. QED
        BY <3>1, <3>2 DEF FinishCopy
    <2>7. QED
      BY <2>1, <2>2, <2>3, <2>4, <2>5, <2>6
  <1>3. QED
    BY <1>1, <1>2, BegunOfUpsert

(* Only the beginning of a copy makes a batch begun. *)
LEMMA OnlyCopiesBegin ==
    ASSUME Inv, [Next]_vars, ~ BeginCopy, ~ BeginSubsetCopy
    PROVE  Begun(mem') \cup Begun(disk') \subseteq Begun(mem) \cup Begun(disk)
  <1>1. CASE /\ mem' \in {mem, disk, NoState}
             /\ disk' = disk
    BY <1>1, BegunOfOthers
  <1>2. CASE CopyStep
    BY <1>1, <1>2, OutcomesEndCopies
       DEF CopyStep, SkipCopiedBatch, ResumeNeedsReview, ResumeVerifiesBatch, CopyNextFile,
           CopyFile, MarkLedger, durable
  <1>3. CASE StartCopyPhase \/ StartVerifyPhase \/ AwaitDeletion \/ RecordFinalPhase \/ FailResume
    <2>1. mem # NoState /\ mem \in StateRecord
      BY <1>3 DEF Inv, TypeOK, Checkpointed, AtWork, StartCopyPhase, StartVerifyPhase,
                  AwaitDeletion, BatchesDone, RecordFinalPhase, FailResume
    <2>2. \/ mem' = mem /\ disk' = disk
          \/ \E p \in MigrationPhase :
                /\ disk' = SetMigrationPhase(mem, p)
                /\ mem' \in {mem, disk'}
      BY <1>3 DEF StartCopyPhase, StartVerifyPhase, AwaitDeletion, RecordFinalPhase, FailResume,
                  Persist, MigrationPhase
    <2>3. QED
      BY <2>1, <2>2, BegunOfPhase
  <1>4. CASE VerifyStep
    BY <1>1, <1>3, <1>4, OutcomesEndCopies
       DEF VerifyStep, EndCopyPhase, SkipVerification, DropLedger, EnterDeletePhase, durable
  <1>5. CASE Approve
    <2>1. mem # NoState /\ mem \in StateRecord
      BY <1>5 DEF Inv, TypeOK, Checkpointed, AtWork, Approve, AtPrompt
    <2>2. /\ BatchesNeedingApproval(mem) \in SUBSET Batch
          /\ disk' = ApproveBatches(mem, BatchesNeedingApproval(mem)) /\ mem' = disk'
      BY <1>5 DEF Approve, Persist, BatchesNeedingApproval
    <2> HIDE DEF BatchesNeedingApproval
    <2>3. QED
      BY <2>1, <2>2, BegunOfOthers
  <1>6. CASE DeleteStep
    BY <1>1, <1>5, <1>6, OutcomesEndCopies
       DEF DeleteStep, BeginDelete, RemoveNextFile, RemoveFile, Decline, RefuseUnattended,
           DeletionDone, durable
  <1>7. CASE EndStep
    BY <1>1, <1>3, <1>7, OutcomesEndCopies
       DEF EndStep, PassOverSnapshot, RecordFinalStatus, FailTransfer, ReportFailed, durable,
           EndSession
  <1>8. CASE PlanTransfer
    <2>1. mem' = disk' /\ (disk' = FreshState \/ disk' = mem)
      BY <1>8 DEF PlanTransfer, Persist
    <2>2. QED
      BY <2>1, BegunOfOthers
  <1>9. CASE StartTransfer \/ RefuseTransfer \/ Fault \/ Between \/ UNCHANGED vars
    BY <1>1, <1>9, OutcomesEndCopies
       DEF StartTransfer, RefuseTransfer, Fault, CopyCorruptsFile, CopyFile, Abort, Crash,
           EndSession, Between, StartResume, OperatorClears, LoseCopy, durable, process, vars
  <1>10. QED
    BY <1>2, <1>3, <1>4, <1>6, <1>7, <1>8, <1>9 DEF Next, SessionStep

(* Nothing but a foreign file is foreign: none appears while caravan works *)
(* or the operator clears.                                                 *)
LEMMA NoNewForeign ==
    ASSUME Inv, [Next]_vars
    PROVE  \A f \in File : dst'[f] \in Foreign => dst[f] = dst'[f]
  <1>1. dst \in [File -> DestFile]
    BY DEF Inv, TypeOK
  <1>2. CASE dst' = dst
    BY <1>2
  <1>3. CASE \E f \in todo, r \in {"Equal", "Corrupt"} : CopyFile(f, r)
    BY <1>1, <1>3 DEF CopyFile, Foreign
  <1>4. CASE \E f \in File : OperatorClears(f) \/ LoseCopy(f)
    BY <1>1, <1>4 DEF OperatorClears, LoseCopy, Foreign
  <1>5. QED
    BY <1>2, <1>3, <1>4, FileWriters

(* A session reaches the copying of files by one of two steps, and leaves  *)
(* it by three.                                                            *)
LEMMA CopyingFiles ==
    ASSUME Inv, [Next]_vars, ~ BeginCopy, ~ BeginSubsetCopy
    PROVE  /\ pc' = "CopyFiles" => pc = "CopyFiles" /\ todo' \subseteq todo
           /\ pc = "CopyFiles" =>
                \/ FinishCopy
                \/ pc' \in {"Idle", "Error"}
                \/ pc' = "CopyFiles" /\ whole' = whole /\ cur' = cur
  <1>1. CASE CopyStep
    BY <1>1 DEF CopyStep, SkipCopiedBatch, ResumeNeedsReview, ResumeVerifiesBatch, Copying,
         SkipConflictingBatch, MarkFailedForConflicts, AfterConflict,
         CopyNextFile, CopyFile, FinishCopy, MarkLedger, MarkConflict
  <1>2. CASE VerifyStep
    BY <1>2 DEF VerifyStep, EndCopyPhase, StartVerifyPhase, SkipVerification, VerifyBatch,
         Verifying, DropLedger, AwaitDeletion, BatchesDone, EnterDeletePhase
  <1>3. CASE DeleteStep
    BY <1>3 DEF DeleteStep, BeginDelete, RemoveNextFile, RemoveFile, FinishDelete, Approve,
         AtPrompt, Decline, RefuseUnattended, DeletionDone
  <1>4. CASE EndStep
    BY <1>4 DEF EndStep, TakeSnapshot, PassOverSnapshot, Snapshotting, RecordFinalPhase,
         RecordFinalStatus, EndSession, FailTransfer, FailResume, ReportFailed
  <1>5. CASE StartTransfer \/ RefuseTransfer \/ PlanTransfer \/ StartCopyPhase
    BY <1>5 DEF StartTransfer, RefuseTransfer, PlanTransfer, StartCopyPhase
  <1>6. CASE Fault
    BY <1>6 DEF Fault, CopyCorruptsFile, CopyFile, RemoveFails, Abort, Crash, EndSession
  <1>7. CASE Between \/ UNCHANGED vars
    BY <1>7 DEF Between, StartResume, OperatorClears, LoseCopy, process, vars
  <1>8. QED
    BY <1>1, <1>2, <1>3, <1>4, <1>5, <1>6, <1>7 DEF Next, SessionStep

(* So none that listings show appears. *)
LEMMA NoNewKnownForeign ==
    ASSUME Inv, [Next]_vars
    PROVE  \A f \in File : KnownForeign(f)' => KnownForeign(f)
  BY NoNewForeign DEF KnownForeign

-----------------------------------------------------------------------------
(* The copy of a whole batch begins with a batch of no foreign files.      *)
LEMMA WholeCopiesAreOwn ==
    ASSUME Inv, BegunIsOwn, BeginCopy
    PROVE  BegunIsOwn'
  <1> DEFINE r == [mem.batch[cur] EXCEPT !.phase = "CopyStarted"]
  <1>1. /\ mem # NoState /\ mem \in StateRecord /\ cur \in Batch
        /\ pc = "Copy" /\ dst' = dst /\ todo' = FilesOf(cur)
        /\ mem' = UpsertBatch(mem, cur, r) /\ disk' = mem'
    BY DEF BeginCopy, BeginCopying, Copying, Persist, SetPhase, files, Inv, TypeOK, Checkpointed,
           AtWork
  <1>2. r \in BatchRecord
    BY <1>1 DEF BatchRecord, BatchPhase, StateRecord
  <1> HIDE DEF r
  <1>3. Begun(mem') \cup Begun(disk') \subseteq Begun(mem) \cup {cur}
    BY <1>1, <1>2, UpsertFacts, NoStateAssumption DEF Begun
  <1>4. \A f \in FilesOf(cur) : ~ KnownForeign(f)
    <2>1. CASE ChecksConflicts(cur)
      BY <2>1 DEF BeginCopy, Conflicts, Occupied, Foreign, KnownForeign
    <2>2. CASE ~ ChecksConflicts(cur)
      BY <1>1, <2>2 DEF ChecksConflicts, BegunIsOwn, Begun
    <2>3. QED
      BY <2>1, <2>2
  <1>5. \A b \in Begun(mem) : \A f \in FilesOf(b) : ~ KnownForeign(f)
    BY <1>1 DEF BegunIsOwn
  <1>6. QED
    BY <1>1, <1>3, <1>4, <1>5 DEF BegunIsOwn, KnownForeign

(* The copy of the others leaves the foreign files of its batch out.       *)
LEMMA SubsetCopiesAreOwn ==
    ASSUME Inv, BegunIsOwn, BeginSubsetCopy
    PROVE  BegunIsOwn'
  <1> DEFINE r == [mem.batch[cur] EXCEPT !.phase = "CopyStarted"]
  <1>1. /\ mem # NoState /\ mem \in StateRecord /\ cur \in Batch
        /\ pc = "Copy" /\ dst' = dst
        /\ \E found \in Conflicts(cur) : todo' = FilesOf(cur) \ found
        /\ pc' = "CopyFiles" /\ whole' = FALSE /\ cur' = cur
        /\ mem' = UpsertBatch(mem, cur, r) /\ disk' = mem'
    BY DEF BeginSubsetCopy, BeginCopying, Copying, Persist, SetPhase, files, Inv, TypeOK,
           Checkpointed, AtWork
  <1>2. r \in BatchRecord
    BY <1>1 DEF BatchRecord, BatchPhase, StateRecord
  <1> HIDE DEF r
  <1>3. Begun(mem') \cup Begun(disk') \subseteq Begun(mem) \cup {cur}
    BY <1>1, <1>2, UpsertFacts, NoStateAssumption DEF Begun
  <1>4. \A f \in todo' : ~ KnownForeign(f)
    BY <1>1 DEF Conflicts, Occupied, Foreign, KnownForeign
  <1>5. \A b \in Begun(mem) : \A f \in FilesOf(b) : ~ KnownForeign(f)
    BY <1>1 DEF BegunIsOwn
  <1>6. QED
    BY <1>1, <1>3, <1>4, <1>5 DEF BegunIsOwn, KnownForeign

(* Where a copy of a subset goes on to its end, the claim is inductive.    *)
LEMMA BegunStaysOwn ==
    ASSUME Inv, BegunIsOwn, [Next]_vars,
           pc = "CopyFiles" /\ ~ whole => pc' \notin {"Idle", "Error"}
    PROVE  BegunIsOwn'
  <1>1. CASE BeginCopy
    BY <1>1, WholeCopiesAreOwn
  <1>2. CASE BeginSubsetCopy
    BY <1>2, SubsetCopiesAreOwn
  <1>3. CASE ~ BeginCopy /\ ~ BeginSubsetCopy
    <2>1. /\ pc' = "CopyFiles" => pc = "CopyFiles" /\ todo' \subseteq todo
          /\ pc = "CopyFiles" =>
               \/ FinishCopy
               \/ pc' \in {"Idle", "Error"}
               \/ pc' = "CopyFiles" /\ whole' = whole /\ cur' = cur
      BY <1>3, CopyingFiles
    <2>2. todo \in SUBSET File /\ \A b : FilesOf(b) \in SUBSET File
      BY DEF Inv, TypeOK, FilesOf
    <2>3. pc' = "CopyFiles" => \A f \in todo' : ~ KnownForeign(f)'
      BY <2>1, <2>2, NoNewKnownForeign DEF BegunIsOwn
    <2>4. ASSUME NEW b \in Begun(mem') \cup Begun(disk')
          PROVE  \/ \A f \in FilesOf(b) : ~ KnownForeign(f)'
                 \/ pc' = "CopyFiles" /\ ~ whole' /\ cur' = b
      <3>1. b \in Begun(mem) \cup Begun(disk)
        BY <1>3, <2>4, OnlyCopiesBegin
      <3>2. CASE \A f \in FilesOf(b) : ~ KnownForeign(f)
        BY <2>2, <3>2, NoNewKnownForeign
      <3>3. CASE pc = "CopyFiles" /\ ~ whole /\ cur = b
        <4>1. ~ FinishCopy
          BY <2>4, <3>3, OutcomesEndCopies
        <4>2. QED
          BY <2>1, <3>3, <4>1
      <3>4. QED
        BY <3>1, <3>2, <3>3 DEF BegunIsOwn
    <2>5. QED
      BY <2>3, <2>4 DEF BegunIsOwn
  <1>4. QED
    BY <1>1, <1>2, <1>3

(* The readme's promise on conflicts ("never overwritten automatically")   *)
(* is broken only where a listing misses a file, or where the copy of a    *)
(* batch's non-conflicting files is broken off, after which transfer takes *)
(* all files of that batch for its own.  Otherwise no command, with        *)
(* whatever options, fails or crashes into overwriting a foreign file.     *)
THEOREM OnlyBrokenSubsetsOverwrite == Spec /\ SubsetsFinish => ListedFilesKept
  <1>1. Init => BegunIsOwn
    BY BegunOfOthers DEF Init, BegunIsOwn
  <1>2. Inv /\ BegunIsOwn /\ [Next]_vars
        /\ [pc = "CopyFiles" /\ ~ whole => pc' \notin {"Idle", "Error"}]_vars
        => BegunIsOwn'
    <2>1. CASE UNCHANGED vars
      BY <2>1 DEF vars, BegunIsOwn, Begun, KnownForeign
    <2>2. QED
      BY <2>1, BegunStaysOwn
  <1>3. Inv /\ BegunIsOwn /\ [Next]_vars =>
          [\A f \in File \ Unlisted :
             pc # "Idle" /\ dst[f] \in Foreign => dst'[f] = dst[f]]_vars
    <2>1. SUFFICES ASSUME Inv, BegunIsOwn, [Next]_vars, NEW f \in File \ Unlisted,
                          pc # "Idle", dst[f] \in Foreign, dst'[f] # dst[f]
                   PROVE  FALSE
      OBVIOUS
    <2>2. PICK g \in todo, r \in {"Equal", "Corrupt"} : CopyFile(g, r)
      BY <2>1, FileWriters DEF OperatorClears, LoseCopy
    <2>3. /\ ~ KnownForeign(g)
          /\ dst' = [dst EXCEPT ![g] = r] /\ dst \in [File -> DestFile]
      BY <2>1, <2>2 DEF CopyFile, BegunIsOwn, Inv, TypeOK
    <2>4. QED
      BY <2>1, <2>3 DEF KnownForeign
  <1>4. QED
    BY <1>1, <1>2, <1>3, InvariantHolds, PTL DEF Spec, SubsetsFinish, ListedFilesKept

(* Where listings miss nothing, the readme's promise itself.               *)
THEOREM ConflictsKept ==
    ASSUME Unlisted = {} PROVE Spec /\ SubsetsFinish => ConflictsNeverOverwritten
  <1>1. ASSUME Unlisted = {}
        PROVE  [\A f \in File \ Unlisted : pc # "Idle" /\ dst[f] \in Foreign => dst'[f] = dst[f]]_vars
               => [\A f \in File : pc # "Idle" /\ dst[f] \in Foreign => dst'[f] = dst[f]]_vars
    BY <1>1
  <1>2. QED
    BY <1>1, OnlyBrokenSubsetsOverwrite, PTL DEF ListedFilesKept, ConflictsNeverOverwritten
=============================================================================

-------------------------- MODULE MigrationProofs --------------------------
(* Machine-checked proofs about Migration, for every plan of the files. *)
EXTENDS MigrationInvariant, TLAPS

(* What replacing the record of one batch does to a state ... *)
LEMMA UpsertFacts ==
    ASSUME NEW st \in StateRecord, NEW b \in Batch, NEW r \in BatchRecord
    PROVE  /\ UpsertBatch(st, b, r) \in StateRecord
           /\ UpsertBatch(st, b, r).phase = st.phase
           /\ UpsertBatch(st, b, r).batch[b] = r
           /\ \A c \in Batch : c # b => UpsertBatch(st, b, r).batch[c] = st.batch[c]
  BY DEF UpsertBatch, StateRecord

(* ... what setting its phase does ... *)
LEMMA PhaseFacts ==
    ASSUME NEW st \in StateRecord, NEW p \in MigrationPhase
    PROVE  /\ SetMigrationPhase(st, p) \in StateRecord
           /\ SetMigrationPhase(st, p).phase = p
           /\ SetMigrationPhase(st, p).batch = st.batch
  BY DEF SetMigrationPhase, StateRecord

(* ... what a fresh one holds ... *)
LEMMA FreshFacts ==
    /\ FreshState \in StateRecord
    /\ \A b \in Batch : FreshState.batch[b] = PlannedBatch
  BY DEF FreshState, StateRecord, PlannedBatch, BatchRecord, BatchPhase, MigrationPhase

(* ... and what one approval of several batches does. *)
LEMMA ApproveFacts ==
    ASSUME NEW st \in StateRecord, NEW bs \in SUBSET Batch
    PROVE  /\ ApproveBatches(st, bs) \in StateRecord
           /\ ApproveBatches(st, bs).phase = st.phase
           /\ \A b \in Batch :
                LET r == ApproveBatches(st, bs).batch[b] IN
                /\ r.passed = st.batch[b].passed
                /\ r.deleted = st.batch[b].deleted
                /\ b \in bs => r.approved /\ r.phase = "ApprovedForDelete"
                /\ b \notin bs => r = st.batch[b]
  <1> DEFINE ap(b) == [st.batch[b] EXCEPT !.approved = TRUE,
                                          !.phase = "ApprovedForDelete"]
  <1>1. ASSUME NEW b \in Batch
        PROVE  /\ ap(b) \in BatchRecord
               /\ ap(b).passed = st.batch[b].passed
               /\ ap(b).deleted = st.batch[b].deleted
               /\ ap(b).approved
               /\ ap(b).phase = "ApprovedForDelete"
               /\ st.batch[b] \in BatchRecord
    BY DEF StateRecord, BatchRecord, BatchPhase
  <1>2. /\ ApproveBatches(st, bs).batch =
              [b \in Batch |-> IF b \in bs THEN ap(b) ELSE st.batch[b]]
        /\ ApproveBatches(st, bs).phase = st.phase
        /\ ApproveBatches(st, bs) \in [phase : MigrationPhase, batch : {ApproveBatches(st, bs).batch}]
    BY DEF ApproveBatches, StateRecord
  <1> HIDE DEF ap
  <1>3. ApproveBatches(st, bs) \in StateRecord
    BY <1>1, <1>2 DEF StateRecord
  <1>4. \A b \in Batch : ApproveBatches(st, bs).batch[b] =
              IF b \in bs THEN ap(b) ELSE st.batch[b]
    BY <1>2
  <1>5. QED
    BY <1>1, <1>2, <1>3, <1>4

(* The invariant holds before the first command. *)
LEMMA InitInv == Init => Inv
  <1> SUFFICES ASSUME Init PROVE Inv
    OBVIOUS
  <1>1. dst \in [File -> DestFile]
    BY InitialDestinationAssumption DEF Init, Foreign, DestFile
  <1>2. cur \in 1 .. NumBatches + 1
    BY NumBatchesAssumption DEF Init
  <1>3. session \in Session
    BY DEF Init, Session, NoSession, ConflictPolicy
  <1>4. TypeOK
    BY <1>1, <1>2, <1>3 DEF Init, TypeOK, RegistryStatus, Control
  <1>5. QED
    BY <1>4 DEF Init, Inv, Checkpointed, AtWork, StatesSound, SourceSound, BeforeDeletion,
         LoopSound, BatchWork, RegistrySound, CompletedMeansMoved, Delivered, CopiedOrFailed, Standing, Verified

(* Every file of a batch stands at the destination if its pass is intact.  *)
LEMMA DeliveredStands ==
    ASSUME NEW f \in File, Delivered(f) PROVE dst[f] # "Absent"
  BY DEF Delivered

(* While copies stay put and listings show them, the files of a verified   *)
(* batch all count as conflicts: it cannot be copied again.                *)
LEMMA PassedConflicts ==
    ASSUME Inv, ~ Drift, mem # NoState, NEW b \in Batch, mem.batch[b].passed, FullyListed(b)
    PROVE  /\ Conflicts(b) = {FilesOf(b)} /\ FilesOf(b) # {}
           /\ mem.batch[b].phase # "CopyStarted"
  <1>1. mem.batch[b].phase # "CopyStarted" /\ \A f \in FilesOf(b) : f \in File /\ Delivered(f)
    BY DEF Inv, StatesSound, PassedIntact, FilesOf
  <1>2. Occupied(b) = FilesOf(b)
    BY <1>1, DeliveredStands DEF Occupied
  <1>3. Conflicts(b) = {FilesOf(b)}
    BY <1>2 DEF Conflicts, FullyListed
  <1>4. QED
    BY <1>1, <1>3, NonEmptyBatches

(* One file is copied, faithfully or not. *)
LEMMA CopyFileInv ==
    ASSUME Inv, NEW f \in File, NEW result \in {"Equal", "Corrupt"}, CopyFile(f, result)
    PROVE  Inv'
  <1> USE DEF Inv
  <1>1. /\ pc = "CopyFiles" /\ pc' = pc /\ cur \in Batch /\ src = File
        /\ f \in FilesOf(cur) /\ todo' = todo \ {f} /\ dst' = [dst EXCEPT ![f] = result]
        /\ dst'[f] = result /\ \A g \in File : g # f => dst'[g] = dst[g]
        /\ mem # NoState /\ disk = mem /\ mem.batch[cur].phase = "CopyStarted"
        /\ UNCHANGED <<src, disk, ledger, reg, session, mem, cur, whole>>
    BY DEF CopyFile, LoopSound, BatchWork, SourceSound, BeforeDeletion, Checkpointed, AtWork,
       TypeOK
  <1>2. TypeOK'
    BY <1>1 DEF TypeOK, RegistryStatus, Control, DestFile
  <1>3. Checkpointed'
    BY <1>1 DEF Checkpointed, AtWork, IsTransfer, IsResume
  <1>4. StatesSound'
    <2>1. StateSound(mem) /\ StateSound(mem)'
      BY <1>1 DEF StatesSound, StateSound
    <2>2. ASSUME PassedIntact(mem) PROVE PassedIntact(mem)'
      <3>1. SUFFICES ASSUME NEW b \in Batch, mem.batch[b].passed,
                            FullyListed(b) \/ mem.batch[b].phase \in VerifiedPhase
                     PROVE  /\ mem.batch[b].phase # "CopyStarted"
                            /\ \A g \in FilesOf(b) : Delivered(g)'
        BY <1>1 DEF PassedIntact, FullyListed, FilesOf
      <3>2. mem.batch[b].phase # "CopyStarted" /\ \A g \in FilesOf(b) : Delivered(g)
        BY <2>2, <3>1 DEF PassedIntact
      <3>3. b # cur /\ \A g \in FilesOf(b) : g \in File /\ g # f
        BY <1>1, <3>2 DEF FilesOf
      <3>4. QED
        BY <1>1, <3>2, <3>3 DEF Delivered
    <2>3. QED
      BY <1>1, <2>1, <2>2 DEF StatesSound
  <1>5. SourceSound'
    BY <1>1 DEF SourceSound, BeforeDeletion, FullyApproved, Delivered
  <1>6. LoopSound'
    BY <1>1 DEF LoopSound, BatchWork, BeforeDeletion, IsTransfer, IsResume, FilesOf,
       CopiedOrFailed, Standing, Verified
  <1>7. RegistrySound'
    BY <1>1 DEF RegistrySound, HasActiveEntry, CompletedMeansMoved, AllDeleted, IsTransfer
  <1>8. QED
    BY <1>2, <1>3, <1>4, <1>5, <1>6, <1>7

(* One source file is removed. *)
LEMMA RemoveFileInv == ASSUME Inv, NEW f \in File, RemoveFile(f) PROVE Inv'
  <1> USE DEF Inv
  <1>1. /\ pc = "DeleteFiles" /\ pc' = pc /\ cur \in Batch
        /\ src' = src \ {f} /\ todo' = todo \ {f}
        /\ mem # NoState /\ disk = mem /\ FullyApproved(mem)
        /\ UNCHANGED <<dst, disk, ledger, reg, session, mem, cur, whole>>
    BY DEF RemoveFile, LoopSound, BatchWork, Checkpointed, AtWork, FullyApproved, StatesSound,
       StateSound, PassedIntact, Delivered, FullyListed, CopiedOrFailed, Standing, Verified
  <1>2. TypeOK'
    BY <1>1 DEF TypeOK, RegistryStatus, Control
  <1>3. Checkpointed'
    BY <1>1 DEF Checkpointed, AtWork, IsTransfer, IsResume
  <1>4. StatesSound'
    BY <1>1 DEF StatesSound, StateSound, PassedIntact, FilesOf, Delivered, FullyListed
  <1>5. SourceSound'
    <2>1. ASSUME ~ Drift, NEW g \in File PROVE Delivered(g)
      <3>1. BatchOf[g] \in Batch /\ g \in FilesOf(BatchOf[g])
        BY BatchOfAssumption DEF FilesOf
      <3>2. Verified(mem, BatchOf[g])
        BY <1>1, <3>1 DEF LoopSound
      <3>3. QED
        BY <1>1, <2>1, <3>1, <3>2 DEF StatesSound, PassedIntact, Verified
    <2>2. \A g \in File : Delivered(g)' = Delivered(g)
      BY <1>1 DEF Delivered
    <2>3. QED
      BY <1>1, <2>1, <2>2 DEF SourceSound, BeforeDeletion, FullyApproved
  <1>6. LoopSound'
    BY <1>1 DEF LoopSound, BatchWork, BeforeDeletion, IsTransfer, IsResume, FilesOf,
       CopiedOrFailed, Standing, Verified
  <1>7. RegistrySound'
    BY <1>1 DEF RegistrySound, HasActiveEntry, CompletedMeansMoved, AllDeleted, IsTransfer
  <1>8. QED
    BY <1>2, <1>3, <1>4, <1>5, <1>6, <1>7

(* The operator removes a destination file of an unverified batch. *)
LEMMA OperatorClearsInv == ASSUME Inv, NEW f \in File, OperatorClears(f) PROVE Inv'
  <1> USE DEF Inv
  <1>1. /\ pc = "Idle" /\ pc' = pc /\ mem = NoState
        /\ dst' \in [File -> DestFile] /\ \A g \in File : g # f => dst'[g] = dst[g]
        /\ disk # NoState => ~ disk.batch[BatchOf[f]].passed
        /\ UNCHANGED <<src, disk, ledger, reg, session, mem, cur, todo, whole>>
    BY DEF OperatorClears, process, Checkpointed, TypeOK, DestFile
  <1>2. TypeOK'
    BY <1>1 DEF TypeOK, RegistryStatus, Control
  <1>3. Checkpointed'
    BY <1>1 DEF Checkpointed, AtWork, IsTransfer, IsResume
  <1>4. StatesSound'
    BY <1>1 DEF StatesSound, StateSound, PassedIntact, FilesOf, Delivered, FullyListed
  <1>5. SourceSound'
    <2>1. src = File
      BY <1>1, BatchOfAssumption DEF SourceSound, FullyApproved
    <2>2. QED
      BY <1>1, <2>1 DEF SourceSound, BeforeDeletion, FullyApproved
  <1>6. LoopSound'
    BY <1>1 DEF LoopSound, BatchWork, BeforeDeletion, IsTransfer, IsResume, CopiedOrFailed,
       Standing, Verified
  <1>7. RegistrySound'
    BY <1>1 DEF RegistrySound, HasActiveEntry, CompletedMeansMoved, AllDeleted, IsTransfer
  <1>8. QED
    BY <1>2, <1>3, <1>4, <1>5, <1>6, <1>7

(* A destination copy is lost or damaged between sessions: nothing the     *)
(* invariant then says is about the destination.                           *)
LEMMA LoseCopyInv == ASSUME Inv, NEW f \in File, LoseCopy(f) PROVE Inv'
  <1> USE DEF Inv
  <1>1. /\ pc = "Idle" /\ pc' = pc /\ mem = NoState
        /\ dst' \in [File -> DestFile] /\ \A g \in File : g # f => dst'[g] = dst[g]
        /\ Drift
        /\ UNCHANGED <<src, disk, ledger, reg, session, mem, cur, todo, whole>>
    BY DEF LoseCopy, process, Checkpointed, TypeOK, DestFile
  <1>2. TypeOK'
    BY <1>1 DEF TypeOK, RegistryStatus, Control
  <1>3. Checkpointed'
    BY <1>1 DEF Checkpointed, AtWork, IsTransfer, IsResume
  <1>4. StatesSound'
    BY <1>1 DEF StatesSound, StateSound, PassedIntact, FilesOf, Delivered, FullyListed
  <1>5. SourceSound'
    BY <1>1 DEF SourceSound, BeforeDeletion, FullyApproved, Delivered
  <1>6. LoopSound'
    BY <1>1 DEF LoopSound, BatchWork, BeforeDeletion, IsTransfer, IsResume, CopiedOrFailed,
       Standing, Verified
  <1>7. RegistrySound'
    BY <1>1 DEF RegistrySound, HasActiveEntry, CompletedMeansMoved, AllDeleted, IsTransfer
  <1>8. QED
    BY <1>2, <1>3, <1>4, <1>5, <1>6, <1>7

(* Nothing changes. *)
LEMMA StutterInv == Inv /\ UNCHANGED vars => Inv'
  <1> SUFFICES ASSUME Inv, UNCHANGED vars PROVE Inv'
    OBVIOUS
  <1> USE DEF Inv
  <1>1. /\ pc' = pc
        /\ UNCHANGED <<src, dst, disk, ledger, reg, session, mem, cur, todo, whole>>
    BY DEF vars
  <1>2. TypeOK'
    BY <1>1 DEF TypeOK, RegistryStatus, Control
  <1>3. Checkpointed'
    BY <1>1 DEF Checkpointed, AtWork, IsTransfer, IsResume
  <1>4. StatesSound'
    BY <1>1 DEF StatesSound, StateSound, PassedIntact, Delivered, FullyListed
  <1>5. SourceSound'
    BY <1>1 DEF SourceSound, BeforeDeletion, FullyApproved, Delivered
  <1>6. LoopSound'
    BY <1>1 DEF LoopSound, BatchWork, BeforeDeletion, IsTransfer, IsResume, CopiedOrFailed,
       Standing, Verified
  <1>7. RegistrySound'
    BY <1>1 DEF RegistrySound, HasActiveEntry, CompletedMeansMoved, AllDeleted, IsTransfer
  <1>8. QED
    BY <1>2, <1>3, <1>4, <1>5, <1>6, <1>7

(* A command starts, or is refused, in a state the invariant allows. *)
LEMMA CommandStartInv == ASSUME Inv, StartTransfer \/ StartResume \/ RefuseTransfer \/ PlanTransfer \/ StartCopyPhase PROVE Inv'
  <1> USE DEF Inv
  <1>1. CASE StartTransfer
    <2>1. /\ pc = "Idle" /\ pc' = "Plan" /\ reg' = "Running" /\ mem' = disk /\ mem = NoState
          /\ session' \in Session /\ session'.cmd = "transfer"
          /\ UNCHANGED <<src, dst, disk, ledger, cur, todo, whole>>
      BY <1>1, SessionsAssumption DEF StartTransfer, files, Checkpointed
    <2>2. TypeOK'
      BY <2>1 DEF TypeOK, RegistryStatus, Control
    <2>3. Checkpointed'
      BY <2>1 DEF Checkpointed, AtWork, IsTransfer, IsResume
    <2>4. StatesSound'
      BY <2>1 DEF StatesSound, StateSound, PassedIntact, Delivered, FullyListed
    <2>5. SourceSound'
      BY <2>1 DEF SourceSound, BeforeDeletion, FullyApproved, Delivered
    <2>6. LoopSound'
      BY <2>1 DEF LoopSound, BatchWork, BeforeDeletion, IsTransfer, IsResume, CopiedOrFailed,
         Standing, Verified
    <2>7. RegistrySound'
      BY <2>1 DEF RegistrySound, HasActiveEntry, CompletedMeansMoved, AllDeleted, IsTransfer
    <2>8. QED
      BY <2>2, <2>3, <2>4, <2>5, <2>6, <2>7
  <1>2. CASE StartResume
    <2>1. /\ pc = "Idle" /\ pc' \in {"Error", "Copy"} /\ mem' = disk /\ mem = NoState
          /\ disk # NoState /\ src = File /\ cur' = 1
          /\ session' \in Session /\ session'.cmd = "resume" /\ session'.cmd # "transfer"
          /\ reg' = IF HasActiveEntry THEN "Running" ELSE reg
          /\ UNCHANGED <<src, dst, disk, ledger, todo, whole>>
      BY <1>2, SessionsAssumption DEF StartResume, files, Checkpointed, ManifestMatches,
         SetStatus
    <2>2. TypeOK'
      BY <2>1, NumBatchesAssumption DEF TypeOK, RegistryStatus, Control, HasActiveEntry
    <2>3. Checkpointed'
      BY <2>1 DEF Checkpointed, AtWork, IsTransfer, IsResume
    <2>4. StatesSound'
      BY <2>1 DEF StatesSound, StateSound, PassedIntact, Delivered, FullyListed
    <2>5. SourceSound'
      BY <2>1 DEF SourceSound, BeforeDeletion, FullyApproved, Delivered
    <2>6. LoopSound'
      BY <2>1, NumBatchesAssumption DEF LoopSound, BatchWork, BeforeDeletion, IsTransfer,
         IsResume, Batch, CopiedOrFailed, Standing, Verified
    <2>7. RegistrySound'
      BY <2>1, FileAssumption DEF RegistrySound, HasActiveEntry, CompletedMeansMoved,
         AllDeleted, IsTransfer
    <2>8. QED
      BY <2>2, <2>3, <2>4, <2>5, <2>6, <2>7
  <1>3. CASE RefuseTransfer
    <2>1. /\ pc = "Plan" /\ pc' = "Error" /\ IsTransfer
          /\ UNCHANGED <<src, dst, disk, ledger, reg, session, mem, cur, todo, whole>>
      BY <1>3 DEF RefuseTransfer, durable, Checkpointed
    <2>2. TypeOK'
      BY <2>1 DEF TypeOK, RegistryStatus, Control
    <2>3. Checkpointed'
      BY <2>1 DEF Checkpointed, AtWork, IsTransfer, IsResume
    <2>4. StatesSound'
      BY <2>1 DEF StatesSound, StateSound, PassedIntact, Delivered, FullyListed
    <2>5. SourceSound'
      BY <2>1 DEF SourceSound, BeforeDeletion, FullyApproved, Delivered
    <2>6. LoopSound'
      BY <2>1 DEF LoopSound, BatchWork, BeforeDeletion, IsTransfer, IsResume, CopiedOrFailed,
         Standing, Verified
    <2>7. RegistrySound'
      BY <2>1 DEF RegistrySound, HasActiveEntry, CompletedMeansMoved, AllDeleted, IsTransfer
    <2>8. QED
      BY <2>2, <2>3, <2>4, <2>5, <2>6, <2>7
  <1>4. CASE PlanTransfer
    <2>1. /\ pc = "Plan" /\ pc' = "StartCopy" /\ IsTransfer /\ src = File
          /\ mem' \in StateRecord /\ disk' = mem' /\ mem' # NoState
          /\ mem = NoState => \A b \in Batch : mem'.batch[b] = PlannedBatch
          /\ mem # NoState => mem' = mem
          /\ UNCHANGED <<src, dst, ledger, reg, session, cur, todo, whole>>
      BY <1>4, FreshFacts, NoStateAssumption DEF PlanTransfer, Persist, files, Checkpointed,
         SourceSound, ManifestMatches, TypeOK, Delivered
    <2>2. TypeOK'
      BY <2>1 DEF TypeOK, RegistryStatus, Control
    <2>3. Checkpointed'
      BY <2>1 DEF Checkpointed, AtWork, IsTransfer, IsResume
    <2>4. StatesSound'
      BY <2>1 DEF StatesSound, StateSound, PassedIntact, PlannedBatch, Delivered, FullyListed
    <2>5. SourceSound'
      BY <2>1 DEF SourceSound, BeforeDeletion, FullyApproved, Delivered
    <2>6. LoopSound'
      BY <2>1 DEF LoopSound, BatchWork, BeforeDeletion, IsTransfer, IsResume, CopiedOrFailed,
         Standing, Verified
    <2>7. RegistrySound'
      BY <2>1 DEF RegistrySound, HasActiveEntry, CompletedMeansMoved, AllDeleted, IsTransfer
    <2>8. QED
      BY <2>2, <2>3, <2>4, <2>5, <2>6, <2>7
  <1>5. CASE StartCopyPhase
    <2>1. /\ pc = "StartCopy" /\ pc' = "Copy" /\ cur' = 1
          /\ mem' \in StateRecord /\ disk' = mem' /\ mem' # NoState /\ mem'.batch = mem.batch
          /\ mem # NoState
          /\ UNCHANGED <<src, dst, ledger, reg, session, todo, whole>>
      BY <1>5, PhaseFacts, NoStateAssumption DEF StartCopyPhase, Persist, files, Checkpointed,
         AtWork, TypeOK, MigrationPhase
    <2>2. TypeOK'
      BY <2>1, NumBatchesAssumption DEF TypeOK, RegistryStatus, Control
    <2>3. Checkpointed'
      BY <2>1 DEF Checkpointed, AtWork, IsTransfer, IsResume
    <2>4. StatesSound'
      BY <2>1 DEF StatesSound, StateSound, PassedIntact, Delivered, FullyListed
    <2>5. SourceSound'
      BY <2>1 DEF SourceSound, BeforeDeletion, FullyApproved, Delivered
    <2>6. LoopSound'
      BY <2>1, NumBatchesAssumption DEF LoopSound, BatchWork, BeforeDeletion, IsTransfer,
         IsResume, Batch, CopiedOrFailed, Standing, Verified
    <2>7. RegistrySound'
      BY <2>1 DEF RegistrySound, HasActiveEntry, CompletedMeansMoved, AllDeleted, IsTransfer
    <2>8. QED
      BY <2>2, <2>3, <2>4, <2>5, <2>6, <2>7
  <1>6. QED
    BY <1>1, <1>2, <1>3, <1>4, <1>5

(* A copy begins of a batch without an intact pass, and a resume's writes  *)
(* only where the listing showed nothing.                                  *)
LEMMA BegunCopies ==
    ASSUME Inv, BeginCopy \/ BeginSubsetCopy
    PROVE  /\ Drift \/ ~ mem.batch[cur].passed \/ ~ FullyListed(cur)
           /\ IsResume => \A f \in todo' \ Unlisted : dst[f] = "Absent"
  <1>1. cur \in Batch /\ mem # NoState
    BY DEF Inv, Checkpointed, AtWork, BeginCopy, BeginSubsetCopy, Copying
  <1>2. ASSUME ~ Drift, mem.batch[cur].passed, FullyListed(cur)
        PROVE  FALSE
    <2>1. /\ Conflicts(cur) = {FilesOf(cur)} /\ FilesOf(cur) # {}
          /\ mem.batch[cur].phase # "CopyStarted"
      BY <1>1, <1>2, PassedConflicts
    <2>2. QED
      BY <2>1 DEF BeginCopy, BeginSubsetCopy, ChecksConflicts
  <1>3. ASSUME IsResume, NEW f \in todo' \ Unlisted
        PROVE  dst[f] = "Absent"
    <2>1. PICK found \in Conflicts(cur) : todo' = FilesOf(cur) \ found
      <3>1. CASE BeginCopy
        BY <1>3, <3>1 DEF BeginCopy, BeginCopying, ChecksConflicts
      <3>2. CASE BeginSubsetCopy
        BY <3>2 DEF BeginSubsetCopy, BeginCopying
      <3>3. QED
        BY <3>1, <3>2
    <2>2. QED
      BY <1>3, <2>1 DEF Conflicts, Occupied
  <1>4. QED
    BY <1>2, <1>3

(* The steps that copy preserve the invariant. *)
LEMMA CopyStepInv == ASSUME Inv, CopyStep PROVE Inv'
  <1> USE DEF Inv
  <1>1. CASE SkipCopiedBatch
    <2>1. /\ pc = "Copy" /\ pc' = "Copy" /\ cur \in Batch /\ cur' = cur + 1
          /\ UNCHANGED <<src, dst, disk, ledger, reg, session, mem, todo, whole>>
      BY <1>1 DEF SkipCopiedBatch, Copying, durable
    <2>a. mem # NoState /\ StateSound(mem) /\ mem.batch[cur] \in BatchRecord
      BY <2>1 DEF Checkpointed, AtWork, StatesSound, TypeOK, StateRecord
    <2>b. IsResume => Verified(mem, cur)
      BY <1>1, <2>1, <2>a DEF SkipCopiedBatch, NextStep, PlanResumeStep, StateSound, IsTransfer,
         IsResume, BatchRecord, BatchPhase, VerifiedPhase, Verified
    <2>c. IsTransfer => CopiedOrFailed(cur)
      BY <1>1 DEF SkipCopiedBatch, AlreadyCopied, Ready, CopiedOrFailed, Standing
    <2>2. TypeOK'
      BY <2>1, NumBatchesAssumption DEF TypeOK, RegistryStatus, Control, Batch
    <2>3. Checkpointed'
      BY <2>1 DEF Checkpointed, AtWork, IsTransfer, IsResume
    <2>4. StatesSound'
      BY <2>1 DEF StatesSound, StateSound, PassedIntact, Delivered, FullyListed
    <2>5. SourceSound'
      BY <2>1 DEF SourceSound, BeforeDeletion, FullyApproved, Delivered
    <2>6. LoopSound'
      BY <2>1, <2>b, <2>c, NumBatchesAssumption DEF LoopSound, BatchWork, BeforeDeletion,
         IsTransfer, IsResume, Batch, CopiedOrFailed, Standing, Verified
    <2>7. RegistrySound'
      BY <2>1 DEF RegistrySound, HasActiveEntry, CompletedMeansMoved, AllDeleted, IsTransfer
    <2>8. QED
      BY <2>2, <2>3, <2>4, <2>5, <2>6, <2>7
  <1>2. CASE ResumeNeedsReview
    <2>1. /\ pc = "Copy" /\ pc' = "Error" /\ IsResume
          /\ UNCHANGED <<src, dst, disk, ledger, reg, session, mem, cur, todo, whole>>
      BY <1>2 DEF ResumeNeedsReview, Copying, durable
    <2>2. TypeOK'
      BY <2>1 DEF TypeOK, RegistryStatus, Control
    <2>3. Checkpointed'
      BY <2>1 DEF Checkpointed, AtWork, IsTransfer, IsResume
    <2>4. StatesSound'
      BY <2>1 DEF StatesSound, StateSound, PassedIntact, Delivered, FullyListed
    <2>5. SourceSound'
      BY <2>1 DEF SourceSound, BeforeDeletion, FullyApproved, Delivered
    <2>6. LoopSound'
      BY <2>1 DEF LoopSound, BatchWork, BeforeDeletion, IsTransfer, IsResume, CopiedOrFailed,
         Standing, Verified
    <2>7. RegistrySound'
      BY <2>1 DEF RegistrySound, HasActiveEntry, CompletedMeansMoved, AllDeleted, IsTransfer
    <2>8. QED
      BY <2>2, <2>3, <2>4, <2>5, <2>6, <2>7
  <1>3. CASE ResumeVerifiesBatch
    <2>1. /\ pc = "Copy" /\ pc' = "Verify" /\ IsResume /\ cur \in Batch
          /\ UNCHANGED <<src, dst, disk, ledger, reg, session, mem, cur, todo, whole>>
      BY <1>3 DEF ResumeVerifiesBatch, Copying, durable
    <2>a. Standing(cur)
      BY <1>3 DEF ResumeVerifiesBatch, NextStep, PlanResumeStep, Ready, Standing
    <2>2. TypeOK'
      BY <2>1 DEF TypeOK, RegistryStatus, Control
    <2>3. Checkpointed'
      BY <2>1 DEF Checkpointed, AtWork, IsTransfer, IsResume
    <2>4. StatesSound'
      BY <2>1 DEF StatesSound, StateSound, PassedIntact, Delivered, FullyListed
    <2>5. SourceSound'
      BY <2>1 DEF SourceSound, BeforeDeletion, FullyApproved, Delivered
    <2>6. LoopSound'
      BY <2>1, <2>a DEF LoopSound, BatchWork, BeforeDeletion, IsTransfer, IsResume,
         CopiedOrFailed, Standing, Verified
    <2>7. RegistrySound'
      BY <2>1 DEF RegistrySound, HasActiveEntry, CompletedMeansMoved, AllDeleted, IsTransfer
    <2>8. QED
      BY <2>2, <2>3, <2>4, <2>5, <2>6, <2>7
  <1>4. CASE BeginCopy
    <2> DEFINE r == [mem.batch[cur] EXCEPT !.phase = "CopyStarted"]
    <2>a. /\ cur \in Batch /\ mem \in StateRecord /\ mem # NoState /\ disk = mem
          /\ mem.batch[cur] \in BatchRecord
          /\ pc = "Copy"
          /\ src = File /\ ~ mem.batch[cur].deleted
      BY <1>4, NonEmptyBatches DEF Inv, SourceSound, BeforeDeletion, StatesSound, StateSound,
         FilesOf, BeginCopy, Copying, ChecksConflicts, Checkpointed, AtWork, TypeOK,
         StateRecord, Delivered
    <2>b. /\ r \in BatchRecord /\ r.phase = "CopyStarted" /\ r.passed = mem.batch[cur].passed
          /\ r.deleted = mem.batch[cur].deleted /\ r.approved = mem.batch[cur].approved
      BY <2>a DEF BatchRecord, BatchPhase
    <2>c. mem' = UpsertBatch(mem, cur, r) /\ disk' = mem'
      BY <1>4 DEF BeginCopy, BeginCopying, Persist, SetPhase
    <2> HIDE DEF r
    <2>e. /\ mem' \in StateRecord /\ mem' # NoState /\ disk' = mem' /\ mem'.phase = mem.phase
          /\ mem'.batch[cur] = r
          /\ \A c \in Batch : c # cur => mem'.batch[c] = mem.batch[c]
      BY <2>a, <2>b, <2>c, UpsertFacts, NoStateAssumption
    <2>d. /\ mem' \in StateRecord /\ mem' # NoState /\ disk' = mem' /\ mem'.phase = mem.phase
          /\ mem'.batch[cur].phase = "CopyStarted"
          /\ mem'.batch[cur].passed = mem.batch[cur].passed
          /\ mem'.batch[cur].deleted = mem.batch[cur].deleted
          /\ mem'.batch[cur].approved = mem.batch[cur].approved
          /\ \A c \in Batch : c # cur => mem'.batch[c] = mem.batch[c]
      BY <2>b, <2>e
    <2>1. /\ pc' = "CopyFiles" /\ todo' = FilesOf(cur) /\ whole'
          /\ whole' \in BOOLEAN
          /\ UNCHANGED <<src, dst, ledger, reg, session, cur>>
      BY <1>4, <2>a DEF BeginCopy, BeginCopying, files
    <2>f. /\ Drift \/ ~ mem.batch[cur].passed \/ ~ FullyListed(cur)
          /\ IsResume => \A f \in todo' \ Unlisted : dst[f] = "Absent"
      BY <1>4, BegunCopies
    <2>2. TypeOK'
      BY <2>a, <2>d, <2>1 DEF TypeOK, RegistryStatus, Control, FilesOf
    <2>3. Checkpointed'
      BY <2>a, <2>d, <2>1 DEF Checkpointed, AtWork, IsTransfer, IsResume
    <2>4. StatesSound'
      BY <2>a, <2>d, <2>1, <2>f DEF StatesSound, StateSound, PassedIntact, Delivered,
         FullyListed, VerifiedPhase
    <2>5. SourceSound'
      BY <2>a, <2>d, <2>1 DEF SourceSound, BeforeDeletion, FullyApproved, Delivered
    <2>6. LoopSound'
      BY <2>a, <2>d, <2>1, <2>f, NumBatchesAssumption DEF LoopSound, BatchWork, BeforeDeletion,
         IsTransfer, IsResume, FilesOf, Batch, CopiedOrFailed, Standing, Verified
    <2>7. RegistrySound'
      BY <2>a, <2>d, <2>1 DEF RegistrySound, HasActiveEntry, CompletedMeansMoved, AllDeleted,
         IsTransfer
    <2>8. QED
      BY <2>2, <2>3, <2>4, <2>5, <2>6, <2>7
  <1>5. CASE BeginSubsetCopy
    <2> DEFINE r == [mem.batch[cur] EXCEPT !.phase = "CopyStarted"]
    <2>a. /\ cur \in Batch /\ mem \in StateRecord /\ mem # NoState /\ disk = mem
          /\ mem.batch[cur] \in BatchRecord
          /\ pc = "Copy"
          /\ src = File /\ ~ mem.batch[cur].deleted
      BY <1>5, NonEmptyBatches DEF Inv, SourceSound, BeforeDeletion, StatesSound, StateSound,
         FilesOf, BeginSubsetCopy, Copying, ChecksConflicts, Checkpointed, AtWork, TypeOK,
         StateRecord, Delivered
    <2>b. /\ r \in BatchRecord /\ r.phase = "CopyStarted" /\ r.passed = mem.batch[cur].passed
          /\ r.deleted = mem.batch[cur].deleted /\ r.approved = mem.batch[cur].approved
      BY <2>a DEF BatchRecord, BatchPhase
    <2>c. mem' = UpsertBatch(mem, cur, r) /\ disk' = mem'
      BY <1>5 DEF BeginSubsetCopy, BeginCopying, Persist, SetPhase
    <2> HIDE DEF r
    <2>e. /\ mem' \in StateRecord /\ mem' # NoState /\ disk' = mem' /\ mem'.phase = mem.phase
          /\ mem'.batch[cur] = r
          /\ \A c \in Batch : c # cur => mem'.batch[c] = mem.batch[c]
      BY <2>a, <2>b, <2>c, UpsertFacts, NoStateAssumption
    <2>d. /\ mem' \in StateRecord /\ mem' # NoState /\ disk' = mem' /\ mem'.phase = mem.phase
          /\ mem'.batch[cur].phase = "CopyStarted"
          /\ mem'.batch[cur].passed = mem.batch[cur].passed
          /\ mem'.batch[cur].deleted = mem.batch[cur].deleted
          /\ mem'.batch[cur].approved = mem.batch[cur].approved
          /\ \A c \in Batch : c # cur => mem'.batch[c] = mem.batch[c]
      BY <2>b, <2>e
    <2>1. /\ pc' = "CopyFiles" /\ todo' \subseteq FilesOf(cur) /\ ~ whole'
          /\ whole' \in BOOLEAN
          /\ UNCHANGED <<src, dst, ledger, reg, session, cur>>
      BY <1>5, <2>a DEF BeginSubsetCopy, BeginCopying, files
    <2>f. /\ Drift \/ ~ mem.batch[cur].passed \/ ~ FullyListed(cur)
          /\ IsResume => \A f \in todo' \ Unlisted : dst[f] = "Absent"
      BY <1>5, BegunCopies
    <2>2. TypeOK'
      BY <2>a, <2>d, <2>1 DEF TypeOK, RegistryStatus, Control, FilesOf
    <2>3. Checkpointed'
      BY <2>a, <2>d, <2>1 DEF Checkpointed, AtWork, IsTransfer, IsResume
    <2>4. StatesSound'
      BY <2>a, <2>d, <2>1, <2>f DEF StatesSound, StateSound, PassedIntact, Delivered,
         FullyListed, VerifiedPhase
    <2>5. SourceSound'
      BY <2>a, <2>d, <2>1 DEF SourceSound, BeforeDeletion, FullyApproved, Delivered
    <2>6. LoopSound'
      BY <2>a, <2>d, <2>1, <2>f, NumBatchesAssumption DEF LoopSound, BatchWork, BeforeDeletion,
         IsTransfer, IsResume, FilesOf, Batch, CopiedOrFailed, Standing, Verified
    <2>7. RegistrySound'
      BY <2>a, <2>d, <2>1 DEF RegistrySound, HasActiveEntry, CompletedMeansMoved, AllDeleted,
         IsTransfer
    <2>8. QED
      BY <2>2, <2>3, <2>4, <2>5, <2>6, <2>7
  <1>6. CASE SkipConflictingBatch
    <2> DEFINE r == [mem.batch[cur] EXCEPT !.phase = "Failed", !.passed = FALSE]
    <2>a. /\ cur \in Batch /\ mem \in StateRecord /\ mem # NoState /\ disk = mem
          /\ mem.batch[cur] \in BatchRecord
          /\ src = File
          /\ ~ mem.batch[cur].deleted
          /\ pc \in {"Copy", "MarkConflict"}
      BY <1>6, NonEmptyBatches DEF SkipConflictingBatch, Copying, SourceSound, BeforeDeletion,
         StatesSound, StateSound, PassedIntact, FilesOf, Checkpointed, AtWork, TypeOK,
         StateRecord, Delivered, FullyListed
    <2>b. /\ r \in BatchRecord /\ r.phase = "Failed" /\ r.passed = FALSE
          /\ r.deleted = mem.batch[cur].deleted /\ r.approved = mem.batch[cur].approved
      BY <2>a DEF BatchRecord, BatchPhase
    <2>c. mem' = UpsertBatch(mem, cur, r) /\ disk' = mem'
      BY <1>6 DEF SkipConflictingBatch, MarkFailedForConflicts, AfterConflict, Persist, SetPhase
    <2> HIDE DEF r
    <2>e. /\ mem' \in StateRecord /\ mem' # NoState /\ disk' = mem' /\ mem'.phase = mem.phase
          /\ mem'.batch[cur] = r
          /\ \A c \in Batch : c # cur => mem'.batch[c] = mem.batch[c]
      BY <2>a, <2>b, <2>c, UpsertFacts, NoStateAssumption
    <2>d. /\ mem' \in StateRecord /\ mem' # NoState /\ disk' = mem' /\ mem'.phase = mem.phase
          /\ mem'.batch[cur].phase = "Failed"
          /\ mem'.batch[cur].passed = FALSE
          /\ mem'.batch[cur].deleted = mem.batch[cur].deleted
          /\ mem'.batch[cur].approved = mem.batch[cur].approved
          /\ \A c \in Batch : c # cur => mem'.batch[c] = mem.batch[c]
      BY <2>b, <2>e
    <2>1. /\ pc' = IF IsTransfer THEN "Copy" ELSE "Error"
          /\ cur' = IF IsTransfer THEN cur + 1 ELSE cur
          /\ src = File
          /\ UNCHANGED <<src, dst, ledger, reg, session, todo, whole>>
      BY <1>6, <2>a DEF SkipConflictingBatch, MarkFailedForConflicts, AfterConflict, files
    <2>2. TypeOK'
      BY <2>a, <2>d, <2>1, NumBatchesAssumption DEF TypeOK, RegistryStatus, Control, Batch
    <2>3. Checkpointed'
      BY <2>a, <2>d, <2>1 DEF Checkpointed, AtWork, IsTransfer, IsResume
    <2>4. StatesSound'
      BY <2>a, <2>d, <2>1, NonEmptyBatches DEF StatesSound, StateSound, PassedIntact, FilesOf,
         Delivered, FullyListed
    <2>5. SourceSound'
      BY <2>a, <2>d, <2>1 DEF SourceSound, BeforeDeletion, FullyApproved, Delivered
    <2>6. LoopSound'
      BY <2>a, <2>d, <2>1, NumBatchesAssumption DEF LoopSound, BatchWork, BeforeDeletion,
         IsTransfer, IsResume, Batch, CopiedOrFailed, Standing, Verified
    <2>7. RegistrySound'
      BY <2>a, <2>d, <2>1 DEF RegistrySound, HasActiveEntry, CompletedMeansMoved, AllDeleted,
         IsTransfer
    <2>8. QED
      BY <2>2, <2>3, <2>4, <2>5, <2>6, <2>7
  <1>7. CASE CopyNextFile
    BY <1>7, CopyFileInv DEF CopyNextFile, TypeOK
  <1>8. CASE FinishCopy
    <2> DEFINE r == [mem.batch[cur] EXCEPT !.phase = "CopyCompleted", !.passed = IsResume /\ @]
    <2>a. /\ cur \in Batch /\ mem \in StateRecord /\ mem # NoState /\ disk = mem
          /\ mem.batch[cur] \in BatchRecord
          /\ pc = "CopyFiles" /\ todo = {}
          /\ src = File /\ ~ mem.batch[cur].deleted
          /\ mem.batch[cur].phase = "CopyStarted"
      BY <1>8, NonEmptyBatches DEF SourceSound, BeforeDeletion, FilesOf, FinishCopy, LoopSound,
         BatchWork, StatesSound, StateSound, PassedIntact, Checkpointed, AtWork, TypeOK,
         StateRecord, Delivered, FullyListed, CopiedOrFailed, Standing, Verified
    <2>f. Drift \/ ~ mem.batch[cur].passed \/ ~ FullyListed(cur)
      BY <2>a DEF StatesSound, PassedIntact
    <2>b. /\ r \in BatchRecord /\ r.phase = "CopyCompleted" /\ r.passed = (IsResume /\ mem.batch[cur].passed)
          /\ r.deleted = mem.batch[cur].deleted /\ r.approved = mem.batch[cur].approved
      BY <2>a DEF BatchRecord, BatchPhase
    <2>c. mem' = UpsertBatch(mem, cur, r) /\ disk' = mem'
      BY <1>8 DEF FinishCopy, Persist, SetPhase
    <2> HIDE DEF r
    <2>e. /\ mem' \in StateRecord /\ mem' # NoState /\ disk' = mem' /\ mem'.phase = mem.phase
          /\ mem'.batch[cur] = r
          /\ \A c \in Batch : c # cur => mem'.batch[c] = mem.batch[c]
      BY <2>a, <2>b, <2>c, UpsertFacts, NoStateAssumption
    <2>d. /\ mem' \in StateRecord /\ mem' # NoState /\ disk' = mem' /\ mem'.phase = mem.phase
          /\ mem'.batch[cur].phase = "CopyCompleted"
          /\ mem'.batch[cur].passed = (IsResume /\ mem.batch[cur].passed)
          /\ mem'.batch[cur].deleted = mem.batch[cur].deleted
          /\ mem'.batch[cur].approved = mem.batch[cur].approved
          /\ \A c \in Batch : c # cur => mem'.batch[c] = mem.batch[c]
      BY <2>b, <2>e
    <2>1. /\ pc' = IF whole THEN "MarkLedger" ELSE "MarkConflict"
          /\ ~ whole' /\ whole' \in BOOLEAN
          /\ UNCHANGED <<src, dst, ledger, reg, session, cur, todo>>
      BY <1>8, <2>a DEF FinishCopy, files
    <2>2. TypeOK'
      BY <2>a, <2>d, <2>1 DEF TypeOK, RegistryStatus, Control
    <2>3. Checkpointed'
      BY <2>a, <2>d, <2>1 DEF Checkpointed, AtWork, IsTransfer, IsResume
    <2>4. StatesSound'
      BY <2>a, <2>d, <2>1, <2>f DEF StatesSound, StateSound, PassedIntact, Delivered,
         FullyListed, VerifiedPhase
    <2>5. SourceSound'
      BY <2>a, <2>d, <2>1 DEF SourceSound, BeforeDeletion, FullyApproved, Delivered
    <2>6. LoopSound'
      BY <2>a, <2>d, <2>1, NumBatchesAssumption DEF LoopSound, BatchWork, BeforeDeletion,
         IsTransfer, IsResume, Batch, CopiedOrFailed, Standing, Verified
    <2>7. RegistrySound'
      BY <2>a, <2>d, <2>1 DEF RegistrySound, HasActiveEntry, CompletedMeansMoved, AllDeleted,
         IsTransfer
    <2>8. QED
      BY <2>2, <2>3, <2>4, <2>5, <2>6, <2>7
  <1>9. CASE MarkLedger
    <2>1. /\ pc = "MarkLedger"
          /\ pc' = IF IsTransfer THEN "Copy" ELSE "Verify"
          /\ cur' = IF IsTransfer THEN cur + 1 ELSE cur
          /\ cur \in Batch
          /\ ledger' = ledger \cup FilesOf(cur)
          /\ UNCHANGED <<src, dst, disk, reg, session, mem, todo, whole>>
      BY <1>9 DEF MarkLedger, LoopSound, BatchWork, files, CopiedOrFailed, Standing, Verified
    <2>2. TypeOK'
      BY <2>1, NumBatchesAssumption DEF TypeOK, RegistryStatus, Control, Batch, FilesOf
    <2>3. Checkpointed'
      BY <2>1 DEF Checkpointed, AtWork, IsTransfer, IsResume
    <2>4. StatesSound'
      BY <2>1 DEF StatesSound, StateSound, PassedIntact, Delivered, FullyListed
    <2>5. SourceSound'
      BY <2>1 DEF SourceSound, BeforeDeletion, FullyApproved, Delivered
    <2>6. LoopSound'
      BY <2>1, NumBatchesAssumption DEF LoopSound, BatchWork, BeforeDeletion, IsTransfer,
         IsResume, Batch, CopiedOrFailed, Standing, Verified
    <2>7. RegistrySound'
      BY <2>1 DEF RegistrySound, HasActiveEntry, CompletedMeansMoved, AllDeleted, IsTransfer
    <2>8. QED
      BY <2>2, <2>3, <2>4, <2>5, <2>6, <2>7
  <1>10. CASE MarkConflict
    <2> DEFINE r == [mem.batch[cur] EXCEPT !.phase = "Failed", !.passed = FALSE]
    <2>a. /\ cur \in Batch /\ mem \in StateRecord /\ mem # NoState /\ disk = mem
          /\ mem.batch[cur] \in BatchRecord
          /\ src = File
          /\ ~ mem.batch[cur].deleted
          /\ pc \in {"Copy", "MarkConflict"}
      BY <1>10, NonEmptyBatches DEF MarkConflict, LoopSound, BatchWork, SourceSound,
         BeforeDeletion, StatesSound, StateSound, PassedIntact, FilesOf, Checkpointed, AtWork,
         TypeOK, StateRecord, Delivered, FullyListed, CopiedOrFailed, Standing, Verified
    <2>b. /\ r \in BatchRecord /\ r.phase = "Failed" /\ r.passed = FALSE
          /\ r.deleted = mem.batch[cur].deleted /\ r.approved = mem.batch[cur].approved
      BY <2>a DEF BatchRecord, BatchPhase
    <2>c. mem' = UpsertBatch(mem, cur, r) /\ disk' = mem'
      BY <1>10 DEF MarkConflict, MarkFailedForConflicts, AfterConflict, Persist, SetPhase
    <2> HIDE DEF r
    <2>e. /\ mem' \in StateRecord /\ mem' # NoState /\ disk' = mem' /\ mem'.phase = mem.phase
          /\ mem'.batch[cur] = r
          /\ \A c \in Batch : c # cur => mem'.batch[c] = mem.batch[c]
      BY <2>a, <2>b, <2>c, UpsertFacts, NoStateAssumption
    <2>d. /\ mem' \in StateRecord /\ mem' # NoState /\ disk' = mem' /\ mem'.phase = mem.phase
          /\ mem'.batch[cur].phase = "Failed"
          /\ mem'.batch[cur].passed = FALSE
          /\ mem'.batch[cur].deleted = mem.batch[cur].deleted
          /\ mem'.batch[cur].approved = mem.batch[cur].approved
          /\ \A c \in Batch : c # cur => mem'.batch[c] = mem.batch[c]
      BY <2>b, <2>e
    <2>1. /\ pc' = IF IsTransfer THEN "Copy" ELSE "Error"
          /\ cur' = IF IsTransfer THEN cur + 1 ELSE cur
          /\ src = File
          /\ UNCHANGED <<src, dst, ledger, reg, session, todo, whole>>
      BY <1>10, <2>a DEF MarkConflict, MarkFailedForConflicts, AfterConflict, files
    <2>2. TypeOK'
      BY <2>a, <2>d, <2>1, NumBatchesAssumption DEF TypeOK, RegistryStatus, Control, Batch
    <2>3. Checkpointed'
      BY <2>a, <2>d, <2>1 DEF Checkpointed, AtWork, IsTransfer, IsResume
    <2>4. StatesSound'
      BY <2>a, <2>d, <2>1, NonEmptyBatches DEF StatesSound, StateSound, PassedIntact, FilesOf,
         Delivered, FullyListed
    <2>5. SourceSound'
      BY <2>a, <2>d, <2>1 DEF SourceSound, BeforeDeletion, FullyApproved, Delivered
    <2>6. LoopSound'
      BY <2>a, <2>d, <2>1, NumBatchesAssumption DEF LoopSound, BatchWork, BeforeDeletion,
         IsTransfer, IsResume, Batch, CopiedOrFailed, Standing, Verified
    <2>7. RegistrySound'
      BY <2>a, <2>d, <2>1 DEF RegistrySound, HasActiveEntry, CompletedMeansMoved, AllDeleted,
         IsTransfer
    <2>8. QED
      BY <2>2, <2>3, <2>4, <2>5, <2>6, <2>7
  <1>11. QED
    BY <1>1, <1>2, <1>3, <1>4, <1>5, <1>6, <1>7, <1>8, <1>9, <1>10 DEF CopyStep

(* So do the steps of verification, up to the delete phase ... *)
LEMMA VerifyStepInv == ASSUME Inv, VerifyStep PROVE Inv'
  <1> USE DEF Inv
  <1>1. CASE EndCopyPhase
    <2>1. /\ pc = "Copy" /\ pc' = "StartVerify" /\ IsTransfer /\ cur > NumBatches
          /\ reg' = IF HasActiveEntry THEN "Verifying" ELSE reg
          /\ UNCHANGED <<src, dst, disk, ledger, session, mem, cur, todo, whole>>
      BY <1>1 DEF EndCopyPhase, files, SetStatus
    <2>2. TypeOK'
      BY <2>1 DEF TypeOK, RegistryStatus, Control, HasActiveEntry
    <2>3. Checkpointed'
      BY <2>1 DEF Checkpointed, AtWork, IsTransfer, IsResume
    <2>4. StatesSound'
      BY <2>1 DEF StatesSound, StateSound, PassedIntact, Delivered, FullyListed
    <2>5. SourceSound'
      BY <2>1 DEF SourceSound, BeforeDeletion, FullyApproved, Delivered
    <2>6. LoopSound'
      BY <2>1, NumBatchesAssumption DEF LoopSound, BatchWork, BeforeDeletion, IsTransfer,
         IsResume, TypeOK, Batch, CopiedOrFailed, Standing, Verified
    <2>7. RegistrySound'
      BY <2>1 DEF RegistrySound, HasActiveEntry, CompletedMeansMoved, AllDeleted, IsTransfer
    <2>8. QED
      BY <2>2, <2>3, <2>4, <2>5, <2>6, <2>7
  <1>2. CASE StartVerifyPhase
    <2>1. /\ pc = "StartVerify" /\ pc' = "Verify" /\ cur' = 1
          /\ mem' \in StateRecord /\ disk' = mem' /\ mem' # NoState /\ mem'.batch = mem.batch
          /\ mem # NoState
          /\ UNCHANGED <<src, dst, ledger, reg, session, todo, whole>>
      BY <1>2, PhaseFacts, NoStateAssumption DEF StartVerifyPhase, Persist, files, Checkpointed,
         AtWork, TypeOK, MigrationPhase
    <2>2. TypeOK'
      BY <2>1, NumBatchesAssumption DEF TypeOK, RegistryStatus, Control
    <2>3. Checkpointed'
      BY <2>1 DEF Checkpointed, AtWork, IsTransfer, IsResume
    <2>4. StatesSound'
      BY <2>1 DEF StatesSound, StateSound, PassedIntact, Delivered, FullyListed
    <2>5. SourceSound'
      BY <2>1 DEF SourceSound, BeforeDeletion, FullyApproved, Delivered
    <2>6. LoopSound'
      BY <2>1, NumBatchesAssumption DEF LoopSound, BatchWork, BeforeDeletion, IsTransfer,
         IsResume, Batch, CopiedOrFailed, Standing, Verified
    <2>7. RegistrySound'
      BY <2>1 DEF RegistrySound, HasActiveEntry, CompletedMeansMoved, AllDeleted, IsTransfer
    <2>8. QED
      BY <2>2, <2>3, <2>4, <2>5, <2>6, <2>7
  <1>3. CASE SkipVerification
    <2>1. /\ pc = "Verify" /\ pc' = "Verify" /\ cur \in Batch /\ cur' = cur + 1 /\ IsTransfer
          /\ UNCHANGED <<src, dst, disk, ledger, reg, session, mem, todo, whole>>
      BY <1>3 DEF SkipVerification, Verifying, SkipsVerification, durable
    <2>a. Verified(mem, cur) \/ mem.batch[cur].phase = "Failed"
      BY <1>3, <2>1 DEF SkipVerification, SkipsVerification, StatesSound, StateSound,
         Checkpointed, AtWork, Verified, VerifiedPhase
    <2>2. TypeOK'
      BY <2>1, NumBatchesAssumption DEF TypeOK, RegistryStatus, Control, Batch
    <2>3. Checkpointed'
      BY <2>1 DEF Checkpointed, AtWork, IsTransfer, IsResume
    <2>4. StatesSound'
      BY <2>1 DEF StatesSound, StateSound, PassedIntact, Delivered, FullyListed
    <2>5. SourceSound'
      BY <2>1 DEF SourceSound, BeforeDeletion, FullyApproved, Delivered
    <2>6. LoopSound'
      BY <2>1, <2>a, NumBatchesAssumption DEF LoopSound, BatchWork, BeforeDeletion, IsTransfer,
         IsResume, Batch, CopiedOrFailed, Standing, Verified
    <2>7. RegistrySound'
      BY <2>1 DEF RegistrySound, HasActiveEntry, CompletedMeansMoved, AllDeleted, IsTransfer
    <2>8. QED
      BY <2>2, <2>3, <2>4, <2>5, <2>6, <2>7
  <1>4. CASE VerifyBatch
    <2> DEFINE r == [mem.batch[cur] EXCEPT !.phase = "VerifyCompleted", !.passed = VerifyPasses(cur)]
    <2>a. /\ cur \in Batch /\ mem \in StateRecord /\ mem # NoState /\ disk = mem
          /\ mem.batch[cur] \in BatchRecord
          /\ pc = "Verify" /\ src = File /\ ~ mem.batch[cur].deleted
          /\ VerifyPasses(cur) \in BOOLEAN
      BY <1>4, NonEmptyBatches DEF VerifyBatch, Verifying, VerifyPasses, SourceSound,
         BeforeDeletion, StatesSound, StateSound, FilesOf, Checkpointed, AtWork, TypeOK,
         StateRecord
    <2>f. Standing(cur)
      <3>1. CASE IsResume
        BY <2>a, <3>1 DEF LoopSound
      <3>2. CASE IsTransfer
        <4>1. CopiedOrFailed(cur)
          BY <2>a, <3>2 DEF LoopSound
        <4>2. mem.batch[cur].phase # "Failed"
          BY <1>4, <3>2 DEF VerifyBatch, SkipsVerification
        <4>3. QED
          BY <2>a, <4>1, <4>2 DEF CopiedOrFailed
      <3>3. QED
        BY <2>a, <3>1, <3>2 DEF Checkpointed
    <2>g. VerifyPasses(cur) => \A f \in FilesOf(cur) : Delivered(f)
      BY <2>f DEF VerifyPasses, Standing, Delivered
    <2>b. /\ r \in BatchRecord /\ r.phase = "VerifyCompleted" /\ r.passed = VerifyPasses(cur)
          /\ r.deleted = mem.batch[cur].deleted /\ r.approved = mem.batch[cur].approved
      BY <2>a DEF BatchRecord, BatchPhase
    <2>c. mem' = UpsertBatch(mem, cur, r) /\ disk' = mem'
      BY <1>4 DEF VerifyBatch, RecordVerification, Persist, SetPhase
    <2> HIDE DEF r
    <2>e. /\ mem' \in StateRecord /\ mem' # NoState /\ disk' = mem' /\ mem'.phase = mem.phase
          /\ mem'.batch[cur] = r
          /\ \A c \in Batch : c # cur => mem'.batch[c] = mem.batch[c]
      BY <2>a, <2>b, <2>c, UpsertFacts, NoStateAssumption
    <2>d. /\ mem' \in StateRecord /\ mem' # NoState /\ disk' = mem' /\ mem'.phase = mem.phase
          /\ mem'.batch[cur].phase = "VerifyCompleted"
          /\ mem'.batch[cur].passed = VerifyPasses(cur)
          /\ mem'.batch[cur].deleted = mem.batch[cur].deleted
          /\ mem'.batch[cur].approved = mem.batch[cur].approved
          /\ \A c \in Batch : c # cur => mem'.batch[c] = mem.batch[c]
      BY <2>b, <2>e
    <2>1. /\ pc' = IF ~ VerifyPasses(cur) THEN "DropLedger" ELSE IF IsTransfer THEN "Verify" ELSE "Copy"
          /\ cur' = IF VerifyPasses(cur) THEN cur + 1 ELSE cur
          /\ UNCHANGED <<src, dst, ledger, reg, session, todo, whole>>
      BY <1>4, <2>a DEF VerifyBatch, RecordVerification, files
    <2>2. TypeOK'
      BY <2>a, <2>d, <2>1, NumBatchesAssumption DEF TypeOK, RegistryStatus, Control, Batch
    <2>3. Checkpointed'
      BY <2>a, <2>d, <2>1 DEF Checkpointed, AtWork, IsTransfer, IsResume
    <2>4. StatesSound'
      BY <2>a, <2>d, <2>g, <2>1 DEF StatesSound, StateSound, PassedIntact, Delivered,
         FullyListed, VerifiedPhase
    <2>5. SourceSound'
      BY <2>a, <2>d, <2>1 DEF SourceSound, BeforeDeletion, FullyApproved, Delivered
    <2>6. LoopSound'
      BY <2>a, <2>d, <2>f, <2>1, NumBatchesAssumption DEF LoopSound, BatchWork, BeforeDeletion,
         IsTransfer, IsResume, Batch, CopiedOrFailed, Standing, Verified, VerifiedPhase
    <2>7. RegistrySound'
      BY <2>a, <2>d, <2>1 DEF RegistrySound, HasActiveEntry, CompletedMeansMoved, AllDeleted,
         IsTransfer
    <2>8. QED
      BY <2>2, <2>3, <2>4, <2>5, <2>6, <2>7
  <1>5. CASE DropLedger
    <2>1. /\ pc = "DropLedger" /\ pc' = "Error" /\ ledger' \subseteq ledger
          /\ UNCHANGED <<src, dst, disk, reg, session, mem, cur, todo, whole>>
      BY <1>5 DEF DropLedger, files
    <2>2. TypeOK'
      BY <2>1 DEF TypeOK, RegistryStatus, Control
    <2>3. Checkpointed'
      BY <2>1 DEF Checkpointed, AtWork, IsTransfer, IsResume
    <2>4. StatesSound'
      BY <2>1 DEF StatesSound, StateSound, PassedIntact, Delivered, FullyListed
    <2>5. SourceSound'
      BY <2>1 DEF SourceSound, BeforeDeletion, FullyApproved, Delivered
    <2>6. LoopSound'
      BY <2>1 DEF LoopSound, BatchWork, BeforeDeletion, IsTransfer, IsResume, CopiedOrFailed,
         Standing, Verified
    <2>7. RegistrySound'
      BY <2>1 DEF RegistrySound, HasActiveEntry, CompletedMeansMoved, AllDeleted, IsTransfer
    <2>8. QED
      BY <2>2, <2>3, <2>4, <2>5, <2>6, <2>7
  <1>6. CASE AwaitDeletion
    <2>a. /\ mem \in StateRecord /\ mem # NoState /\ disk = mem
          /\ pc \in {"Verify", "Copy"} /\ cur = NumBatches + 1
          /\ pc = "Verify" <=> IsTransfer
      BY <1>6 DEF AwaitDeletion, BatchesDone, Checkpointed, AtWork, TypeOK, IsTransfer, IsResume
    <2>b. /\ \/ mem' = mem /\ disk' = disk
             \/ mem' = SetMigrationPhase(mem, "AwaitingDeletion") /\ disk' = mem'
          /\ pc' \in {"Error", "Awaiting"}
          /\ UNCHANGED <<src, dst, ledger, reg, session, cur, todo, whole>>
      BY <1>6 DEF AwaitDeletion, Persist, files
    <2>c. "AwaitingDeletion" \in MigrationPhase
      BY DEF MigrationPhase
    <2>1. mem' \in StateRecord /\ disk' = mem' /\ mem' # NoState /\ mem'.batch = mem.batch
      BY <2>a, <2>b, <2>c, PhaseFacts, NoStateAssumption
    <2>2. TypeOK'
      BY <2>a, <2>b, <2>1 DEF TypeOK, RegistryStatus, Control
    <2>3. Checkpointed'
      BY <2>a, <2>b, <2>1 DEF Checkpointed, AtWork, IsTransfer, IsResume
    <2>4. StatesSound'
      BY <2>a, <2>b, <2>1 DEF StatesSound, StateSound, PassedIntact, Delivered, FullyListed
    <2>5. SourceSound'
      BY <2>a, <2>b, <2>1 DEF SourceSound, BeforeDeletion, FullyApproved, Delivered
    <2>6. LoopSound'
      BY <2>a, <2>b, <2>1, NumBatchesAssumption DEF LoopSound, BatchWork, BeforeDeletion,
         IsTransfer, IsResume, Batch, CopiedOrFailed, Standing, Verified
    <2>7. RegistrySound'
      BY <2>a, <2>b, <2>1 DEF RegistrySound, HasActiveEntry, CompletedMeansMoved, AllDeleted,
         IsTransfer
    <2>8. QED
      BY <2>2, <2>3, <2>4, <2>5, <2>6, <2>7
  <1>7. CASE EnterDeletePhase
    <2>1. /\ pc = "Awaiting" /\ pc' \in {"Error", "Delete"}
          /\ reg' = IF HasActiveEntry THEN "AwaitingDeletion" ELSE reg
          /\ pc' = "Delete" => \A b \in Batch : Verified(mem, b)
          /\ UNCHANGED <<src, dst, disk, ledger, session, mem, cur, todo, whole>>
      BY <1>7, NumBatchesAssumption DEF EnterDeletePhase, files, SetStatus,
         OperatorReviewBlocks, FailedBatches, LoopSound, BeforeDeletion, Checkpointed, AtWork,
         StatesSound, StateSound, IsTransfer, IsResume, Batch, Verified, VerifiedPhase
    <2>2. TypeOK'
      BY <2>1 DEF TypeOK, RegistryStatus, Control, HasActiveEntry
    <2>3. Checkpointed'
      BY <2>1 DEF Checkpointed, AtWork, IsTransfer, IsResume
    <2>4. StatesSound'
      BY <2>1 DEF StatesSound, StateSound, PassedIntact, Delivered, FullyListed
    <2>5. SourceSound'
      BY <2>1 DEF SourceSound, BeforeDeletion, FullyApproved, Delivered
    <2>6. LoopSound'
      BY <2>1 DEF LoopSound, BatchWork, BeforeDeletion, IsTransfer, IsResume, CopiedOrFailed,
         Standing, Verified
    <2>7. RegistrySound'
      BY <2>1 DEF RegistrySound, HasActiveEntry, CompletedMeansMoved, AllDeleted, IsTransfer
    <2>8. QED
      BY <2>2, <2>3, <2>4, <2>5, <2>6, <2>7
  <1>8. QED
    BY <1>1, <1>2, <1>3, <1>4, <1>5, <1>6, <1>7 DEF VerifyStep

(* ... those of approval and deletion ... *)
LEMMA DeleteStepInv == ASSUME Inv, DeleteStep PROVE Inv'
  <1> USE DEF Inv
  <1>1. CASE BeginDelete
    <2>1. /\ pc = "Delete" /\ pc' = "DeleteFiles" /\ cur' \in Batch /\ todo' = FilesOf(cur')
          /\ mem.batch[cur'].approved /\ ~ mem.batch[cur'].deleted
          /\ UNCHANGED <<src, dst, disk, ledger, reg, session, mem, whole>>
      BY <1>1 DEF BeginDelete, BatchesApprovedButNotDeleted, durable
    <2>2. TypeOK'
      BY <2>1, NumBatchesAssumption DEF TypeOK, RegistryStatus, Control, Batch, FilesOf
    <2>3. Checkpointed'
      BY <2>1 DEF Checkpointed, AtWork, IsTransfer, IsResume
    <2>4. StatesSound'
      BY <2>1 DEF StatesSound, StateSound, PassedIntact, Delivered, FullyListed
    <2>5. SourceSound'
      BY <2>1 DEF SourceSound, BeforeDeletion, FullyApproved, Delivered
    <2>6. LoopSound'
      BY <2>1 DEF LoopSound, BatchWork, BeforeDeletion, IsTransfer, IsResume, FilesOf,
         CopiedOrFailed, Standing, Verified
    <2>7. RegistrySound'
      BY <2>1 DEF RegistrySound, HasActiveEntry, CompletedMeansMoved, AllDeleted, IsTransfer
    <2>8. QED
      BY <2>2, <2>3, <2>4, <2>5, <2>6, <2>7
  <1>2. CASE RemoveNextFile
    BY <1>2, RemoveFileInv DEF RemoveNextFile, TypeOK
  <1>3. CASE FinishDelete
    <2> DEFINE r == [mem.batch[cur] EXCEPT !.phase = "DeleteCompleted", !.deleted = TRUE]
    <2>a. /\ cur \in Batch /\ mem \in StateRecord /\ mem # NoState /\ disk = mem
          /\ mem.batch[cur] \in BatchRecord
          /\ pc = "DeleteFiles" /\ todo = {}
          /\ mem.batch[cur].approved /\ Verified(mem, cur) /\ FilesOf(cur) \cap src = {}
      BY <1>3 DEF FinishDelete, LoopSound, BatchWork, Checkpointed, AtWork, TypeOK, StateRecord
    <2>b. /\ r \in BatchRecord /\ r.phase = "DeleteCompleted" /\ r.passed = mem.batch[cur].passed
          /\ r.deleted = TRUE /\ r.approved = mem.batch[cur].approved
      BY <2>a DEF BatchRecord, BatchPhase
    <2>c. mem' = UpsertBatch(mem, cur, r) /\ disk' = mem'
      BY <1>3 DEF FinishDelete, Persist, SetPhase
    <2> HIDE DEF r
    <2>e. /\ mem' \in StateRecord /\ mem' # NoState /\ disk' = mem' /\ mem'.phase = mem.phase
          /\ mem'.batch[cur] = r
          /\ \A c \in Batch : c # cur => mem'.batch[c] = mem.batch[c]
      BY <2>a, <2>b, <2>c, UpsertFacts, NoStateAssumption
    <2>d. /\ mem' \in StateRecord /\ mem' # NoState /\ disk' = mem' /\ mem'.phase = mem.phase
          /\ mem'.batch[cur].phase = "DeleteCompleted"
          /\ mem'.batch[cur].passed = mem.batch[cur].passed
          /\ mem'.batch[cur].deleted = TRUE
          /\ mem'.batch[cur].approved = mem.batch[cur].approved
          /\ \A c \in Batch : c # cur => mem'.batch[c] = mem.batch[c]
      BY <2>b, <2>e
    <2>1. /\ pc' = "Delete"
          /\ UNCHANGED <<src, dst, ledger, reg, session, cur, todo, whole>>
      BY <1>3, <2>a DEF FinishDelete, files
    <2>2. TypeOK'
      BY <2>a, <2>d, <2>1 DEF TypeOK, RegistryStatus, Control
    <2>3. Checkpointed'
      BY <2>a, <2>d, <2>1 DEF Checkpointed, AtWork, IsTransfer, IsResume
    <2>4. StatesSound'
      BY <2>a, <2>d, <2>1 DEF StatesSound, StateSound, PassedIntact, Delivered, FullyListed,
         Verified, VerifiedPhase
    <2>5. SourceSound'
      BY <2>a, <2>d, <2>1 DEF SourceSound, BeforeDeletion, FullyApproved, Delivered
    <2>6. LoopSound'
      BY <2>a, <2>d, <2>1 DEF LoopSound, BatchWork, BeforeDeletion, IsTransfer, IsResume,
         CopiedOrFailed, Standing, Verified, VerifiedPhase
    <2>7. RegistrySound'
      BY <2>a, <2>d, <2>1 DEF RegistrySound, HasActiveEntry, CompletedMeansMoved, AllDeleted,
         IsTransfer
    <2>8. QED
      BY <2>2, <2>3, <2>4, <2>5, <2>6, <2>7
  <1>4. CASE Approve
    <2> DEFINE bs == BatchesNeedingApproval(mem)
    <2>a. /\ pc = "Delete" /\ mem \in StateRecord /\ mem # NoState /\ disk = mem
          /\ \A b \in Batch : Verified(mem, b)
      BY <1>4 DEF Approve, AtPrompt, LoopSound, Checkpointed, AtWork, TypeOK
    <2>b. mem' = ApproveBatches(mem, bs) /\ disk' = mem' /\ bs \in SUBSET Batch
      BY <1>4 DEF Approve, Persist, BatchesNeedingApproval
    <2>c. StateSound(mem)
      BY <2>a DEF StatesSound
    <2>d. ASSUME NEW b \in Batch, b \notin bs PROVE mem.batch[b].approved
      BY <2>a, <2>c, <2>d DEF BatchesNeedingApproval, StateSound, Verified
    <2>e. ASSUME NEW b \in bs PROVE ~ mem.batch[b].deleted
      BY DEF BatchesNeedingApproval
    <2>1. pc' = pc /\ UNCHANGED <<src, dst, ledger, reg, session, cur, todo, whole>>
      BY <1>4 DEF Approve, files
    <2> HIDE DEF bs
    <2>f. mem' \in StateRecord /\ mem' # NoState /\ mem'.phase = mem.phase
      BY <2>a, <2>b, ApproveFacts, NoStateAssumption
    <2>g. ASSUME NEW b \in Batch
          PROVE  /\ mem'.batch[b].passed = mem.batch[b].passed
                 /\ mem'.batch[b].deleted = mem.batch[b].deleted
                 /\ b \in bs => mem'.batch[b].approved /\ mem'.batch[b].phase = "ApprovedForDelete"
                 /\ b \notin bs => mem'.batch[b] = mem.batch[b]
      BY <2>a, <2>b, ApproveFacts
    <2>h. ASSUME NEW b \in Batch PROVE mem'.batch[b].approved
      <3>1. CASE b \in bs
        BY <2>g, <3>1
      <3>2. CASE b \notin bs
        BY <2>d, <2>g, <3>2
      <3>3. QED
        BY <3>1, <3>2
    <2>j. ASSUME NEW b \in Batch PROVE mem'.batch[b].passed
      BY <2>a, <2>g, Zenon DEF Verified
    <2>k. ASSUME NEW b \in Batch PROVE mem'.batch[b].phase \in VerifiedPhase
      <3>1. CASE b \in bs
        BY <2>g, <3>1 DEF VerifiedPhase
      <3>2. CASE b \notin bs
        BY <2>a, <2>g, <3>2 DEF Verified
      <3>3. QED
        BY <3>1, <3>2
    <2>i. ASSUME NEW b \in Batch PROVE Verified(mem', b)
      BY <2>j, <2>k, Zenon DEF Verified
    <2>2. TypeOK'
      BY <2>a, <2>b, <2>f, <2>1 DEF TypeOK, RegistryStatus, Control
    <2>3. Checkpointed'
      BY <2>a, <2>b, <2>f, <2>1 DEF Checkpointed, AtWork, IsTransfer, IsResume
    <2>4. StatesSound'
      <3>1. ASSUME NEW b \in Batch, mem'.batch[b].deleted
            PROVE  FilesOf(b) \cap src = {} /\ mem'.batch[b].phase \in {"DeleteCompleted", "SnapshotCompleted"}
        <4>1. mem.batch[b].deleted
          BY <2>g, <3>1, Zenon
        <4>2. mem'.batch[b] = mem.batch[b]
          BY <2>e, <2>g, <4>1
        <4>3. QED
          BY <2>c, <4>1, <4>2 DEF StateSound
      <3>2. ASSUME NEW b \in Batch,
                   mem'.batch[b].phase \in {"DeleteCompleted", "SnapshotCompleted"}
            PROVE  mem'.batch[b].deleted
        <4>1. b \notin bs
          BY <2>g, <3>2
        <4>2. mem'.batch[b] = mem.batch[b]
          BY <2>g, <4>1
        <4>3. QED
          BY <2>c, <3>2, <4>2 DEF StateSound
      <3>3. StateSound(mem)'
        BY <2>1, <2>h, <2>j, <3>1, <3>2 DEF StateSound, FilesOf
      <3>4. CASE ~ Drift
        <4>1. PassedIntact(mem)
          BY <2>a, <3>4 DEF StatesSound
        <4>2. ASSUME NEW b \in Batch PROVE mem'.batch[b].phase # "CopyStarted"
          BY <2>k DEF VerifiedPhase
        <4>3. ASSUME NEW b \in Batch, NEW f \in FilesOf(b) PROVE Delivered(f)'
          <5>1. Delivered(f)
            BY <2>a, <4>1 DEF PassedIntact, Verified
          <5>2. QED
            BY <2>1, <5>1 DEF Delivered
        <4>4. PassedIntact(mem)'
          BY <2>1, <4>2, <4>3 DEF PassedIntact, FilesOf
        <4>5. QED
          BY <2>b, <3>3, <4>4 DEF StatesSound, StateSound, PassedIntact, Delivered, FullyListed
      <3>5. QED
        BY <2>b, <3>3, <3>4 DEF StatesSound, StateSound
    <2>5. SourceSound'
      <3>1. FullyApproved(mem)'
        BY <2>h, <2>j DEF FullyApproved
      <3>2. QED
        BY <2>a, <2>b, <2>f, <2>1, <3>1 DEF SourceSound, BeforeDeletion, FullyApproved,
           Delivered
    <2>6. LoopSound'
      BY <2>a, <2>i, <2>1 DEF LoopSound, BatchWork, BeforeDeletion, IsTransfer, IsResume
    <2>7. RegistrySound'
      BY <2>a, <2>b, <2>f, <2>1 DEF RegistrySound, HasActiveEntry, CompletedMeansMoved,
         AllDeleted, IsTransfer
    <2>8. QED
      BY <2>2, <2>3, <2>4, <2>5, <2>6, <2>7
  <1>5. CASE Decline
    <2>1. /\ pc = "Delete" /\ pc' = "Snapshot" /\ cur' = 1
          /\ UNCHANGED <<src, dst, disk, ledger, reg, session, mem, todo, whole>>
      BY <1>5 DEF Decline, AtPrompt, durable
    <2>2. TypeOK'
      BY <2>1, NumBatchesAssumption DEF TypeOK, RegistryStatus, Control
    <2>3. Checkpointed'
      BY <2>1 DEF Checkpointed, AtWork, IsTransfer, IsResume
    <2>4. StatesSound'
      BY <2>1 DEF StatesSound, StateSound, PassedIntact, Delivered, FullyListed
    <2>5. SourceSound'
      BY <2>1 DEF SourceSound, BeforeDeletion, FullyApproved, Delivered
    <2>6. LoopSound'
      BY <2>1 DEF LoopSound, BatchWork, BeforeDeletion, IsTransfer, IsResume, CopiedOrFailed,
         Standing, Verified
    <2>7. RegistrySound'
      BY <2>1 DEF RegistrySound, HasActiveEntry, CompletedMeansMoved, AllDeleted, IsTransfer
    <2>8. QED
      BY <2>2, <2>3, <2>4, <2>5, <2>6, <2>7
  <1>6. CASE RefuseUnattended
    <2>1. /\ pc = "Delete" /\ pc' = "Error"
          /\ UNCHANGED <<src, dst, disk, ledger, reg, session, mem, cur, todo, whole>>
      BY <1>6 DEF RefuseUnattended, AtPrompt, durable
    <2>2. TypeOK'
      BY <2>1 DEF TypeOK, RegistryStatus, Control
    <2>3. Checkpointed'
      BY <2>1 DEF Checkpointed, AtWork, IsTransfer, IsResume
    <2>4. StatesSound'
      BY <2>1 DEF StatesSound, StateSound, PassedIntact, Delivered, FullyListed
    <2>5. SourceSound'
      BY <2>1 DEF SourceSound, BeforeDeletion, FullyApproved, Delivered
    <2>6. LoopSound'
      BY <2>1 DEF LoopSound, BatchWork, BeforeDeletion, IsTransfer, IsResume, CopiedOrFailed,
         Standing, Verified
    <2>7. RegistrySound'
      BY <2>1 DEF RegistrySound, HasActiveEntry, CompletedMeansMoved, AllDeleted, IsTransfer
    <2>8. QED
      BY <2>2, <2>3, <2>4, <2>5, <2>6, <2>7
  <1>7. CASE DeletionDone
    <2>1. /\ pc = "Delete" /\ pc' = "Snapshot" /\ cur' = 1
          /\ UNCHANGED <<src, dst, disk, ledger, reg, session, mem, todo, whole>>
      BY <1>7 DEF DeletionDone, durable
    <2>2. TypeOK'
      BY <2>1, NumBatchesAssumption DEF TypeOK, RegistryStatus, Control
    <2>3. Checkpointed'
      BY <2>1 DEF Checkpointed, AtWork, IsTransfer, IsResume
    <2>4. StatesSound'
      BY <2>1 DEF StatesSound, StateSound, PassedIntact, Delivered, FullyListed
    <2>5. SourceSound'
      BY <2>1 DEF SourceSound, BeforeDeletion, FullyApproved, Delivered
    <2>6. LoopSound'
      BY <2>1 DEF LoopSound, BatchWork, BeforeDeletion, IsTransfer, IsResume, CopiedOrFailed,
         Standing, Verified
    <2>7. RegistrySound'
      BY <2>1 DEF RegistrySound, HasActiveEntry, CompletedMeansMoved, AllDeleted, IsTransfer
    <2>8. QED
      BY <2>2, <2>3, <2>4, <2>5, <2>6, <2>7
  <1>8. QED
    BY <1>1, <1>2, <1>3, <1>4, <1>5, <1>6, <1>7 DEF DeleteStep

(* ... those that end a command ... *)
LEMMA EndStepInv == ASSUME Inv, EndStep PROVE Inv'
  <1> USE DEF Inv
  <1>1. CASE TakeSnapshot
    <2> DEFINE r == [mem.batch[cur] EXCEPT !.phase = "SnapshotCompleted"]
    <2>a. /\ cur \in Batch /\ mem \in StateRecord /\ mem # NoState /\ disk = mem
          /\ mem.batch[cur] \in BatchRecord
          /\ pc = "Snapshot" /\ mem.batch[cur].deleted
      BY <1>1 DEF TakeSnapshot, Snapshotting, SnapshotDue, Checkpointed, AtWork, TypeOK,
         StateRecord
    <2>b. /\ r \in BatchRecord /\ r.phase = "SnapshotCompleted" /\ r.passed = mem.batch[cur].passed
          /\ r.deleted = mem.batch[cur].deleted /\ r.approved = mem.batch[cur].approved
      BY <2>a DEF BatchRecord, BatchPhase
    <2>c. mem' = UpsertBatch(mem, cur, r) /\ disk' = mem'
      BY <1>1 DEF TakeSnapshot, Snapshotting, Persist, SetPhase
    <2> HIDE DEF r
    <2>e. /\ mem' \in StateRecord /\ mem' # NoState /\ disk' = mem' /\ mem'.phase = mem.phase
          /\ mem'.batch[cur] = r
          /\ \A c \in Batch : c # cur => mem'.batch[c] = mem.batch[c]
      BY <2>a, <2>b, <2>c, UpsertFacts, NoStateAssumption
    <2>d. /\ mem' \in StateRecord /\ mem' # NoState /\ disk' = mem' /\ mem'.phase = mem.phase
          /\ mem'.batch[cur].phase = "SnapshotCompleted"
          /\ mem'.batch[cur].passed = mem.batch[cur].passed
          /\ mem'.batch[cur].deleted = mem.batch[cur].deleted
          /\ mem'.batch[cur].approved = mem.batch[cur].approved
          /\ \A c \in Batch : c # cur => mem'.batch[c] = mem.batch[c]
      BY <2>b, <2>e
    <2>1. /\ pc' = "Snapshot" /\ cur' = cur + 1
          /\ UNCHANGED <<src, dst, ledger, reg, session, todo, whole>>
      BY <1>1, <2>a DEF TakeSnapshot, Snapshotting, files
    <2>2. TypeOK'
      BY <2>a, <2>d, <2>1, NumBatchesAssumption DEF TypeOK, RegistryStatus, Control, Batch
    <2>3. Checkpointed'
      BY <2>a, <2>d, <2>1 DEF Checkpointed, AtWork, IsTransfer, IsResume
    <2>4. StatesSound'
      <3>1. Verified(mem, cur)
        BY <2>a DEF StatesSound, StateSound, Verified, VerifiedPhase
      <3>2. QED
        BY <2>a, <2>d, <2>1, <3>1 DEF StatesSound, StateSound, PassedIntact, Delivered,
           FullyListed, Verified, VerifiedPhase
    <2>5. SourceSound'
      BY <2>a, <2>d, <2>1 DEF SourceSound, BeforeDeletion, FullyApproved, Delivered
    <2>6. LoopSound'
      BY <2>a, <2>d, <2>1 DEF LoopSound, BatchWork, BeforeDeletion, IsTransfer, IsResume,
         CopiedOrFailed, Standing, Verified
    <2>7. RegistrySound'
      BY <2>a, <2>d, <2>1 DEF RegistrySound, HasActiveEntry, CompletedMeansMoved, AllDeleted,
         IsTransfer
    <2>8. QED
      BY <2>2, <2>3, <2>4, <2>5, <2>6, <2>7
  <1>2. CASE PassOverSnapshot
    <2>1. /\ pc = "Snapshot" /\ pc' = "Snapshot" /\ cur \in Batch /\ cur' = cur + 1
          /\ UNCHANGED <<src, dst, disk, ledger, reg, session, mem, todo, whole>>
      BY <1>2 DEF PassOverSnapshot, Snapshotting, durable
    <2>2. TypeOK'
      BY <2>1, NumBatchesAssumption DEF TypeOK, RegistryStatus, Control, Batch
    <2>3. Checkpointed'
      BY <2>1 DEF Checkpointed, AtWork, IsTransfer, IsResume
    <2>4. StatesSound'
      BY <2>1 DEF StatesSound, StateSound, PassedIntact, Delivered, FullyListed
    <2>5. SourceSound'
      BY <2>1 DEF SourceSound, BeforeDeletion, FullyApproved, Delivered
    <2>6. LoopSound'
      BY <2>1 DEF LoopSound, BatchWork, BeforeDeletion, IsTransfer, IsResume, CopiedOrFailed,
         Standing, Verified
    <2>7. RegistrySound'
      BY <2>1 DEF RegistrySound, HasActiveEntry, CompletedMeansMoved, AllDeleted, IsTransfer
    <2>8. QED
      BY <2>2, <2>3, <2>4, <2>5, <2>6, <2>7
  <1>3. CASE RecordFinalPhase
    <2>1. /\ pc = "Snapshot" /\ pc' = "Report"
          /\ mem' \in StateRecord /\ disk' = mem' /\ mem' # NoState /\ mem'.batch = mem.batch
          /\ AllDeleted(mem) => mem'.phase = "Completed"
          /\ mem # NoState /\ disk = mem
          /\ UNCHANGED <<src, dst, ledger, reg, session, cur, todo, whole>>
      BY <1>3, PhaseFacts, NoStateAssumption DEF RecordFinalPhase, Persist, files, Checkpointed,
         AtWork, TypeOK, MigrationPhase
    <2>2. TypeOK'
      BY <2>1 DEF TypeOK, RegistryStatus, Control
    <2>3. Checkpointed'
      BY <2>1 DEF Checkpointed, AtWork, IsTransfer, IsResume
    <2>4. StatesSound'
      BY <2>1 DEF StatesSound, StateSound, PassedIntact, Delivered, FullyListed
    <2>5. SourceSound'
      BY <2>1 DEF SourceSound, BeforeDeletion, FullyApproved, Delivered
    <2>6. LoopSound'
      BY <2>1 DEF LoopSound, BatchWork, BeforeDeletion, IsTransfer, IsResume, CopiedOrFailed,
         Standing, Verified
    <2>7. RegistrySound'
      BY <2>1 DEF RegistrySound, HasActiveEntry, CompletedMeansMoved, AllDeleted, IsTransfer
    <2>8. QED
      BY <2>2, <2>3, <2>4, <2>5, <2>6, <2>7
  <1>4. CASE RecordFinalStatus
    <2>1. /\ pc' = "Idle" /\ mem' = NoState /\ cur' = 1 /\ todo' = {} /\ whole' = FALSE /\ whole' \in BOOLEAN
          /\ session' = NoSession /\ session' \in Session /\ pc # "Idle"
          /\ pc = "Report" /\ mem # NoState /\ disk = mem
          /\ reg' = IF HasActiveEntry THEN (IF AllDeleted(mem) THEN "Completed" ELSE "AwaitingDeletion") ELSE reg
          /\ AllDeleted(mem) => src = {}
          /\ UNCHANGED <<src, dst, disk, ledger>>
      BY <1>4, BatchOfAssumption DEF RecordFinalStatus, EndSession, SetStatus, files, durable,
         NoSession, Session, ConflictPolicy, Checkpointed, AtWork, StatesSound, StateSound,
         PassedIntact, AllDeleted, FilesOf, TypeOK, Delivered, FullyListed
    <2>2. TypeOK'
      BY <2>1, NumBatchesAssumption DEF TypeOK, RegistryStatus, Control, HasActiveEntry
    <2>3. Checkpointed'
      BY <2>1 DEF Checkpointed, AtWork, IsTransfer, IsResume
    <2>4. StatesSound'
      BY <2>1 DEF StatesSound, StateSound, PassedIntact, Delivered, FullyListed
    <2>5. SourceSound'
      BY <2>1 DEF SourceSound, BeforeDeletion, FullyApproved, Delivered
    <2>6. LoopSound'
      BY <2>1 DEF LoopSound, BatchWork, BeforeDeletion, IsTransfer, IsResume, CopiedOrFailed,
         Standing, Verified
    <2>7. RegistrySound'
      BY <2>1 DEF RegistrySound, HasActiveEntry, CompletedMeansMoved, AllDeleted, IsTransfer
    <2>8. QED
      BY <2>2, <2>3, <2>4, <2>5, <2>6, <2>7
  <1>5. CASE FailTransfer
    <2>1. /\ pc' = "Idle" /\ mem' = NoState /\ cur' = 1 /\ todo' = {} /\ whole' = FALSE /\ whole' \in BOOLEAN
          /\ session' = NoSession /\ session' \in Session /\ pc # "Idle"
          /\ reg' = IF HasActiveEntry THEN "Failed" ELSE reg
          /\ UNCHANGED <<src, dst, disk, ledger>>
      BY <1>5 DEF FailTransfer, EndSession, SetStatus, files, durable, NoSession, Session,
         ConflictPolicy
    <2>2. TypeOK'
      BY <2>1, NumBatchesAssumption DEF TypeOK, RegistryStatus, Control, HasActiveEntry
    <2>3. Checkpointed'
      BY <2>1 DEF Checkpointed, AtWork, IsTransfer, IsResume
    <2>4. StatesSound'
      BY <2>1 DEF StatesSound, StateSound, PassedIntact, Delivered, FullyListed
    <2>5. SourceSound'
      BY <2>1 DEF SourceSound, BeforeDeletion, FullyApproved, Delivered
    <2>6. LoopSound'
      BY <2>1 DEF LoopSound, BatchWork, BeforeDeletion, IsTransfer, IsResume, CopiedOrFailed,
         Standing, Verified
    <2>7. RegistrySound'
      BY <2>1 DEF RegistrySound, HasActiveEntry, CompletedMeansMoved, AllDeleted, IsTransfer
    <2>8. QED
      BY <2>2, <2>3, <2>4, <2>5, <2>6, <2>7
  <1>6. CASE FailResume
    <2>1. /\ pc = "Error" /\ pc' = "ReportFailed" /\ IsResume /\ mem # NoState /\ disk # NoState
          /\ disk' = disk \/ disk'.batch = mem.batch
          /\ disk' \in StateRecord /\ disk' # NoState
          /\ UNCHANGED <<src, dst, ledger, reg, session, mem, cur, todo, whole>>
      BY <1>6, PhaseFacts, NoStateAssumption DEF FailResume, files, Checkpointed, TypeOK,
         MigrationPhase
    <2>2. TypeOK'
      BY <2>1 DEF TypeOK, RegistryStatus, Control
    <2>3. Checkpointed'
      BY <2>1 DEF Checkpointed, AtWork, IsTransfer, IsResume
    <2>4. StatesSound'
      BY <2>1 DEF StatesSound, StateSound, PassedIntact, Delivered, FullyListed
    <2>5. SourceSound'
      BY <2>1 DEF SourceSound, BeforeDeletion, FullyApproved, Delivered
    <2>6. LoopSound'
      BY <2>1 DEF LoopSound, BatchWork, BeforeDeletion, IsTransfer, IsResume, CopiedOrFailed,
         Standing, Verified
    <2>7. RegistrySound'
      BY <2>1 DEF RegistrySound, HasActiveEntry, CompletedMeansMoved, AllDeleted, IsTransfer
    <2>8. QED
      BY <2>2, <2>3, <2>4, <2>5, <2>6, <2>7
  <1>7. CASE ReportFailed
    <2>1. /\ pc' = "Idle" /\ mem' = NoState /\ cur' = 1 /\ todo' = {} /\ whole' = FALSE /\ whole' \in BOOLEAN
          /\ session' = NoSession /\ session' \in Session /\ pc # "Idle"
          /\ reg' = IF HasActiveEntry THEN "Failed" ELSE reg
          /\ UNCHANGED <<src, dst, disk, ledger>>
      BY <1>7 DEF ReportFailed, EndSession, SetStatus, files, durable, NoSession, Session,
         ConflictPolicy
    <2>2. TypeOK'
      BY <2>1, NumBatchesAssumption DEF TypeOK, RegistryStatus, Control, HasActiveEntry
    <2>3. Checkpointed'
      BY <2>1 DEF Checkpointed, AtWork, IsTransfer, IsResume
    <2>4. StatesSound'
      BY <2>1 DEF StatesSound, StateSound, PassedIntact, Delivered, FullyListed
    <2>5. SourceSound'
      BY <2>1 DEF SourceSound, BeforeDeletion, FullyApproved, Delivered
    <2>6. LoopSound'
      BY <2>1 DEF LoopSound, BatchWork, BeforeDeletion, IsTransfer, IsResume, CopiedOrFailed,
         Standing, Verified
    <2>7. RegistrySound'
      BY <2>1 DEF RegistrySound, HasActiveEntry, CompletedMeansMoved, AllDeleted, IsTransfer
    <2>8. QED
      BY <2>2, <2>3, <2>4, <2>5, <2>6, <2>7
  <1>8. QED
    BY <1>1, <1>2, <1>3, <1>4, <1>5, <1>6, <1>7 DEF EndStep

(* ... and what goes wrong in it. *)
LEMMA FaultInv == ASSUME Inv, Fault PROVE Inv'
  <1> USE DEF Inv
  <1>1. CASE CopyCorruptsFile
    BY <1>1, CopyFileInv DEF CopyCorruptsFile, TypeOK
  <1>2. CASE RemoveFails
    <2> DEFINE r == [mem.batch[cur] EXCEPT !.phase = "Failed"]
    <2>a. /\ cur \in Batch /\ mem \in StateRecord /\ mem # NoState /\ disk = mem
          /\ mem.batch[cur] \in BatchRecord /\ Verified(mem, cur)
      BY <1>2 DEF RemoveFails, LoopSound, BatchWork, Checkpointed, AtWork, TypeOK, StateRecord,
         Verified
    <2>f. ~ mem.batch[cur].deleted
      BY <1>2 DEF RemoveFails, LoopSound
    <2>b. /\ r \in BatchRecord /\ r.phase = "Failed" /\ r.passed = mem.batch[cur].passed
          /\ r.deleted = mem.batch[cur].deleted /\ r.approved = mem.batch[cur].approved
      BY <2>a DEF BatchRecord, BatchPhase
    <2>c. mem' = UpsertBatch(mem, cur, r)
      BY <1>2 DEF RemoveFails, SetPhase
    <2> HIDE DEF r
    <2>1. /\ mem' \in StateRecord /\ mem' # NoState /\ mem'.phase = mem.phase
          /\ mem'.batch[cur].phase = "Failed"
          /\ mem'.batch[cur].passed = mem.batch[cur].passed
          /\ mem'.batch[cur].deleted = mem.batch[cur].deleted
          /\ mem'.batch[cur].approved = mem.batch[cur].approved
          /\ \A c \in Batch : c # cur => mem'.batch[c] = mem.batch[c]
          /\ pc = "DeleteFiles" /\ pc' = "Error" /\ todo' = {}
          /\ UNCHANGED <<src, dst, disk, ledger, reg, session, cur, whole>>
      BY <1>2, <2>a, <2>b, <2>c, UpsertFacts, NoStateAssumption DEF RemoveFails, durable
    <2>2. TypeOK'
      BY <2>a, <2>1 DEF TypeOK, RegistryStatus, Control
    <2>3. Checkpointed'
      BY <2>a, <2>1 DEF Checkpointed, AtWork, IsTransfer, IsResume
    <2>4. StatesSound'
      BY <2>a, <2>f, <2>1 DEF StatesSound, StateSound, PassedIntact, Delivered, FullyListed,
         VerifiedPhase
    <2>5. SourceSound'
      BY <2>a, <2>1 DEF SourceSound, BeforeDeletion, FullyApproved, Delivered
    <2>6. LoopSound'
      BY <2>a, <2>1 DEF LoopSound, BatchWork, BeforeDeletion, IsTransfer, IsResume,
         CopiedOrFailed, Standing, Verified
    <2>7. RegistrySound'
      BY <2>a, <2>1 DEF RegistrySound, HasActiveEntry, CompletedMeansMoved, AllDeleted,
         IsTransfer
    <2>8. QED
      BY <2>2, <2>3, <2>4, <2>5, <2>6, <2>7
  <1>3. CASE Abort
    <2>1. /\ pc \notin {"Idle", "Report", "Error", "ReportFailed"} /\ pc' = "Error"
          /\ cur' = 1 /\ todo' = {} /\ whole' = FALSE /\ whole' \in BOOLEAN
          /\ UNCHANGED <<src, dst, disk, ledger, reg, session, mem>>
      BY <1>3 DEF Abort, durable
    <2>2. TypeOK'
      BY <2>1, NumBatchesAssumption DEF TypeOK, RegistryStatus, Control
    <2>3. Checkpointed'
      BY <2>1 DEF Checkpointed, AtWork, IsTransfer, IsResume
    <2>4. StatesSound'
      BY <2>1 DEF StatesSound, StateSound, PassedIntact, Delivered, FullyListed
    <2>5. SourceSound'
      BY <2>1 DEF SourceSound, BeforeDeletion, FullyApproved, Delivered
    <2>6. LoopSound'
      BY <2>1 DEF LoopSound, BatchWork, BeforeDeletion, IsTransfer, IsResume, CopiedOrFailed,
         Standing, Verified
    <2>7. RegistrySound'
      BY <2>1 DEF RegistrySound, HasActiveEntry, CompletedMeansMoved, AllDeleted, IsTransfer
    <2>8. QED
      BY <2>2, <2>3, <2>4, <2>5, <2>6, <2>7
  <1>4. CASE Crash
    <2>1. /\ pc' = "Idle" /\ mem' = NoState /\ cur' = 1 /\ todo' = {} /\ whole' = FALSE /\ whole' \in BOOLEAN
          /\ session' = NoSession /\ session' \in Session /\ pc # "Idle"
          /\ reg' = reg
          /\ UNCHANGED <<src, dst, disk, ledger>>
      BY <1>4 DEF Crash, EndSession, SetStatus, files, durable, NoSession, Session,
         ConflictPolicy
    <2>2. TypeOK'
      BY <2>1, NumBatchesAssumption DEF TypeOK, RegistryStatus, Control, HasActiveEntry
    <2>3. Checkpointed'
      BY <2>1 DEF Checkpointed, AtWork, IsTransfer, IsResume
    <2>4. StatesSound'
      BY <2>1 DEF StatesSound, StateSound, PassedIntact, Delivered, FullyListed
    <2>5. SourceSound'
      BY <2>1 DEF SourceSound, BeforeDeletion, FullyApproved, Delivered
    <2>6. LoopSound'
      BY <2>1 DEF LoopSound, BatchWork, BeforeDeletion, IsTransfer, IsResume, CopiedOrFailed,
         Standing, Verified
    <2>7. RegistrySound'
      BY <2>1 DEF RegistrySound, HasActiveEntry, CompletedMeansMoved, AllDeleted, IsTransfer
    <2>8. QED
      BY <2>2, <2>3, <2>4, <2>5, <2>6, <2>7
  <1>5. QED
    BY <1>1, <1>2, <1>3, <1>4 DEF Fault

(* Every step preserves the invariant. *)
LEMMA NextInv == ASSUME Inv, [Next]_vars PROVE Inv'
  <1>1. CASE StartTransfer
    BY <1>1, CommandStartInv
  <1>2. CASE SessionStep
    BY <1>2, CommandStartInv, CopyStepInv, VerifyStepInv, DeleteStepInv, EndStepInv
       DEF SessionStep
  <1>3. CASE Fault
    BY <1>3, FaultInv
  <1>4. CASE Between
    <2>1. CASE StartResume
      BY <2>1, CommandStartInv
    <2>2. ASSUME NEW f \in File, OperatorClears(f) PROVE Inv'
      BY <2>2, OperatorClearsInv
    <2>3. ASSUME NEW f \in File, LoseCopy(f) PROVE Inv'
      BY <2>3, LoseCopyInv
    <2>4. QED
      BY <1>4, <2>1, <2>2, <2>3 DEF Between
  <1>5. CASE UNCHANGED vars
    BY <1>5, StutterInv
  <1>6. QED
    BY <1>1, <1>2, <1>3, <1>4, <1>5 DEF Next

-----------------------------------------------------------------------------
(* In every reachable state, for every plan of the files, every set of     *)
(* commands and every snapshot cadence, the invariant holds: what the      *)
(* state file records agrees with the files at both ends.                  *)
THEOREM InvariantHolds == Spec => []Inv
  <1>1. Init => Inv
    BY InitInv
  <1>2. Inv /\ [Next]_vars => Inv'
    BY NextInv
  <1>3. QED
    BY <1>1, <1>2, PTL DEF Spec

(* The variables keep their types. *)
THEOREM TypeCorrect == Spec => []TypeOK
  <1>1. Inv => TypeOK
    BY DEF Inv
  <1>2. QED
    BY <1>1, InvariantHolds, PTL

(* No interleaving of copies, verifications, failures, crashes, resumes    *)
(* and deletions, and no listing that misses files, loses the content of a *)
(* file that verification looks at; of the others some file stands.        *)
THEOREM NothingLost == ASSUME ~ Drift PROVE Spec => []NoFileLost
  <1>1. ASSUME ~ Drift PROVE Inv => NoFileLost
    BY <1>1 DEF Inv, SourceSound, NoFileLost
  <1>2. QED
    BY <1>1, InvariantHolds, PTL

(* The state file never runs ahead of, or behind, the removal of source    *)
(* files by more than the batch under way.                                 *)
THEOREM StateFileTrue == Spec => []StateFileMatchesSource
  <1>1. Inv => StateFileMatchesSource
    <2>1. SUFFICES ASSUME Inv, disk # NoState, NEW b \in Batch
                   PROVE  /\ disk.batch[b].deleted => FilesOf(b) \cap src = {}
                          /\ ~ disk.batch[b].approved => FilesOf(b) \subseteq src
      BY DEF StateFileMatchesSource
    <2>2. disk.batch[b].deleted => FilesOf(b) \cap src = {}
      BY <2>1 DEF Inv, StatesSound, StateSound, PassedIntact, Delivered, FullyListed
    <2>3. ~ disk.batch[b].approved => src = File
      BY <2>1 DEF Inv, SourceSound, FullyApproved, Delivered
    <2>4. QED
      BY <2>2, <2>3 DEF FilesOf
  <1>2. QED
    BY <1>1, InvariantHolds, PTL

(* A migration the registry calls completed has moved every file.          *)
THEOREM CompletedIsMoved == Spec => []CompletedMeansMoved
  <1>1. Inv => CompletedMeansMoved
    BY DEF Inv, RegistrySound
  <1>2. QED
    BY <1>1, InvariantHolds, PTL

-----------------------------------------------------------------------------
(* Only one action removes source files, and only these three write or     *)
(* clear a destination path.                                               *)
LEMMA FileWriters ==
    ASSUME [Next]_vars
    PROVE  /\ src' # src => \E f \in todo : RemoveFile(f)
           /\ dst' # dst => \/ \E f \in todo, r \in {"Equal", "Corrupt"} : CopyFile(f, r)
                            \/ \E f \in File : OperatorClears(f) \/ LoseCopy(f)
  <1>1. CASE CopyStep
    BY <1>1 DEF CopyStep, SkipCopiedBatch, ResumeNeedsReview, ResumeVerifiesBatch, BeginCopy,
         BeginSubsetCopy, BeginCopying, SkipConflictingBatch, MarkFailedForConflicts,
         CopyNextFile, CopyFile, FinishCopy, MarkLedger, MarkConflict, files, durable
  <1>2. CASE VerifyStep
    BY <1>2 DEF VerifyStep, EndCopyPhase, StartVerifyPhase, SkipVerification, VerifyBatch,
         DropLedger, AwaitDeletion, EnterDeletePhase, files, durable
  <1>3. CASE DeleteStep
    BY <1>3 DEF DeleteStep, BeginDelete, RemoveNextFile, RemoveFile, FinishDelete, Approve,
         Decline, RefuseUnattended, DeletionDone, files, durable
  <1>4. CASE EndStep
    BY <1>4 DEF EndStep, TakeSnapshot, PassOverSnapshot, RecordFinalPhase, RecordFinalStatus,
         FailTransfer, FailResume, ReportFailed, files, durable
  <1>5. CASE StartTransfer \/ RefuseTransfer \/ PlanTransfer \/ StartCopyPhase
    BY <1>5 DEF StartTransfer, RefuseTransfer, PlanTransfer, StartCopyPhase, files, durable
  <1>6. CASE Fault
    BY <1>6 DEF Fault, CopyCorruptsFile, CopyFile, RemoveFails, Abort, Crash, durable
  <1>7. CASE Between
    BY <1>7 DEF Between, StartResume, OperatorClears, LoseCopy, files
  <1>8. CASE UNCHANGED vars
    BY <1>8 DEF vars
  <1>9. QED
    BY <1>1, <1>2, <1>3, <1>4, <1>5, <1>6, <1>7, <1>8 DEF Next, SessionStep

(* Source files are removed only when the whole migration has passed and   *)
(* been approved, in the state that survives a crash.                      *)
THEOREM DeletionGated == Spec => DeletesOnlyApprovedState
  <1>1. Inv /\ [Next]_vars =>
          [src' # src => \A b \in Batch : disk.batch[b].passed /\ disk.batch[b].approved]_vars
    <2>1. SUFFICES ASSUME Inv, [Next]_vars, src' # src
                   PROVE  \A b \in Batch : disk.batch[b].passed /\ disk.batch[b].approved
      OBVIOUS
    <2>2. PICK f \in todo : RemoveFile(f)
      BY <2>1, FileWriters
    <2>3. mem # NoState /\ disk = mem /\ cur \in Batch /\ mem.batch[cur].approved
          /\ \A b \in Batch : mem.batch[b].passed
      BY <2>1, <2>2 DEF RemoveFile, Inv, LoopSound, BatchWork, Checkpointed, AtWork, Verified
    <2>4. QED
      BY <2>1, <2>3 DEF Inv, StatesSound, StateSound, PassedIntact, Delivered, FullyListed
  <1>2. QED
    BY <1>1, InvariantHolds, PTL DEF Spec, DeletesOnlyApprovedState

(* A resume never writes over a file that caravan did not put there, where *)
(* listings show it, and also when they miss other files of the batch.     *)
THEOREM ResumeIsPolite == Spec => ResumeKeepsForeignFiles
  <1>1. Inv /\ [Next]_vars =>
          [\A f \in File \ Unlisted : IsResume /\ dst[f] \in Foreign => dst'[f] = dst[f]]_vars
    <2>1. SUFFICES ASSUME Inv, [Next]_vars, NEW f \in File \ Unlisted, IsResume, dst[f] \in Foreign,
                          dst'[f] # dst[f]
                   PROVE  FALSE
      OBVIOUS
    <2>2. pc # "Idle"
      BY <2>1 DEF Inv, Checkpointed, NoSession, IsResume
    <2>3. PICK g \in todo, r \in {"Equal", "Corrupt"} : CopyFile(g, r)
      BY <2>1, <2>2, FileWriters DEF OperatorClears, LoseCopy
    <2>4. /\ dst' = [dst EXCEPT ![g] = r] /\ dst \in [File -> DestFile]
          /\ g \notin Unlisted => dst[g] = "Absent"
      BY <2>1, <2>3 DEF CopyFile, Inv, LoopSound, TypeOK
    <2>5. QED
      BY <2>1, <2>4 DEF Foreign
  <1>2. QED
    BY <1>1, InvariantHolds, PTL DEF Spec, ResumeKeepsForeignFiles

(* A batch recorded as verified is never written to again, if listings     *)
(* show its files: where they do not, a batch whose deletion failed may be *)
(* copied once more.                                                       *)
THEOREM VerifiedIsFinal == ASSUME ~ Drift PROVE Spec => VerifiedNotRecopied
  <1>1. ASSUME ~ Drift
        PROVE  Inv /\ [Next]_vars =>
          [\A f \in File :
             /\ FullyListed(BatchOf[f])
             /\ disk # NoState /\ disk.batch[BatchOf[f]].passed
             => dst'[f] = dst[f]]_vars
    <2>1. SUFFICES ASSUME Inv, [Next]_vars, NEW f \in File, FullyListed(BatchOf[f]),
                          disk # NoState, disk.batch[BatchOf[f]].passed, dst'[f] # dst[f]
                   PROVE  FALSE
      OBVIOUS
    <2>2. dst \in [File -> DestFile]
      BY <2>1 DEF Inv, TypeOK
    <2>3. CASE \E g \in todo, r \in {"Equal", "Corrupt"} : CopyFile(g, r)
      <3>1. PICK g \in todo, r \in {"Equal", "Corrupt"} : CopyFile(g, r)
        BY <2>3
      <3>2. g = f
        BY <2>1, <2>2, <3>1 DEF CopyFile
      <3>3. BatchOf[f] = cur /\ cur \in Batch /\ disk.batch[cur].phase = "CopyStarted"
        BY <2>1, <3>1, <3>2 DEF CopyFile, Inv, LoopSound, BatchWork, Checkpointed, AtWork,
           FilesOf, CopiedOrFailed, Standing, Verified
      <3>4. QED
        BY <1>1, <2>1, <3>3 DEF Inv, StatesSound, PassedIntact, Delivered, FullyListed
    <2>4. CASE \E g \in File : OperatorClears(g)
      BY <2>1, <2>2, <2>4 DEF OperatorClears
    <2>5. QED
      BY <1>1, <2>1, <2>3, <2>4, FileWriters DEF LoseCopy
  <1>2. QED
    BY <1>1, InvariantHolds, PTL DEF Spec, VerifiedNotRecopied

(* Where copies stay as they are between commands, no source file goes     *)
(* while its copy is missing; the run `missing_copy` shows that one goes   *)
(* where they do not, since no command looks again before it deletes.      *)
THEOREM CopiesStandAtDeletion == ASSUME ~ Drift PROVE Spec => NoDeletionAgainstMissingCopy
  <1>1. ASSUME ~ Drift
        PROVE  Inv /\ [Next]_vars => [\A f \in src \ src' : dst[f] # "Absent"]_vars
    <2>1. SUFFICES ASSUME Inv, [Next]_vars, NEW f \in src \ src'
                   PROVE  dst[f] # "Absent"
      OBVIOUS
    <2>2. PICK g \in todo : RemoveFile(g)
      BY <2>1, FileWriters
    <2>3. f \in FilesOf(cur) /\ cur \in Batch /\ mem # NoState /\ Verified(mem, cur)
      BY <2>1, <2>2 DEF RemoveFile, Inv, LoopSound, BatchWork, Checkpointed, AtWork
    <2>4. QED
      BY <1>1, <2>1, <2>3 DEF Inv, StatesSound, PassedIntact, Delivered, Verified
  <1>2. QED
    BY <1>1, InvariantHolds, PTL DEF Spec, NoDeletionAgainstMissingCopy

(* Nothing enters the ledger that a copy did not write.                    *)
THEOREM LedgerIsEarned == Spec => LedgerAddsOnlyCopies
  <1>1. Inv /\ [Next]_vars =>
          [\A f \in ledger' \ ledger : dst[f] \in {"Equal", "Corrupt"}]_vars
    <2>1. SUFFICES ASSUME Inv, [Next]_vars, NEW f \in ledger' \ ledger
                   PROVE  dst[f] \in {"Equal", "Corrupt"}
      OBVIOUS
    <2>2. MarkLedger
      <3>1. CASE CopyStep
        BY <2>1, <3>1 DEF CopyStep, SkipCopiedBatch, ResumeNeedsReview, ResumeVerifiesBatch,
             BeginCopy, BeginSubsetCopy, BeginCopying, SkipConflictingBatch,
             MarkFailedForConflicts, CopyNextFile, CopyFile, FinishCopy, MarkConflict, durable
      <3>2. CASE VerifyStep
        BY <2>1, <3>2 DEF VerifyStep, EndCopyPhase, StartVerifyPhase, SkipVerification,
             VerifyBatch, DropLedger, AwaitDeletion, EnterDeletePhase, durable
      <3>3. CASE DeleteStep
        BY <2>1, <3>3 DEF DeleteStep, BeginDelete, RemoveNextFile, RemoveFile, FinishDelete,
             Approve, Decline, RefuseUnattended, DeletionDone, durable
      <3>4. CASE EndStep
        BY <2>1, <3>4 DEF EndStep, TakeSnapshot, PassOverSnapshot, RecordFinalPhase,
             RecordFinalStatus, FailTransfer, FailResume, ReportFailed, durable
      <3>5. CASE StartTransfer \/ RefuseTransfer \/ PlanTransfer \/ StartCopyPhase
        BY <2>1, <3>5 DEF StartTransfer, RefuseTransfer, PlanTransfer, StartCopyPhase, durable
      <3>6. CASE Fault
        BY <2>1, <3>6 DEF Fault, CopyCorruptsFile, CopyFile, RemoveFails, Abort, Crash, durable
      <3>7. CASE Between
        BY <2>1, <3>7 DEF Between, StartResume, OperatorClears, LoseCopy
      <3>8. CASE UNCHANGED vars
        BY <2>1, <3>8 DEF vars
      <3>9. QED
        BY <2>1, <3>1, <3>2, <3>3, <3>4, <3>5, <3>6, <3>7, <3>8 DEF Next, SessionStep
    <2>3. QED
      BY <2>1, <2>2 DEF MarkLedger, Inv, LoopSound, CopiedOrFailed, Standing, Verified
  <1>2. QED
    BY <1>1, InvariantHolds, PTL DEF Spec, LedgerAddsOnlyCopies

-----------------------------------------------------------------------------
(* Writing the record of one batch back, with its approval and at least    *)
(* its deletion, takes back neither.                                       *)
LEMMA UpsertKeepsFlags ==
    ASSUME NEW st \in StateRecord, NEW b \in Batch, NEW r \in BatchRecord,
           r.approved = st.batch[b].approved, st.batch[b].deleted => r.deleted
    PROVE  \A c \in Batch :
             /\ st.batch[c].deleted => UpsertBatch(st, b, r).batch[c].deleted
             /\ st.batch[c].approved => UpsertBatch(st, b, r).batch[c].approved
  <1> SUFFICES ASSUME NEW c \in Batch
               PROVE  /\ st.batch[c].deleted => UpsertBatch(st, b, r).batch[c].deleted
                      /\ st.batch[c].approved => UpsertBatch(st, b, r).batch[c].approved
    OBVIOUS
  <1>1. CASE c = b
    BY <1>1, UpsertFacts
  <1>2. CASE c # b
    BY <1>2, UpsertFacts
  <1>3. QED
    BY <1>1, <1>2

(* A running session's steps that write the record of a batch.             *)
LEMMA BatchWritersKeepFlags ==
    ASSUME Inv,
           \/ BeginCopy \/ BeginSubsetCopy \/ SkipConflictingBatch \/ FinishCopy
           \/ MarkConflict \/ VerifyBatch \/ FinishDelete \/ TakeSnapshot
    PROVE  /\ disk' # NoState
           /\ \A b \in Batch : /\ disk.batch[b].deleted => disk'.batch[b].deleted
                               /\ disk.batch[b].approved => disk'.batch[b].approved
  <1>1. /\ mem # NoState /\ disk = mem /\ mem \in StateRecord /\ cur \in Batch
        /\ mem.batch[cur] \in BatchRecord
    BY DEF Inv, TypeOK, Checkpointed, AtWork, LoopSound, BatchWork, StateRecord,
           BeginCopy, BeginSubsetCopy, SkipConflictingBatch, FinishCopy, MarkConflict,
           VerifyBatch, FinishDelete, TakeSnapshot, Copying, Verifying, Snapshotting, CopiedOrFailed, Standing, Verified
  <1>2. \E r \in BatchRecord :
           /\ disk' = UpsertBatch(mem, cur, r)
           /\ r.approved = mem.batch[cur].approved
           /\ mem.batch[cur].deleted => r.deleted
    <2>1. CASE BeginCopy \/ BeginSubsetCopy
      <3> DEFINE r == [mem.batch[cur] EXCEPT !.phase = "CopyStarted"]
      <3>1. disk' = UpsertBatch(mem, cur, r)
        BY <2>1 DEF BeginCopy, BeginSubsetCopy, BeginCopying, Persist, SetPhase
      <3>2. /\ r \in BatchRecord
            /\ r.approved = mem.batch[cur].approved
            /\ mem.batch[cur].deleted => r.deleted
        BY <1>1 DEF BatchRecord, BatchPhase
      <3> HIDE DEF r
      <3>3. QED
        BY <3>1, <3>2
    <2>2. CASE SkipConflictingBatch \/ MarkConflict
      <3> DEFINE r == [mem.batch[cur] EXCEPT !.phase = "Failed", !.passed = FALSE]
      <3>1. disk' = UpsertBatch(mem, cur, r)
        BY <2>2 DEF SkipConflictingBatch, MarkConflict, MarkFailedForConflicts, Persist
      <3>2. /\ r \in BatchRecord
            /\ r.approved = mem.batch[cur].approved
            /\ mem.batch[cur].deleted => r.deleted
        BY <1>1 DEF BatchRecord, BatchPhase
      <3> HIDE DEF r
      <3>3. QED
        BY <3>1, <3>2
    <2>3. CASE FinishCopy
      <3> DEFINE r == [mem.batch[cur] EXCEPT !.phase = "CopyCompleted", !.passed = IsResume /\ @]
      <3>1. disk' = UpsertBatch(mem, cur, r)
        BY <2>3 DEF FinishCopy, Persist
      <3>2. /\ r \in BatchRecord
            /\ r.approved = mem.batch[cur].approved
            /\ mem.batch[cur].deleted => r.deleted
        BY <1>1 DEF BatchRecord, BatchPhase
      <3> HIDE DEF r
      <3>3. QED
        BY <3>1, <3>2
    <2>4. CASE VerifyBatch
      <3> DEFINE r == [mem.batch[cur] EXCEPT !.phase = "VerifyCompleted",
                                         !.passed = VerifyPasses(cur)]
      <3>1. disk' = UpsertBatch(mem, cur, r)
        BY <2>4 DEF VerifyBatch, RecordVerification, Persist
      <3>2. /\ r \in BatchRecord
            /\ r.approved = mem.batch[cur].approved
            /\ mem.batch[cur].deleted => r.deleted
        BY <1>1 DEF VerifyPasses, BatchRecord, BatchPhase, Checked
      <3> HIDE DEF r
      <3>3. QED
        BY <3>1, <3>2
    <2>5. CASE FinishDelete
      <3> DEFINE r == [mem.batch[cur] EXCEPT !.phase = "DeleteCompleted", !.deleted = TRUE]
      <3>1. disk' = UpsertBatch(mem, cur, r)
        BY <2>5 DEF FinishDelete, Persist
      <3>2. /\ r \in BatchRecord
            /\ r.approved = mem.batch[cur].approved
            /\ mem.batch[cur].deleted => r.deleted
        BY <1>1 DEF BatchRecord, BatchPhase
      <3> HIDE DEF r
      <3>3. QED
        BY <3>1, <3>2
    <2>6. CASE TakeSnapshot
      <3> DEFINE r == [mem.batch[cur] EXCEPT !.phase = "SnapshotCompleted"]
      <3>1. disk' = UpsertBatch(mem, cur, r)
        BY <2>6 DEF TakeSnapshot, Persist, SetPhase
      <3>2. /\ r \in BatchRecord
            /\ r.approved = mem.batch[cur].approved
            /\ mem.batch[cur].deleted => r.deleted
        BY <1>1 DEF BatchRecord, BatchPhase
      <3> HIDE DEF r
      <3>3. QED
        BY <3>1, <3>2
    <2>7. QED
      BY <2>1, <2>2, <2>3, <2>4, <2>5, <2>6
  <1>3. QED
    BY <1>1, <1>2, UpsertFacts, UpsertKeepsFlags, NoStateAssumption

(* The steps that write the state as a whole: its phase, the approvals, or *)
(* the first state of a migration.                                         *)
LEMMA StateWritersKeepFlags ==
    ASSUME Inv, disk # NoState,
           \/ PlanTransfer \/ StartCopyPhase \/ StartVerifyPhase \/ AwaitDeletion
           \/ Approve \/ RecordFinalPhase \/ FailResume
    PROVE  /\ disk' # NoState
           /\ \A b \in Batch : /\ disk.batch[b].deleted => disk'.batch[b].deleted
                               /\ disk.batch[b].approved => disk'.batch[b].approved
  <1>1. CASE PlanTransfer
    <2>1. disk = mem
      BY <1>1 DEF PlanTransfer, Inv, Checkpointed
    <2>2. QED
      BY <1>1, <2>1 DEF PlanTransfer, Persist
  <1>2. CASE StartCopyPhase \/ StartVerifyPhase \/ AwaitDeletion \/ RecordFinalPhase
    <2>1. mem # NoState /\ disk = mem /\ mem \in StateRecord
      BY <1>2 DEF Inv, TypeOK, Checkpointed, AtWork, StartCopyPhase, StartVerifyPhase,
                  AwaitDeletion, BatchesDone, RecordFinalPhase
    <2>2. UNCHANGED disk \/ \E p \in MigrationPhase : disk' = SetMigrationPhase(mem, p)
      BY <1>2 DEF StartCopyPhase, StartVerifyPhase, AwaitDeletion, RecordFinalPhase, Persist,
                  MigrationPhase
    <2>3. CASE UNCHANGED disk
      BY <2>3
    <2>4. ASSUME NEW p \in MigrationPhase, disk' = SetMigrationPhase(mem, p)
          PROVE  /\ disk' # NoState
                 /\ disk'.batch = disk.batch
      BY <2>1, <2>4, PhaseFacts, NoStateAssumption
    <2>5. QED
      BY <2>2, <2>3, <2>4
  <1>3. CASE Approve
    <2>1. mem # NoState /\ disk = mem /\ mem \in StateRecord
      BY <1>3 DEF Inv, TypeOK, Checkpointed, AtWork, Approve, AtPrompt
    <2>2. /\ BatchesNeedingApproval(mem) \in SUBSET Batch
          /\ disk' = ApproveBatches(mem, BatchesNeedingApproval(mem))
      BY <1>3 DEF Approve, Persist, BatchesNeedingApproval
    <2> HIDE DEF BatchesNeedingApproval
    <2>3. disk' # NoState
      BY <2>1, <2>2, ApproveFacts, NoStateAssumption
    <2>4. ASSUME NEW b \in Batch
          PROVE  /\ mem.batch[b].deleted => disk'.batch[b].deleted
                 /\ mem.batch[b].approved => disk'.batch[b].approved
      <3>1. CASE b \in BatchesNeedingApproval(mem)
        BY <2>1, <2>2, <3>1, ApproveFacts
      <3>2. CASE b \notin BatchesNeedingApproval(mem)
        BY <2>1, <2>2, <3>2, ApproveFacts
      <3>3. QED
        BY <3>1, <3>2
    <2>5. QED
      BY <2>1, <2>3, <2>4
  <1>4. CASE FailResume
    <2>1. /\ mem # NoState /\ mem \in StateRecord
          /\ \A b \in Batch : /\ mem.batch[b].approved = disk.batch[b].approved
                              /\ mem.batch[b].deleted = disk.batch[b].deleted
      BY <1>4 DEF Inv, TypeOK, Checkpointed, FailResume
    <2>2. disk' = disk \/ disk' = SetMigrationPhase(mem, "Failed")
      BY <1>4 DEF FailResume
    <2>3. QED
      BY <2>1, <2>2, PhaseFacts, NoStateAssumption DEF MigrationPhase
  <1>5. QED
    BY <1>1, <1>2, <1>3, <1>4

(* No command, interrupted where it may be, takes back a deletion or an    *)
(* approval the state file records, or loses the file: each writes what it *)
(* has read, and the error exit of a resume writes back the same flags.    *)
THEOREM ProgressIsKept == Spec => RecordedProgressStays
  <1>1. Inv /\ [Next]_vars =>
          [disk # NoState =>
             /\ disk' # NoState
             /\ \A b \in Batch :
                  /\ disk.batch[b].deleted => disk'.batch[b].deleted
                  /\ disk.batch[b].approved => disk'.batch[b].approved]_vars
    <2>1. SUFFICES ASSUME Inv, [Next]_vars, disk # NoState
                   PROVE  /\ disk' # NoState
                          /\ \A b \in Batch :
                               /\ disk.batch[b].deleted => disk'.batch[b].deleted
                               /\ disk.batch[b].approved => disk'.batch[b].approved
      OBVIOUS
    <2>2. CASE UNCHANGED disk
      BY <2>1, <2>2
    <2>3. CASE CopyStep
      BY <2>1, <2>2, <2>3, BatchWritersKeepFlags
         DEF CopyStep, SkipCopiedBatch, ResumeNeedsReview, ResumeVerifiesBatch, CopyNextFile,
             CopyFile, MarkLedger, durable
    <2>4. CASE VerifyStep
      BY <2>1, <2>2, <2>4, BatchWritersKeepFlags, StateWritersKeepFlags
         DEF VerifyStep, EndCopyPhase, SkipVerification, DropLedger, EnterDeletePhase, durable
    <2>5. CASE DeleteStep
      BY <2>1, <2>2, <2>5, BatchWritersKeepFlags, StateWritersKeepFlags
         DEF DeleteStep, BeginDelete, RemoveNextFile, RemoveFile, Decline, RefuseUnattended,
             DeletionDone, durable
    <2>6. CASE EndStep
      BY <2>1, <2>2, <2>6, BatchWritersKeepFlags, StateWritersKeepFlags
         DEF EndStep, PassOverSnapshot, RecordFinalStatus, FailTransfer, ReportFailed, durable
    <2>7. CASE StartTransfer \/ RefuseTransfer \/ PlanTransfer \/ StartCopyPhase
      BY <2>1, <2>2, <2>7, StateWritersKeepFlags DEF StartTransfer, RefuseTransfer, durable
    <2>8. CASE Fault \/ Between
      BY <2>2, <2>8 DEF Fault, CopyCorruptsFile, CopyFile, RemoveFails, Abort, Crash, durable,
                        Between, StartResume, OperatorClears, LoseCopy
    <2>9. QED
      BY <2>1, <2>2, <2>3, <2>4, <2>5, <2>6, <2>7, <2>8 DEF Next, SessionStep, vars
  <1>2. QED
    BY <1>1, InvariantHolds, PTL DEF Spec, RecordedProgressStays

-----------------------------------------------------------------------------
(* Between sessions, or in a transfer that has not yet acted, with source  *)
(* files already removed ...                                               *)
Stranded ==
    /\ src # File
    /\ pc \in {"Idle", "Plan", "Error"}
    /\ ~ IsResume

(* ... a command only comes as far as the manifest check.                  *)
LEMMA StrandedSteps ==
    ASSUME Inv, Stranded, [Next]_vars
    PROVE  \/ StartTransfer
           \/ RefuseTransfer
           \/ FailTransfer
           \/ Abort
           \/ Crash
           \/ \E f \in File : OperatorClears(f) \/ LoseCopy(f)
           \/ UNCHANGED vars
  <1>1. ~ ManifestMatches
    BY DEF Stranded, ManifestMatches
  <1>2. ~ PlanTransfer
    BY <1>1 DEF PlanTransfer, Inv, Checkpointed, SourceSound, Stranded, Delivered
  <1>3. ~ CopyStep
    BY DEF Stranded, CopyStep, Copying, SkipCopiedBatch, ResumeNeedsReview,
         ResumeVerifiesBatch, BeginCopy, BeginSubsetCopy, SkipConflictingBatch, CopyNextFile,
         CopyFile, FinishCopy, MarkLedger, MarkConflict
  <1>4. ~ VerifyStep
    BY DEF Stranded, VerifyStep, Verifying, BatchesDone, EndCopyPhase, StartVerifyPhase,
         SkipVerification, VerifyBatch, DropLedger, AwaitDeletion, EnterDeletePhase
  <1>5. ~ DeleteStep
    BY DEF Stranded, DeleteStep, AtPrompt, BeginDelete, RemoveNextFile, RemoveFile,
         FinishDelete, Approve, Decline, RefuseUnattended, DeletionDone
  <1>6. EndStep => FailTransfer
    BY DEF Stranded, EndStep, Snapshotting, TakeSnapshot, PassOverSnapshot, RecordFinalPhase,
         RecordFinalStatus, FailResume, ReportFailed
  <1>7. ~ StartCopyPhase /\ ~ StartResume /\ ~ CopyCorruptsFile /\ ~ RemoveFails
    BY <1>1 DEF Stranded, StartCopyPhase, StartResume, CopyCorruptsFile, CopyFile, RemoveFails
  <1>8. QED
    BY <1>2, <1>3, <1>4, <1>5, <1>6, <1>7 DEF Next, SessionStep, Fault, Between

(* An interrupted deletion stays interrupted: from the moment its session  *)
(* ends, no transfer, resume, failure or crash removes another source file *)
(* or changes what the state file records, since no command gets past the  *)
(* comparison of a fresh plan of the source with the recorded manifest.    *)
THEOREM InterruptedDeletionStays ==
    Spec => [][Stranded => Stranded' /\ UNCHANGED <<src, disk>>]_vars
  <1>1. Inv /\ [Next]_vars => [Stranded => Stranded' /\ UNCHANGED <<src, disk>>]_vars
    <2>1. SUFFICES ASSUME Inv, Stranded, [Next]_vars
                   PROVE  Stranded' /\ UNCHANGED <<src, disk>>
      OBVIOUS
    <2>2. CASE StartTransfer
      BY <2>1, <2>2 DEF StartTransfer, Stranded, IsResume, files
    <2>3. CASE RefuseTransfer
      BY <2>1, <2>3 DEF RefuseTransfer, Stranded, IsResume, durable
    <2>4. CASE FailTransfer
      BY <2>1, <2>4 DEF FailTransfer, Stranded, EndSession, NoSession, IsResume, files
    <2>5. CASE Abort
      BY <2>1, <2>5 DEF Abort, Stranded, IsResume, durable
    <2>6. CASE Crash
      BY <2>1, <2>6 DEF Crash, Stranded, EndSession, NoSession, IsResume, durable
    <2>7. CASE \E f \in File : OperatorClears(f) \/ LoseCopy(f)
      BY <2>1, <2>7 DEF OperatorClears, LoseCopy, Stranded, IsResume, process
    <2>8. CASE UNCHANGED vars
      BY <2>1, <2>8 DEF vars, Stranded, IsResume
    <2>9. QED
      BY <2>1, <2>2, <2>3, <2>4, <2>5, <2>6, <2>7, <2>8, StrandedSteps
  <1>2. QED
    BY <1>1, InvariantHolds, PTL DEF Spec
=============================================================================

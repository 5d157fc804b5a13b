# Verification of caravan

caravan moves a directory tree to another disk in batches: it copies a batch,
verifies it, and, once the operator has approved, removes its source files. It
records its progress so that an interrupted migration can be taken up again.
This directory holds TLA+ models of that program, the TLC configurations that
check them on small instances, and proofs, checked by TLAPS, that hold
for every instance. Paths below are relative to the crate, which is `src/` of
the repository copy (so `resume/planning.rs` is `src/src/resume/planning.rs`).

Contents: [the system](#the-system) · [modules](#the-modules) ·
[the core model](#the-core-model) ·
[the modules around it](#the-modules-around-the-core) · [properties](#properties) ·
[runs](#runs) · [fairness](#fairness) · [proofs](#proofs) ·
[disagreements](#disagreements-with-the-documents) ·
[not modelled](#what-is-not-modelled-and-why) · [plan](#plan)

## The system

| Component | State it keeps | Operations | What makes it correct |
|---|---|---|---|
| Migration state and decisions (`models/state.rs`, `resume/planning.rs`, `shared/operator_review.rs`) | migration phase; per batch a phase and the flags `verification_passed`, `approved_for_delete`, `deleted`; the batch manifest | upsert a batch, approve, the two approval queues, operator review, the resume step table | flags and phases never contradict each other or the files |
| Transfer command (`cli/commands/transfer/`) | in-memory copy of the state | register, load or create state, plan, copy, verify, delete, snapshot, report; error exit | re-running it continues; it never loses or overwrites |
| Resume command (`cli/commands/resume/`) | the same | reconcile and take each batch one step table entry further, then delete, snapshot, report; error exit | as above, and it stops for review rather than guess |
| Batch copying, conflicts (`conflict.rs`, `transfer/batch_copy.rs`, `shared/batch_ops.rs`) | destination files | detect conflicts, make directories, copy a batch or its non-conflicting subset, fail a batch | foreign files are never overwritten |
| Atomic copy (`transfer/atomic_copy.rs`, `strategy.rs`, platform files) | temporary files | copy to a temporary file, sync, rename | a destination path holds the old or the whole new file |
| Verification (`verify.rs`) | none | compare sizes and digests of a batch, files named `.caravan` left out | no pass without equal contents of what it looks at |
| Approval and deletion (`prompt.rs`, `cleanup.rs`, `shared/deletion.rs`) | source files | prompt, approve, remove file by file | removes only what is verified and approved |
| State store (`state_store.rs`, `atomic_write.rs`) | two state files with revision and checksum | persist both, load and reconcile | the newest valid state is loaded |
| Registry (`migration_registry.rs`, `status.rs`) | list of entries with a status and a pending status | register, begin and commit a status, find the active entry | the status agrees with the migration |
| Completed-file ledger (`source_completion/`) | paths completed per source | mark, withdraw, filter a plan, backfill | a listed file has been copied |
| Snapshots (`snapshot/`) | btrfs or VSS snapshots | take one after every n deleted batches | cadence kept across restarts |
| Planning (`plan/`) | none | cut files greedily into batches, check the manifest | every file in one batch, within limits |
| Shutdown (`signal.rs`) | a flag | poll | stops between steps only |
| Capacity, preflight (`capacity/`, `preflight/`) | none | check space, check paths | never starts what cannot fit |
| Scan, CLI, logging, platform layers | none of the protocol | traversal, parsing, formatting, system calls | - |

The commands own everything at run time: they call planning, copying,
verification, cleanup and snapshots as functions, share one `MigrationState`
in memory, and hand it to the state store after every change that matters. The
registry entry is updated at the boundaries of the phases, the ledger after the
copy of a batch and after a failed verification. Different commands meet only through files: the
state, the registry, the ledger, the source and the destination.

The hard behaviours follow from that. A command may die or fail between any two
writes, and the next one, which may be the other command with other
options, must read the remains correctly. The record and the file it is about
are never written together. Flags set by one command are read by a later one
when the files may have changed. And the operator decides in between.
`PROJECT.json` lists these hazards at the line where each bites.

## The modules

    BatchRecords          records and pure decisions on them
      Migration           one migration: sessions, files, state, ledger, registry
        MigrationInvariant    the inductive invariant, in named parts
          MigrationProofs     theorems (TLAPS)
            ConflictProofs      what overwrites foreign files: a theorem
          MigrationProgress     a measure that every step of a command lowers
            MigrationProgressProofs      theorems
          MigrationRefinement   Migration as a SafeMove
            MigrationRefinementProofs    theorems
            MCMigration         instances for TLC (with MigrationProgress)
        MigrationLive         recovery by re-running the transfer
          MCMigrationLive     instances for TLC
    SafeMove              abstract: a move with a commit

    StateStore            the two copies of the state file
      StateStoreProofs, MCStateStore
    StateRegister         abstract: one register

    FileCopy              planning, space, temporary files, barriers, power loss
      FileCopyProofs, MCFileCopy
    KeptCopies            abstract: what copying owes to deletion
    SumLemmas             sums over finite sets, for FileCopyProofs

    Registry              the registry and its operations
    SourceCompletion      the ledger and its operations
      Bookkeeping         several destinations of one source share both
        BookkeepingProofs, MCBookkeeping
    StatusBoard           abstract: one status per destination

`Migration` is the protocol of one migration, with what it writes and copies
reduced to one step each. The other three take those steps apart and add the
neighbours: `StateStore` the state file, `FileCopy` the batch copy, and
`Bookkeeping` (built from `Registry` and `SourceCompletion`) the files that several
migrations of one source share. Each of the last three in turn reduces the
protocol to what its own files depend on, which is why they are modules beside
`Migration` and not one composition: together they would be out of TLC's reach.

## The core model

### State

| Variable | In the code |
|---|---|
| `src` | the source files not yet removed |
| `dst` | what each destination path holds: nothing, a copy equal to the source, a damaged copy of the right size, or a foreign file of the same or another size |
| `disk` | the persisted `MigrationState`; `NoState` when there is no file |
| `ledger` | the completed-file ledger of the source |
| `reg` | effective status of the newest registry entry for this migration |
| `pc`, `session` | the running command, where it is, its options |
| `mem` | its in-memory `MigrationState` |
| `cur`, `todo`, `whole` | its loop over batches, its loop over files, whether the copy is of a whole batch |

### Actions

An action is the code between one durable change and the next, with the guards
and early returns on the way.

| Code | Actions |
|---|---|
| `transfer/setup.rs`, `transfer/mod.rs` | `StartTransfer`, `RefuseTransfer`, `PlanTransfer`, `EndCopyPhase`, `RecordFinalPhase`, `RecordFinalStatus`, `FailTransfer` |
| `transfer/copy_phase.rs`, `batch_handlers.rs` | `StartCopyPhase`, `SkipCopiedBatch`, `BeginCopy`, `BeginSubsetCopy`, `SkipConflictingBatch`, `MarkConflict` |
| `resume/mod.rs`, `batch_flow.rs`, `step_handlers.rs` | `StartResume`, `SkipCopiedBatch`, `ResumeNeedsReview`, `ResumeVerifiesBatch`, the copy actions, `AwaitDeletion`, `FailResume`, `ReportFailed` |
| `transfer/batch_copy.rs`, `atomic_copy.rs` | `CopyNextFile`, `CopyCorruptsFile`, `FinishCopy` |
| `source_completion/completion.rs` | `MarkLedger`, `DropLedger` |
| `transfer/verify_phase.rs`, `verify.rs` | `StartVerifyPhase`, `SkipVerification`, `VerifyBatch` |
| `transfer/delete_phase.rs`, `shared/deletion.rs`, `prompt.rs`, `cleanup.rs` | `EnterDeletePhase`, `BeginDelete`, `RemoveNextFile`, `RemoveFails`, `FinishDelete`, `Approve`, `Decline`, `RefuseUnattended`, `DeletionDone` |
| `snapshot/` | `TakeSnapshot`, `PassOverSnapshot` |
| `signal.rs` and every `?` | `Abort` |
| the environment | `Crash`, `OperatorClears`, `LoseCopy` |

### Abstractions, and why they lose nothing the properties tell apart

- **A change in memory and the persist that follows it are one step.** Nothing
  durable happens between them, so a crash between them is a crash before them.
  A persist that fails takes the command to its error exit with the change in
  memory. For transfer that memory is lost (its exit writes the registry only).
  For resume, whose exit persists the memory, what it would carry over is the
  update whose write failed; that write succeeding at the second attempt is the
  step followed by `Abort`. The one update the code makes in memory and does
  not persist (a failed removal: the `?` in `shared/deletion.rs:94` returns
  before the persist) is a step of its own, `RemoveFails`.
- **The state file is one atomic file.** `StateStore` shows that its two copies
  are one (`IsRegister`), and when they are not.
- **The registry is the effective status of the newest entry.** A pending
  status counts as the status to every reader, so begin-commit is one
  change at its begin; that readers see one status, whatever is interrupted, is
  `Bookkeeping`'s `IsStatusBoard`. `NotStarted`, which an entry has only until the same
  command marks it running, is folded into `Running`.
- **A copy is one step per file**, since the rename is atomic. `FileCopy`
  takes it apart.
- **The manifest is the constant `BatchOf`**, and a fresh plan equals it exactly
  when no planned file is missing at the source. This assumes that the operator adds
  nothing to the source during the migration, and that all planned files are
  still there when the first state is seeded.
- **Contents are classes, not bytes**: equal, damaged, foreign. A foreign file
  with the very content of the source counts as a conflict for the code and is
  harmless; it is left out.
- **What verification does not look at.** `verify.rs:41` passes over every
  planned file with a path component named `.caravan` and counts it as verified;
  `tests/verification_caravan_tests.rs:24` and `:92` have batches pass over
  copies that differ. The scan leaves out only *directories* of that name
  (`scan/mod.rs:148`), so a regular file called `.caravan`, or an entry of an
  older manifest, is planned, copied, never compared, and deleted. These files are the constant
  `CaravanNamed`, the others `Checked`. What the properties claim of a file
  (`Delivered`) is therefore equality for checked files and, for the
  rest, only that something stands at the destination.
- **What a listing does not show.** Conflicts are looked for in listings of the
  destination directories. One that cannot be read is passed over
  (`conflict.rs:90`), and so is an entry that cannot be examined (`conflict.rs:170`):
  the files there count as absent, and the copy renames over them. `Conflicts`
  is the set of results a check may have: all that stands there, less any
  files of the constant `Unlisted`, and each check may come out differently. The doc comment of
  `detect_batch_conflicts` (`conflict.rs:66`) promises an error instead.
- **The cleanup guards** (batch verified, batch approved, in
  `cleanup.rs:99-138`) guard `BeginDelete`; that no execution reaches them
  otherwise follows from the invariant.
- **The queues** of approved and newly approved batches are recomputed from the
  flags, which gives the same batches in the same order.
- **A failed snapshot** only warns and writes a journal entry; it is
  `PassOverSnapshot`, also taken when none is due.
- **A failure in the final write** of a command is past its error handling: it ends
  the process there, which is `Crash`.
- **Seeded defects.** Definitions introduced by the comment "Seeded defect" are
  not part of the model. Each is a plausible mistake in the definition that
  follows it; putting it in place must break the property that guards against
  it, which shows that the property can fail.

## The modules around the core

### StateStore

A transfer writes its state to the *canonical* file in the source directory and
then, with the same revision, to the *backup* `.caravan/state.json` of the
working directory; when it starts it reads both and takes the one of higher
revision. A resume reads and writes one file, whichever `--state` names; the
default is the backup (`cli.rs:75`). The model resumes either.

| Variable | In the code |
|---|---|
| `copy` | what each path holds: nothing, a damaged file, or revision and state |
| `caller`, `resumes`, `at` | the running command's migration, its kind, the file of a resume |
| `mem`, `newest` | its state in memory, the revision of the write under way |
| `version` | persists so far, which tells states apart |
| `astray` | history: migrations resumed from a copy of which a newer one was there, until a transfer has written both again |

| Code | Actions |
|---|---|
| `transfer/setup.rs` `load_or_create_state`, `state_store.rs` reconciliation | `StartTransfer` |
| `resume/state_load.rs` | `StartResume` |
| `persist_state_with_compat_backup` | `PersistTransfer`, `PersistBackup` |
| `persist_state` | `PersistResume` |
| errors, crashes, the end | `End` |
| the environment | `LoseCopy`: a copy is damaged or removed while the other is at least as new |

The write of one file is atomic (`atomic_write.rs` syncs a temporary file and
renames it). A checksum agrees when the states do, so states are compared instead. Damaged covers what does not parse,
has a wrong checksum or an unknown version. A file of an older version without an
envelope is in the initial states.

The abstract specification `StateRegister` has a value and the state a running
command holds: a command starts from the value, or from a fresh state if there
is none, and a write takes effect at once. `IsRegister` maps the value to what a
transfer would load now.

It has one exception, `StartBehind`, and the code needs it. After a failed backup, or a crash between
the two writes, the backup is behind, and a plain `caravan resume` starts from
it. Its writes are numbered after the backup alone (`state_store.rs:41`), so they may reach
the revision of the canonical copy with other contents, which a transfer then
refuses as corrupt, or pass it and be loaded in place of a later state. A
migration is `astray` from such a resume to the next write of a transfer.
`LeftBehind` compares the revisions on disk and nothing else: the resume of a
copy that is level with the other is no exception, nor is one whose other
copy is lost. What is claimed of a migration that is astray is less, but not nothing: its copies
stay its own, and a transfer never starts afresh past a sound canonical copy.

### FileCopy

`FileCopy` is one batch at the destination, byte by byte as far as it matters:
sizes are numbers, a file under a name is a number of bytes.

| Variable | In the code |
|---|---|
| `size`, `options`, `batchOf` | the source, `--batch-size` and `--max-files`, the plan cut from them |
| `config` | mode, copy strategy, platform |
| `final`, `part` | bytes under each destination name, and under its `.caravan.part` name |
| `durable` | what a power loss may leave under each destination name |
| `made`, `entered` | the directories that exist; those whose entry in their parent is on disk |
| `others` | bytes of others on the volume |
| `copied`, `verified`, `removed` | the records of the state file; the deleted source files |
| `pc`, `current`, `todo`, `file` | where the copy of which batch is |

| Code | Operators and actions |
|---|---|
| `plan/batching.rs` | `Joins`, `AddFile`, `PlanBatches` |
| `transfer/strategy.rs`, `backend.rs` | `NativePreferred`, `DurableWrites`, `SyncsDirectories` |
| `capacity/mod.rs`, `capacity_guard.rs` | `GuardAllows`, `Roots`, `CheckSpace` |
| `batch_copy.rs`, `copier.rs` | `BeginFile`, `WriteByte`, `FallBack`, `FinishWrite` |
| `atomic_copy.rs`, `batch_copy.rs` | `SyncData`, `Rename`, `SyncParents`, `RecordCopy`, `Fail` |
| `verify.rs`, `cleanup.rs` | `Verify`, `RemoveSource` |
| the environment | `PowerLoss`, `OthersWrite` |

**Power loss.** A rename adds the possible contents of the file to `durable`; what
the name held before stays possible until its directory is synced. Power
loss picks one possible content for every name. Data that was not flushed may
come back as any prefix; flushed data comes back whole. The state file is
durable whenever it is written (`atomic_write.rs` syncs it and its directory).
Where directories cannot be synced (Windows) the code's `sync_directory` does
nothing, and the promises below are made only where there are barriers
(`HasBarriers`).

**Directories.** The destination is a tree (`Dir`, `DirOf`, `Above`), of which
`Standing` is there before the first command. `BeginFile` makes what a file's
directory lacks (`create_dir_all`, `batch_copy.rs:49`), `CheckSpace` the
destination itself. `sync_parent_directories` syncs the immediate parents of the
batch's files and nothing above them (`atomic_copy.rs:101`). A name in a
synced directory is durable; the name of the directory is so only when *its* parent was
synced too, because a file of the batch lies there. A power loss may
take each directory that is `made` and not `entered`, with all below it. So the
barriers of migrate mode do not reach every file. Those they reach are
`Guarded`: each directory on the way was standing, or its parent gets
a file of the same batch. A recorded batch in a directory tree that the copy has made
is not, and can vanish, after its source was deleted too: TLC finds that execution
at once when the two claims are stated without `Guarded` (in `MCFileCopy`, `music` is such a directory
whenever its files are not in one batch with the file beside it).

The abstract specification `KeptCopies` has no batches, temporary names or space: a chain of four
sets of files, each entered from the one before. A file is *kept* when power
loss cannot take or shorten its copy, *recorded* when the state file calls it copied,
*trusted* when it calls it verified, *released* when its source is removed. Of
guarded files nothing kept is ever given up and only kept ones are recorded; a record may be
taken back only of files that are not released. `CopiesAreKept` maps kept to the
files whose `durable` content can only be the whole file and whose directories
are all `entered` (`Survives`).

### Bookkeeping

The migrations of one source share the registry of the working
directory and the ledger and state files in the source. `Registry` and
`SourceCompletion` define the operations on them as plain operators;
`Bookkeeping` is the state machine.

| Variable | In the code |
|---|---|
| `content`, `copies` | the source files; the files of each destination |
| `entries` | the registry: destination, status, pending status |
| `states` | a state file for each destination: a phase and a size per file, and the files the plan skips |
| `ledger` | path and content (for size and digest) |
| `pc`, `job`, `id`, `target`, `then`, `cur` | the running command, its registry entry, the status it is entering, where it goes on, its batch |
| `stale`, `edits`, `given` | history: withdrawals cut short; operator's edits and commands so far |

| Code | Operators and actions |
|---|---|
| `migration_registry.rs`, `shared/app_context.rs` | `Register`, `FindEntry`, `Begin`, `Commit` over `FindBySourceDest`, `FindActive`, `AddMigration`, `BeginTransition`, `CommitTransition` |
| `transfer/setup.rs`, `transfer/mod.rs` | `StartTransfer`, `BackfillLedger`, `Seed`, `Rerun`, `EndCopyPhase` |
| `resume/mod.rs` | `StartResume`, `RefuseResume`, `ReviewResume` |
| `source_completion/` | `Backfill`, `Marked`, `Withdrawn`, `Skips`, `NewState`, `SkipsValid`, `ManifestMatches` |
| `shared/batch_ops.rs`, `transfer/batch_handlers.rs`, `resume/batch_flow.rs` | `BeginCopy`, `CopyFile`, `FinishCopy`, `Mark`, `VerifyBatch`, `Withdraw`, `AwaitDeletion` |
| `shared/deletion.rs`, `cleanup.rs` | `RemoveFile`, `FinishDelete`, `Approve`, `FinishCommand`, `Fail` |
| errors, kills, the operator | `Abort`, `Crash`, `Edit` |

Every action ends with the write of one file, so that `Crash` may come between
any two. Left out, because registry and ledger do not depend on it: batches of
several files, conflicts (destinations start empty and nothing else writes there), the other mode,
snapshots, the second copy of a state, removals that fail, the phase an
erring resume gives its migration, files named `.caravan` (in `Migration` and
`FileCopy`), and the re-seeding by a resume of a state without a manifest. Edits of the source come between commands only.

The abstract specification `StatusBoard` has one status for each destination: it
is opened when there is none or the last has ended, and changed only while
it has not ended. `IsStatusBoard` maps it to the effective status of the newest
entry.

### SafeMove

`SafeMove` is what `Migration` promises without batches, phases or files: files
arrive; when all have arrived the move is committed; under the commit files are
released at the source and no copy changes; before the first release the commit
may be withdrawn, afterwards never. The files are those that verification
checks; the commit is the state *file* with every batch passed and approved. A failed removal, an error exit or a later command that
weakened that record, or a copy that touched a committed file, would be a step
SafeMove does not have.

## Properties

| Property | Claim | Hazard it is for |
|---|---|---|
| `NoFileLost` | every file is at the source or, equal, at the destination; one named `.caravan` is at the source or has something standing there | skips, stale flags, failed deletions combining over several commands |
| `DeletesOnlyApprovedState` | a removal happens only when the state *file* has every batch passed and approved | one answer approving around a failed batch |
| `StateFileMatchesSource` | deleted batches are gone from the source; unapproved ones are whole | order of removal and record |
| `CompletedMeansMoved` | a completed entry means an empty source and a completed state, for good | later commands meeting a terminal entry |
| `RecordedProgressStays` | an approval or deletion in the file is never taken back | re-seeding, the error exits |
| `ResumeKeepsForeignFiles` | resume never overwrites a file that is not caravan's, where listings can be relied on | conflict check skipped for a begun copy |
| `VerifiedNotRecopied` | the destination of a verified batch is not written again, where listings can be relied on | a batch failed after its verification, with a stale flag |
| `LedgerAddsOnlyCopies` | only files a copy wrote enter the ledger | partly copied batches |
| `MovesSafely` | `Migration` implements `SafeMove` for the checked files | all of the above, in their order in time |
| `NeverDiverges` | no transfer meets two state copies it must refuse, unless the migration is astray | writes cut short, failed backups, lost copies, resumes of either copy |
| `IsRegister` | every command starts from the state last persisted, but for a resume of a copy left behind and what follows it | the same |
| `CanonicalIsAuthoritative` | no transfer starts afresh past a valid canonical state, nor, unless astray, from less than it holds | a backup that migrations share, see below; a backup that is behind |
| `NeverTorn` | no half file under its final name, after power loss either | rename before flush |
| `RecordedCopiesSurvive` | the guarded files of a recorded batch survive power loss | record before directory sync; several directories, new ones among them |
| `MigrateKeepsRemoved` | a removed guarded file is whole at the destination | both, over copies that are repeated |
| `CopiesAreKept` | `FileCopy` implements `KeptCopies` | a repeated copy, failure or power loss that takes back what deletion relies on |
| `RoomToFinish` | a batch the guard let through fits to its last byte | leftovers, restarted native copies, replaced older copies |
| `PlanIsGreedy` | batches are runs in order, within limits or single, and no batch could have taken the next file | files at and over the limits, empty files |
| `OnlyNewestUnfinished` | at most one unfinished entry per destination, the newest | transfer looks for the first, resume for the last |
| `IsStatusBoard` | an ended migration stays ended; a new one starts only after it | crash between intent and commit |
| `LedgerBacked` | an entry rests on a recorded copy, or its withdrawal was cut short | mark, fail, withdraw, crash |
| `SkippedElsewhere` | what a destination skips has been copied to another | backfill from begun or failed batches |
| `PlansOnlyUncopied` | no recorded copy is planned again | crash between record and ledger |
| `SkipsOnlyCopied` | nothing uncopied is skipped | failed verifications, edited files |
| `RerunGoesOn` | an unfinished migration can be continued | another migration's deletion; see below |
| `LoopsDescend` | each step of a command's own code lowers a measure of what is left of it | loops that change the queues and counters they run by |
| `SessionEnds` | every command ends | the delete loop, which recomputes its queues |
| `RerunningCompletes` | re-running transfer completes the migration | states the next run refuses |
| `ConflictsNeverOverwritten`, `NoDeletionAgainstMissingCopy`, `ResumeReconcilesOwnCopies` | what the documents say and the code does not do | see below |

`TypeOK` is the type invariant of `Migration`, `Inv` its inductive invariant;
`StoreInv`, `CopyInv` and `BookInv` are those of the other modules, type
invariant included.

`LedgerBacked`, `SkipsOnlyCopied` and `PlansOnlyUncopied` speak of path and size, as the code's
backfill does. They do not claim that a listed digest was ever copied: a
file edited to the same size after its copy is listed with its new digest.

## Runs

| Run | Question | Result |
|---|---|---|
| `safety` (MCMigration) | any sequence of transfers and resumes with every option, over all 27 mixes of absent and foreign files, with crashes, aborts, damaged copies, failed removals, an operator clearing files | all safety properties and `Inv` hold, and `SafeMove` is implemented; 407,000 states |
| `drift` (MCDrift) | the same for one transfer command and a recovering resume, when copies may be lost or damaged between commands | `Inv` without its part on intact copies, gating, recorded progress, the descent of the loops and termination hold; 464,000 states. `NoFileLost` is not claimed here: with drift a file deleted after its verification can of course be lost |
| `rerun` (MCRerun) | up to three interruptions while the source is whole | re-running completes the migration |
| `rerun_deletion` (MCRerunDeletion) | one interruption anywhere | violated: see below |
| `conflicts` (MCConflicts) | foreign files and every command | violated: see below |
| `missing_copy` (MCMissingCopy) | drift and every command | violated: see below |
| `half_copied` (MCHalfCopied) | transfer, crash, resume | violated: see below |
| `store` (MCStateStore) | two migrations with a backup each: interrupted writes, failed backups, lost copies, legacy files, resumes of any of the four files, in any order | the copies are a register and never diverge, strays apart, and no transfer forgets the canonical one; 418,000 states |
| `shared_backup` (MCSharedBackup) | the same from one directory, with one backup | violated: see below |
| `copy` (MCFileCopy) | every plan and size of three files, two of them in a new directory, migrate on Linux and on Windows, failures, full disks, power loss | all properties hold and `KeptCopies` is implemented; 959,000 states |
| `bookkeeping` (MCBookkeeping) | three commands for two destinations, failing and crashing anywhere, one edit | all properties hold; about 2.2 million states |
| `other_removal` (MCOtherRemoval) | up to four commands, no edits | violated: see below |

**Bounds.** Three files in two batches, of two files and of one (`BatchOf`), are
the least that has a batch interrupted in its middle, a batch with some files
in conflict and some not, a batch with all in conflict, and one batch
failing beside a batch that passes. Nothing else is bounded in the safety
model: the number of commands, crashes and failures is unlimited, since no
variable counts them. `SnapshotEvery` is 2 in `safety`, so that a cadence
counts over both batches; 1 in `drift`, `rerun` and `rerun_deletion`, where
every deleted batch is due; and 0 (off) in the runs that stop before a snapshot. `MaxFaults`
bounds the interruptions of the liveness model, where there must be a last one: three allow one in
each of copying, verifying and a run made to recover from them; one is enough
for the violation.

`TransferAndResume` in `drift` keeps one command of each kind (liveness over all
ten is slow); the options left out only choose between branches the
safety run takes.

In `safety` the batch of one file comes first, in the other runs last. Of the
batch of two there, file 2 is `CaravanNamed` and file 3 `Unlisted`: verification looks at one of them, and a
listing shows the other. The first batch is listed in full, since it is the first whose failed
removal leaves a source that later commands accept, which `VerifiedNotRecopied` is
about. In `drift` and `rerun` file 3, the whole second batch, is `CaravanNamed` and file 2, of the
first, `Unlisted`. In the violated runs
both sets are empty, so that none of the four disagreements of the core depends on them.

`store`: five persists (`MaxVersion`) allow each of two migrations to write,
lose or miss a copy, write again and be read; the second copy lags by more than one
revision. `shared_backup` has four. A legacy file may lie at a
canonical path and at the backup of the same migration.

`copy`: three files, one in the destination itself, which is there, and two in a subdirectory
that is not, so that a plan can put a file of the new directory in one batch with a file of
its parent or not; file 2 is `CaravanNamed`. They have 0 or 2 bytes; batch sizes of 1, which every
file of 2 exceeds, and 4, which two of them fill exactly; a count limit of 2.
On a volume of 7 bytes, of which others take 0 or 1 (`MaxOthers`), the last of
six bytes are let through or refused by a single byte, and a repeated copy of four is refused. Both configurations are of migrate
mode, with the plain copy and with the native one and its fallback; staging has no barriers
and, in `RoomToFinish` and `PlanIsGreedy`, nothing migrate has not.

`bookkeeping`: two files, so that a plan can skip one and copy the other, and
two destinations. They are interchangeable, and `SYMMETRY` is used for them: no
definition tells them apart and no liveness is checked. Three commands
(`MaxCommands`) are one that leaves something behind, one for the other
destination that reads it, and a third that meets both; one edit (`MaxEdits`) may
change a file's size. `other_removal` allows a fourth command. Contents are two, of different sizes; a copy may also be damaged.

Deadlock is checked in every run but `bookkeeping` and `other_removal`, where the operator
stops after `MaxCommands`; elsewhere there is always a command to give.

## Fairness

- `FairSpec` has weak fairness on `SessionStep` only: the process, once started,
  keeps executing its own code, which is sequential. No fairness on
  faults, on the operator's commands, or on which branch is taken. It includes the prompt
  being answered, with yes or no; a prompt nobody answers waits, as it should.
- `LiveSpec` adds the operator the readme describes: the command is given again
  when it has ended (weak fairness on `Rerun`), and the prompt gets a yes
  sooner or later (strong fairness on `SayYes`, since a no ends the
  command and makes the prompt come back). Interruptions have no fairness and
  are finitely many, as "re-run it until it is through" presumes.

## Proofs

Every theorem below is checked by tlapm with its SMT (Z3), Zenon and LS4 backends,
down to the last step. They hold for every value of the constants that meets the
named assumptions of the modules; those are types, at least one batch, no empty
batch and the like, and TLC evaluates them in the runs.

### Migration

| Theorem | Property, for every reachable state or step |
|---|---|
| `InvariantHolds` | `Inv` |
| `TypeCorrect` | `TypeOK` |
| `StateFileTrue` | `StateFileMatchesSource` |
| `CompletedIsMoved` | `CompletedMeansMoved` |
| `DeletionGated` | `DeletesOnlyApprovedState` |
| `ProgressIsKept` | `RecordedProgressStays` |
| `ResumeIsPolite` | `ResumeKeepsForeignFiles` |
| `LedgerIsEarned` | `LedgerAddsOnlyCopies` |
| `InterruptedDeletionStays` | a deletion whose session has ended half way is never taken further |
| `NothingLost` (`~ Drift`) | `NoFileLost` |
| `VerifiedIsFinal` (`~ Drift`) | `VerifiedNotRecopied` |
| `CopiesStandAtDeletion` (`~ Drift`) | `NoDeletionAgainstMissingCopy` |
| `MigrationMovesSafely` (`~ Drift`, in `MigrationRefinementProofs`) | `MovesSafely` |
| `SafeMovesLoseNothing` (the same module) | `MovesSafely` implies that from the commit on every checked file has arrived, and before it none has been released |
| `OnlyBrokenSubsetsOverwrite` (in `ConflictProofs`) | `ListedFilesKept`: no foreign file that listings show is overwritten, while no copy of a non-conflicting subset is cut short |
| `ConflictsKept` (the same module) | `ConflictsNeverOverwritten`, if moreover every listing succeeds (`Unlisted = {}`) |
| `CommandsDescend`, `MeasureHasFloor` (in `MigrationProgressProofs`) | `LoopsDescend`; its measure consists of natural numbers |

They hold for every set of files (finite where a measure counts them), number
of batches and assignment of files to batches, every set of commands, every
cadence and every initial destination. Four assume `Drift = FALSE`, that copies
stay as they are between commands, because they are false without it: what they
claim is about those copies. All the others hold with drift too, all hold whichever files are
named `.caravan` and whichever listings miss, and the number of batches, of files, of commands and of failures is unbounded in all of them.

**Why an invariant is needed.** None of the properties is inductive. That
a removal loses nothing depends on the flags being true of the files, which
depends on which batches a copy may touch, which depends on the phases, on
disk and in memory, of this and of earlier commands. `Inv` has six parts:

1. `TypeOK`.
2. `Checkpointed`: memory equals the state file while a command works. In
   resume's error exit they still agree on approvals and deletions, the two
   flags that exit must not change when it persists its memory.
3. `StatesSound`: every state record, in memory and on disk, is sound. In it
   (`StateSound`) a deleted batch has passed, was approved and is gone from the source, and
   an approval covers all batches or none. The last is the surprising one:
   it holds because no command reaches its prompt with a batch that has not passed.
   Where copies stay put, a pass is moreover about the files now at the destination
   (`Delivered`: checked ones equal, `.caravan`-named ones present),
   and a batch whose copy has begun has none (`PassedIntact`). A batch of which a listing
   may miss files is exempt while its phase is not a verified one: such a batch can fail to be
   deleted, be taken for empty and copied again. Drift makes
   only this part untrue; keeping it apart is what lets the rest be
   proved with drift.
4. `SourceSound`: once a file is gone, everything has passed and is approved.
   Copies and verifications therefore meet an intact source only.
5. `LoopSound`: what the loops have established for the batches behind `cur`
   and the files no longer in `todo`.
6. `RegistrySound`: a completed entry is met at rest and was earned.

The argument for `NothingLost` is then short: a file not at the source means a
source that is not whole, so the state file has every batch passed (4), so it
is delivered (3). The crux of the induction is `CopyStepInv`: a copy writes to
a batch in `CopyStarted`, which has no pass (3), so it makes no pass untrue. To
enter `CopyStarted` a verified batch would have to survive the conflict check,
which finds its own copies if it can see them (`PassedConflicts`; if it cannot, the exemption
takes over), or be `CopyStarted`
already, which it is not. `VerifiedIsFinal` rests on the same.
`ResumeIsPolite` needs that the paths a resume has still to copy hold nothing a listing can show,
`LedgerIsEarned` that a whole copy has written every file no longer in `todo`.
`ProgressIsKept` goes through every write of the state file: all but one change
the state just read from it (2), keep the two flags of every batch, or
set one; the exit of a resume writes back a memory that agrees on them (2).

The preservation proof has a lemma for each group of actions (`CommandStartInv`,
`CopyStepInv`, `VerifyStepInv`, `DeleteStepInv`, `EndStepInv`, `FaultInv`,
`OperatorClearsInv`, `StutterInv`), in each a step for every action and under it
one for each part of `Inv` the action can disturb. The
action properties follow from `Inv` and `FileWriters`, which says which
actions change a file.

`MigrationMovesSafely` needs `Inv` before and after a step. A step that changes
the source is a removal, and the state file is then fully approved (4). A step
that changes the destination finds or leaves a batch without its pass, so it is
not under the commit (`WriteRefines`). A step that changes the state file and
makes it fully approved finds every checked file arrived (3); one that makes it less so
finds a whole source (4), since every removal needs the record
(`RecordRefines`).

**The three disagreements of the core, from the other side.** A run shows by a counterexample
what the code does against its documents; a theorem says how far that goes.
`OnlyBrokenSubsetsOverwrite` assumes that no crash, error or Ctrl-C meets the copy of a
non-conflicting subset (`SubsetsFinish`) and proves that then nothing overwrites a foreign
file a listing shows (`ListedFilesKept`): its invariant `BegunIsOwn` says that a batch in `CopyStarted` has no
such file, unless its other files are being copied right now. Where all listings
succeed that is the readme's sentence (`ConflictsKept`).
`CopiesStandAtDeletion` says the same of a missing copy: it was lost from outside, never
to caravan. `InterruptedDeletionStays` is the negative result for every plan and any number
of commands: with a file removed (`Stranded`), `StrandedSteps` shows that
starting, being refused and failing is all a command can do.

**Termination.** `SessionEnds` itself needs fairness and ENABLED, and stays with TLC. What can
be proved of it is its reason. `MigrationProgress` measures what is left of a
command by four numbers, compared in order: the stage; the rounds of its loop (batches still to come
in a loop over batches; batches not deleted, plus batches not approved, in the
deletion loop); the steps of the round; the files of the copy or removal. `CommandsDescend`
proves that every step of the command's own code lowers it, from any state an earlier
command or drift may have left, `MeasureHasFloor` that it cannot fall for ever. The deletion
loop is the case that needs an invariant: a batch taken from the queue was not deleted
before (`DeletesUndeleted`), and one that is approved was not approved.

### StateStore

| Theorem | Property |
|---|---|
| `StoreInvariantHolds` | `StoreInv` |
| `CopiesReconcile` | `NeverDiverges` |
| `CanonicalLeads` | `CanonicalIsAuthoritative` |
| `StoreImplementsRegister` | `IsRegister` |

They hold for any migrations and paths under the assumption `Separate`: no two
migrations share a canonical file or a backup (`shared_backup` shows what happens when they
do). Which files are resumed is not restricted. `StoreInv` says that
every copy is of a migration that keeps it there (`OwnCopies`); that of two valid copies
the one of higher revision is not the older state, and copies of equal revision are
equal (`InStep`, of migrations that are not astray); that a resume which is not astray has the leading copy,
and that between the two writes the canonical copy is the one just written, by a migration that
is not astray (`CommandSound`). Either copy may lead: the canonical one after a failed
backup, the backup after a resume of it. The transfer numbers its write after
both, which is what ends a stray: its write is newer than either copy, whatever
a resume has made of them. For the refinement, the write of a transfer to its canonical copy, and of a
resume, is the register's write and the write of the backup a stutter; a lost copy is a stutter
since it was not ahead of the other; everything a migration does while it is astray is the register's
`Stray`. `CanonicalLeads` is the counterpart of the run
`shared_backup`: with a backup of its own for each migration (`OwnCopies`) a transfer finds no foreign
backup that could make it start afresh, and `InStep` leaves a copy it prefers no older than the
canonical one.

### FileCopy

| Theorem | Property |
|---|---|
| `CopyInvariantHolds` | `CopyInv` |
| `NamesNeverTorn` | `NeverTorn` |
| `RecordsOutliveNothing` | `RecordedCopiesSurvive` |
| `BarriersKeepRemoved` | `MigrateKeepsRemoved` |
| `OnlyPowerLossLoses` | `RemovedSourcesSurvive` in every mode, while power loss leaves renamed files as they are (`NamesLast`) |
| `GuardedBatchesFit` | `RoomToFinish` |
| `CopiesNeverRunFull` | a write of a batch the guard let through never meets a full disk |
| `EmptyBatchesStay` | no file of a batch without a byte is ever released for deletion |
| `PlansAreGreedy` | `PlanIsGreedy` |
| `CopiesServeDeletion` | `CopiesAreKept` |
| `ReleasedAreKept` | `CopiesAreKept` implies that guarded files once released are kept |

They hold for every number of files, sizes, directories, configurations and
capacities. `CopyInv` says, beside types, that in migrate mode a name stands for nothing or for the
whole file, and of recorded batches, as far as the barriers reach, for the whole file for sure, with every
directory on the way to it on disk (`DurableNames`); how far the running copy has come (`CopyProgress`); and that
removed files belong to verified batches, which are not being copied
(`RemovedWereVerified`).

`CopiesServeDeletion` maps each step of `FileCopy` to one of `KeptCopies`: the start of a copy
takes back the record of its batch, whose files are all at the source; a directory sync
settles files; power loss settles what it finds, and takes no guarded file that was kept
(`LossSurvives`: a file whose directories are all entered is under none that can be lost). That
the sync makes the guarded files of the batch kept is `SyncSurvives`: of the directories on the way to one,
each was standing, and so entered, or is entered in a parent the batch touches.
`OnlyPowerLossLoses` speaks of staging too, which has no barriers and of which
`NeverTorn`, `RecordedCopiesSurvive` and `MigrateKeepsRemoved` therefore say nothing: all it can lose a copy to is
power loss, not its failures, repeated copies or leftovers.

**Space.** The guard asks once, and the copy then goes on over leftovers it clears, native copies that
start over, and older files its renames replace. `RoomToFinish` is inductive with `CopyInv`: what is
free, with the bytes already in the temporary file, exceeds what is left to copy. The sums
are over sets of files, by the library's recursive `SumFunctionOnSet`; that a
sum does not depend on the order, loses exactly what is taken out of the set, and grows
by what is put in, is proved in `SumLemmas`. The provers cannot apply an induction
theorem, which takes an operator. The lemmas assume a smallest
counterexample instead: of the sets that violate the claim one has no smaller one among them
(`LeastSet`), and that one is refuted.

**The plan.** `PlanBatches` is a recursive function over the files. `PlanExists` shows, again
with a least counterexample, that there is such a function, and `PlanIsLoop` that it takes
the steps of the code's loop. `PlanSound` is the loop's invariant after the i-th file:
the last batch is counted right, the batches are numbered without a gap, each
fits or is a single file, and none could have taken the first file of the next.

### Bookkeeping

| Theorem | Property |
|---|---|
| `BookInvariantHolds` | `BookInv` |
| `RegistryNotSplit` | `OnlyNewestUnfinished` |
| `EntriesBacked` | `LedgerBacked` |
| `SkipsBackedElsewhere` | `SkippedElsewhere` |
| `NoCopyPlannedAgain` | `PlansOnlyUncopied` |
| `NothingSkippedUncopied` | `SkipsOnlyCopied` |
| `RegistryImplementsBoard` | `IsStatusBoard` |
| `OnlyOtherRemovalsRefuse` | `RerunGoesOn`, while no command removes a file another destination skips (`SparesSkipped`) |

They hold for any number of files, destinations, commands and edits. `BookInv`
adds to the three invariants `JobEntry` (the command's entry is the newest of its
destination and unfinished until its last status is entered) and `JobState`
(where the loops stand; a copying command's plan still fits the source). The argument in
short: an entry is added only when the destination has no unfinished one, and
only the newest is ever updated, so no older one can come back to life. A
phase that counts as copied is left only into a failed verification or a new copy of
the same command, whose ledger entry is then either withdrawn, or listed in `stale`, or
about to be made again. A plan is made under a ledger the backfill has just
completed (`Seed` follows `BackfillLedger` with no write between them), which is why a
crash between the record of a copy and its ledger entry does no harm.

`OnlyOtherRemovalsRefuse` is the counterpart of the run `other_removal`: its invariant
`SkipsStand` says that what a destination skips is outside its own plan and, the operator's edits
apart, still at the source as listed; only the deletion of another migration ends that.

**Model-checked only:** `SessionEnds` and `RerunningCompletes`, liveness under fairness, which
is out of the provers' reach. `LoopsDescend` is the part of the first that is proved.
`ResumeReconcilesOwnCopies` and the other properties of the violated runs are
false as they stand; what is proved of them is named above.

## Disagreements with the documents

Each is shown by a run whose property states the document's sentence; the
quotes and lines are in `PROJECT.json` under `findings`.

1. **`conflicts`.** Conflicts are not looked for in a batch in `CopyStarted`, on the
   reasoning that its files are caravan's own. With the skip-file policy the
   copy of the *non-conflicting subset* sets that phase too. Interrupted there,
   the next transfer copies the whole batch over the conflicting file. The
   readme says such files are never overwritten. (Resume always looks, which
   `ResumeIsPolite` proves. Besides listings that fail, below, it is the only way to
   it: `OnlyBrokenSubsetsOverwrite`.)
2. **`rerun_deletion`.** After the first removal a fresh plan no longer equals
   the manifest, and both commands refuse to run. An interruption during the
   deletion leaves a migration no command finishes, where the readme says to
   re-run. Nothing is lost by it (`NothingLost`), and it is so
   for every plan (`InterruptedDeletionStays`).
3. **`missing_copy`.** Resume reconciles every batch with the destination, and
   for verified and approved batches drops the result. It deletes sources
   of batches whose copies have gone since, where plan.md asks for a stop.
4. **`half_copied`.** After power loss within a batch, resume takes the files
   already copied for conflicts and fails the batch, where plan.md asks it to
   reconcile them. It is the counterpart of the first: transfer trusts the
   phase too much, resume not at all.

5. **`shared_backup`.** The backup belongs to the working directory, not to the migration. When
   another migration has written it last, with a higher revision, a transfer
   prefers it to its own valid canonical copy, sees that it is foreign, and
   starts with a fresh state. The comments in `state_store.rs` call
   the canonical copy authoritative and the backup a matter of warnings.
6. **`other_removal`.** A migration leaves out a file that has been copied to another
   destination. When the other migration deletes its sources, this one can
   neither be run again nor resumed: a skipped file is missing. The readme
   says to re-run.

Four more weaknesses have no run of their own. They are executions of the models,
and the properties and theorems are stated with the condition that sets them apart; TLC finds each as a
counterexample when that condition is dropped.

- A file named `.caravan` is deleted without having been compared (`verify.rs:41`): `NoFileLost` with
  equality for all files.
- A destination that cannot be listed is taken for empty, and its files are
  overwritten, by a resume too (`conflict.rs:90`): `ResumeKeepsForeignFiles` without
  `Unlisted`. The doc comment at `conflict.rs:66` promises an error.
- A crash between the two writes of a state, or a failed backup, and then a
  `resume` with its default path lead to two copies no transfer accepts:
  `NeverDiverges` without `astray`.
- Power loss takes a recorded or removed file with the new directory it is in:
  `RecordedCopiesSurvive` and `MigrateKeepsRemoved` without `Guarded`.

## What is not modelled, and why

- Scanning, command-line parsing, formatting, logging, status output: no
  protocol state. The file systems, btrfs, VSS and platform calls are
  external.
- `resume --inspect-failed` only reads. `resume/policy.rs` has no caller
  outside its tests.
- Two caravan processes at once. Registry and ledger are loaded, changed and
  saved without a lock, so updates are lost; the code has no means against it
  and no document speaks of it, so there is no promise to check.
- A state file without a manifest (older versions) in a resume, which seeds it
  from the source: in the core and in `Bookkeeping` every state has one.
- Destination names that collide with the temporary name of another file.
- The barriers' absence in staging mode, which is deliberate: power loss
  soon after a staging deletion may take the copy, and nothing else may
  (`OnlyPowerLossLoses`).
- A batch of empty files: the capacity guard refuses to copy it, so such a migration
  ends in an error each time it is run (`EmptyBatchesStay`).
- Blocks: the guard and `RoomToFinish` count the bytes of files, not the blocks a
  file system rounds them up to, nor its directories and metadata.
- The creation of a snapshot and its record as two steps. A crash between them leaves
  a snapshot the state does not name, and no later command takes it again.
- Preflight's checks: each can stop a command before its first batch, which is
  `Abort`. The diagnostics of the capacity guard are text.
- What the ledger says of contents: see the remark under Properties.
- The mode as part of a ledger entry's identity: every migration of a model has the same.

## Plan

Done: the core, `StateStore`, `FileCopy` and `Bookkeeping` with their abstract
specifications, and proofs of every safety and action property the passing runs check.

Left, in this order:

1. `RerunningCompletes` as far as it can be proved: a measure over commands, as
   `MigrationProgress` is one over the steps of a command.
2. `Snapshots`: creation and record as two steps.
3. Two processes on one registry and ledger, should the code get a lock.

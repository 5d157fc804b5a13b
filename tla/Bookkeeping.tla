---------------------------- MODULE Bookkeeping ----------------------------
(***************************************************************************)
(* The migrations of one source to several destinations, and the two files *)
(* they share: the migration registry and the completed-file ledger.  An   *)
(* operator runs one command at a time, a transfer or a resume, for one of *)
(* the destinations; it may fail at any step, or crash between any two.    *)
(*                                                                         *)
(* Each step ends with the write of one file.  What Migration models in    *)
(* full is reduced to what the shared files depend on: one file to a       *)
(* batch, destinations that start empty and that nothing else writes to    *)
(* (so there is no naming conflict), no snapshots.                         *)
(***************************************************************************)
EXTENDS Registry, SourceCompletion

CONSTANTS
    First,       \* what the source files hold at first
    Absent,      \* no file at a destination path
    Damaged,     \* a copy of the right size with other bytes
    NoDest,      \* no destination: no command runs
    MaxCommands, \* bound: commands the operator gives
    MaxEdits     \* bound: changes the operator makes to source files

ASSUME FirstAssumption == First \in [File -> Content]
ASSUME AbsentAssumption == {Absent, Damaged} \cap Content = {}
ASSUME NoDestAssumption == NoDest \notin Dest
ASSUME BoundsAssumption == MaxCommands \in Nat /\ MaxEdits \in Nat

VARIABLES
    content,  \* what each source path holds
    copies,   \* what each path of each destination holds
    entries,  \* the registry
    states,   \* the state file of each destination
    ledger,   \* the completed-file ledger
    stale,    \* paths whose withdrawal from the ledger was cut short
    edits,    \* how often the operator has changed a file,
    given,    \* and given a command
    pc,       \* where the running command is; "Idle" when none runs
    job,      \* its name and its destination
    id,       \* the registry entry it updates; 0 = none
    target,   \* the status being entered there
    then,     \* where the command goes on after that
    cur       \* the batch it is working on

history == <<stale, edits, given>>
running == <<job, id, target, then>>
durable == <<content, copies, entries, states, ledger, history>>
vars == <<content, copies, entries, states, ledger, stale, edits, given,
          pc, job, id, target, then, cur>>

Job == [name : {"none", "transfer", "resume"}, dest : Dest \cup {NoDest}]
NoJob == [name |-> "none", dest |-> NoDest]

Control == {"Idle", "Register", "Check", "Begin", "Commit", "Plan", "Seed",
            "Review", "Copy", "CopyFile", "FinishCopy", "Mark", "Verify",
            "Withdraw", "Delete", "Removed", "Error"}

Init ==
    /\ content = First
    /\ copies = [d \in Dest |-> [f \in File |-> Absent]]
    /\ entries = << >>
    /\ states = [d \in Dest |-> NoState]
    /\ ledger = {}
    /\ stale = {}
    /\ edits = 0
    /\ given = 0
    /\ pc = "Idle"
    /\ job = NoJob
    /\ id = 0
    /\ target = NoStatus
    /\ then = "Idle"
    /\ cur = 1

IsTransfer == job.name = "transfer"
IsResume == job.name = "resume"

State == states[job.dest]
PhaseOf(f) == State.phase[f]

(* persist_state: the new state file replaces the old one *)
SetPhase(f, p) == states' = [states EXCEPT ![job.dest].phase[f] = p]

(* The next stage of the command. *)
Proceed(next) ==
    /\ pc' = next
    /\ cur' = 1
    /\ target' = NoStatus
    /\ then' = "Idle"
    /\ IF next = "Idle" THEN job' = NoJob /\ id' = 0 ELSE UNCHANGED <<job, id>>

(* Enter status `s`, then go on; a resume that found no entry has none to  *)
(* update.                                                                 *)
Enter(s, next) ==
    IF id = 0 THEN Proceed(next)
    ELSE /\ pc' = "Begin"
         /\ target' = s
         /\ then' = next
         /\ cur' = 1
         /\ UNCHANGED <<job, id>>

-----------------------------------------------------------------------------
(* persist_status_transition_with_intent: two loads, two saves. *)

Begin ==
    /\ pc = "Begin"
    /\ entries' = BeginTransition(entries, id, target)
    /\ pc' = "Commit"
    /\ UNCHANGED <<content, copies, states, ledger, history, running, cur>>

Commit ==
    /\ pc = "Commit"
    /\ entries' = CommitTransition(entries, id)
    /\ Proceed(then)
    /\ UNCHANGED <<content, copies, states, ledger, history>>

-----------------------------------------------------------------------------
(* Starting a command. *)

StartTransfer(d) ==
    /\ pc = "Idle"
    /\ given < MaxCommands
    /\ given' = given + 1
    /\ job' = [name |-> "transfer", dest |-> d]
    /\ pc' = "Register"
    /\ UNCHANGED <<content, copies, entries, states, ledger, stale, edits,
                   id, target, then, cur>>

(* register_migration: the unfinished entry is reused, or one is added *)
Register ==
    /\ pc = "Register"
    /\ LET found == FindBySourceDest(entries, job.dest)
       IN IF found # {}
          THEN id' \in found /\ UNCHANGED entries
          ELSE /\ entries' = AddMigration(entries, job.dest)
               /\ id' = Len(entries) + 1
    /\ pc' = "Begin"
    /\ target' = "Running"
    /\ then' = "Plan"
    /\ UNCHANGED <<content, copies, states, ledger, history, job, cur>>

StartResume(d) ==
    /\ pc = "Idle"
    /\ given < MaxCommands
    /\ given' = given + 1
    /\ states[d] # NoState
    /\ job' = [name |-> "resume", dest |-> d]
    /\ pc' = "Check"
    /\ UNCHANGED <<content, copies, entries, states, ledger, stale, edits,
                   id, target, then, cur>>

SourceUnchanged == SkipsValid(State, content) /\ ManifestMatches(State, content)

(* resume checks the source before it looks at the registry ... *)
RefuseResume ==
    /\ pc = "Check"
    /\ ~ SourceUnchanged
    /\ Proceed("Idle")
    /\ UNCHANGED durable

(* ... and updates the newest unfinished entry, if there is one *)
FindEntry ==
    /\ pc = "Check"
    /\ SourceUnchanged
    /\ LET found == FindActive(entries, job.dest)
       IN IF found # {}
          THEN /\ id' \in found
               /\ pc' = "Begin"
               /\ target' = "Running"
               /\ then' = "Review"
          ELSE /\ pc' = "Review"
               /\ UNCHANGED <<id, target, then>>
    /\ UNCHANGED <<durable, job, cur>>

FailedVerification == \E f \in File : PhaseOf(f) = "VerifyFailed"

(* a failed verification ends a resume, as it ends a transfer *)
ReviewResume ==
    /\ pc = "Review"
    /\ Proceed(IF FailedVerification THEN "Error" ELSE "Copy")
    /\ UNCHANGED durable

-----------------------------------------------------------------------------
(* Planning a transfer. *)

(* nothing recorded for this destination: the ledger is completed from the *)
(* states of the others                                                    *)
BackfillLedger ==
    /\ pc = "Plan"
    /\ ~ HasManifest(State)
    /\ ledger' = Backfill(ledger, {states[d] : d \in Dest}, content)
    /\ Proceed("Seed")
    /\ UNCHANGED <<content, copies, entries, states, history>>

(* ... and the files it does not list are planned *)
Seed ==
    /\ pc = "Seed"
    /\ states' = [states EXCEPT ![job.dest] = NewState(ledger, content)]
    /\ Proceed("Copy")
    /\ UNCHANGED <<content, copies, entries, ledger, history>>

MayRerun == ~ FailedVerification /\ SourceUnchanged

(* a re-run goes on with the recorded plan if the source still fits it *)
Rerun ==
    /\ pc = "Plan"
    /\ HasManifest(State)
    /\ Proceed(IF MayRerun THEN "Copy" ELSE "Error")
    /\ UNCHANGED durable

-----------------------------------------------------------------------------
(* Copying: transfer's copy phase, and the batch loop of resume.  A loop   *)
(* goes through the batches in order and passes over those that are done,  *)
(* so the next one is the first that is not.                               *)

FirstOf(fs) == {f \in fs : \A g \in fs : f <= g}

(* resume verifies what was begun and is there, transfer copies it again *)
NeedsCopy(f) ==
    \/ PhaseOf(f) = "Planned"
    \/ PhaseOf(f) = "CopyStarted" /\ (IsTransfer \/ copies[job.dest][f] = Absent)

NeedsVerification(f) == PhaseOf(f) \notin {"Unplanned", "Verified", "Approved", "Deleted"}

ToCopy == {f \in File : NeedsCopy(f)}
ToVerify == {f \in File : NeedsVerification(f)}

BeginCopy ==
    /\ pc = "Copy"
    /\ \E f \in ToCopy :
         /\ f \in FirstOf(IF IsTransfer THEN ToCopy ELSE ToVerify)
         /\ cur' = f
         /\ SetPhase(f, "CopyStarted")
    /\ pc' = "CopyFile"
    /\ UNCHANGED <<content, copies, entries, ledger, history, running>>

CopyFile ==
    /\ pc = "CopyFile"
    /\ \E c \in {content[cur], Damaged} : copies' = [copies EXCEPT ![job.dest][cur] = c]
    /\ pc' = "FinishCopy"
    /\ UNCHANGED <<content, entries, states, ledger, history, running, cur>>

FinishCopy ==
    /\ pc = "FinishCopy"
    /\ SetPhase(cur, "CopyCompleted")
    /\ pc' = "Mark"
    /\ UNCHANGED <<content, copies, entries, ledger, history, running, cur>>

(* the copy enters the ledger before it is verified *)
Mark ==
    /\ pc = "Mark"
    /\ ledger' = Marked(ledger, content, cur)
    /\ Proceed("Copy")
    /\ UNCHANGED <<content, copies, entries, states, history>>

EndCopyPhase ==
    /\ pc = "Copy"
    /\ IsTransfer
    /\ ToCopy = {}
    /\ Enter("Verifying", "Verify")
    /\ UNCHANGED durable

-----------------------------------------------------------------------------
(* Verifying: transfer's verify phase; resume verifies in the same loop.   *)

VerifyNow == pc = (IF IsTransfer THEN "Verify" ELSE "Copy")

VerifyBatch ==
    /\ VerifyNow
    /\ \E f \in FirstOf(ToVerify) :
         /\ IsResume => f \notin ToCopy
         /\ IF copies[job.dest][f] = content[f]
            THEN SetPhase(f, "Verified") /\ UNCHANGED <<pc, cur>>
            ELSE SetPhase(f, "VerifyFailed") /\ pc' = "Withdraw" /\ cur' = f
    /\ UNCHANGED <<content, copies, entries, ledger, history, running>>

(* handle_verification_error, then the command ends with the error *)
Withdraw ==
    /\ pc = "Withdraw"
    /\ ledger' = Withdrawn(ledger, cur)
    /\ stale' = stale \ {cur}
    /\ Proceed("Error")
    /\ UNCHANGED <<content, copies, entries, states, edits, given>>

AwaitDeletion ==
    /\ VerifyNow
    /\ ToVerify = {}
    /\ Enter("AwaitingDeletion", "Delete")
    /\ UNCHANGED durable

-----------------------------------------------------------------------------
(* Approval and deletion, and the end of the command. *)

InPhase(p) == {f \in File : PhaseOf(f) = p}

(* approved batches are deleted first, in order *)
RemoveFile ==
    /\ pc = "Delete"
    /\ \E f \in FirstOf(InPhase("Approved")) :
         /\ cur' = f
         /\ content' = [content EXCEPT ![f] = Gone]
    /\ pc' = "Removed"
    /\ UNCHANGED <<copies, entries, states, ledger, history, running>>

FinishDelete ==
    /\ pc = "Removed"
    /\ SetPhase(cur, "Deleted")
    /\ Proceed("Delete")
    /\ UNCHANGED <<content, copies, entries, ledger, history>>

Approve ==
    /\ pc = "Delete"
    /\ InPhase("Approved") = {}
    /\ InPhase("Verified") # {}
    /\ states' = [states EXCEPT ![job.dest].phase =
                    [f \in File |-> IF PhaseOf(f) = "Verified" THEN "Approved" ELSE PhaseOf(f)]]
    /\ UNCHANGED <<content, copies, entries, ledger, history, pc, running, cur>>

(* a batch that is not deleted, declined or not approved, keeps the        *)
(* migration open                                                          *)
FinalStatus ==
    IF \A f \in PlannedIn(State) : PhaseOf(f) = "Deleted"
    THEN "Completed" ELSE "AwaitingDeletion"

FinishCommand ==
    /\ pc = "Delete"
    /\ InPhase("Approved") = {}
    /\ Enter(FinalStatus, "Idle")
    /\ UNCHANGED durable

Fail ==
    /\ pc = "Error"
    /\ Enter("Failed", "Idle")
    /\ UNCHANGED durable

-----------------------------------------------------------------------------
(* What may happen to a command, and between commands. *)

CutsWithdrawalShort ==
    stale' = IF pc = "Withdraw" THEN stale \cup {cur} ELSE stale

(* an I/O error or Ctrl-C inside the part of a command whose errors are    *)
(* reported to the registry                                                *)
Guarded ==
    \/ pc \in Control \ {"Idle", "Register", "Check", "Begin", "Commit", "Error"}
    \/ pc \in {"Begin", "Commit"} /\ then \in {"Verify", "Delete"}

Abort ==
    /\ Guarded
    /\ CutsWithdrawalShort
    /\ Proceed("Error")
    /\ UNCHANGED <<content, copies, entries, states, ledger, edits, given>>

(* the process dies, or an error ends it elsewhere *)
Crash ==
    /\ pc # "Idle"
    /\ CutsWithdrawalShort
    /\ Proceed("Idle")
    /\ UNCHANGED <<content, copies, entries, states, ledger, edits, given>>

(* between two commands the operator changes a source file *)
Edit ==
    /\ pc = "Idle"
    /\ given \in 1 .. MaxCommands - 1
    /\ edits < MaxEdits
    /\ \E f \in Scan(content) : \E c \in Content \ {content[f]} :
         content' = [content EXCEPT ![f] = c]
    /\ edits' = edits + 1
    /\ UNCHANGED <<copies, entries, states, ledger, stale, given, pc, running, cur>>

Start == \E d \in Dest : StartTransfer(d) \/ StartResume(d)
Open == Register \/ RefuseResume \/ FindEntry \/ ReviewResume
Plan == BackfillLedger \/ Seed \/ Rerun
CopyStep == BeginCopy \/ CopyFile \/ FinishCopy \/ Mark \/ EndCopyPhase
VerifyStep == VerifyBatch \/ Withdraw \/ AwaitDeletion
Close == RemoveFile \/ FinishDelete \/ Approve \/ FinishCommand \/ Fail

Next ==
    \/ Start \/ Open \/ Plan \/ CopyStep \/ VerifyStep \/ Close
    \/ Begin \/ Commit \/ Abort \/ Crash \/ Edit

Spec == Init /\ [][Next]_vars

-----------------------------------------------------------------------------
(* Properties. *)

TypeOK ==
    /\ content \in [File -> Content \cup {Gone}]
    /\ copies \in [Dest -> [File -> Content \cup {Gone, Absent, Damaged}]]
    /\ entries \in Seq(Entry)
    /\ states \in [Dest -> StateRecord \cup {NoState}]
    /\ ledger \subseteq Identity
    /\ stale \subseteq File
    /\ edits \in Nat /\ given \in Nat
    /\ pc \in Control
    /\ job \in Job
    /\ id \in Nat
    /\ target \in Status \cup {NoStatus}
    /\ then \in Control
    /\ cur \in Nat

(* No destination has an unfinished registry entry besides its newest one, *)
(* whatever commands ran and crashed: register_or_reuse_migration takes    *)
(* the first unfinished entry and find_active_migration_id_for_state the   *)
(* last, so with two of them transfer and resume would report the status   *)
(* of one migration in different entries.                                  *)
OnlyNewestUnfinished ==
    \A d \in Dest : \A i, j \in IdsOf(entries, d) :
        i < j => ~ Unfinished(entries[i])

(* a destination's state records that a file of this size was copied *)
Holds(d, f, size, phases) ==
    /\ states[d] # NoState
    /\ states[d].phase[f] \in phases
    /\ states[d].size[f] = size

CopiedPhases == {"CopyCompleted", "Verified", "Approved", "Deleted"}

(* A ledger entry never stands alone: some destination's state records a   *)
(* copy of that path and size which is not known to be bad, or whose       *)
(* failed verification a command was about to enter, or was cut short      *)
(* before it entered it, in the ledger (handle_verification_error after    *)
(* verify_batch_with_state_updates).                                       *)
LedgerBacked ==
    \A e \in ledger : \E d \in Dest :
        \/ Holds(d, e.path, SizeOf[e.content], CopiedPhases)
        \/ /\ Holds(d, e.path, SizeOf[e.content], {"VerifyFailed"})
           /\ e.path \in stale \/ (pc = "Withdraw" /\ cur = e.path)

(* No file is skipped everywhere: what one destination leaves out of its   *)
(* plan has been copied, verified or not, to another one.                  *)
SkippedElsewhere ==
    \A d \in Dest : states[d] # NoState =>
        \A e \in states[d].skipped : \E c \in Dest \ {d} :
            Holds(c, e.path, SizeOf[e.content], CopiedPhases \cup {"VerifyFailed"})

(* the registered id is that of the newest entry of the command's          *)
(* destination, which is unfinished until its last status is entered       *)
JobEntry ==
    /\ pc = "Idle" <=> job = NoJob
    /\ pc # "Idle" => job.dest \in Dest
    /\ id # 0 =>
         /\ id \in IdsOf(entries, job.dest)
         /\ \A i \in IdsOf(entries, job.dest) : i <= id
         /\ Unfinished(entries[id]) \/ pc = "Commit"
    /\ pc \in {"Idle", "Register", "Check"} => id = 0
    /\ pc \in {"Begin", "Commit"} => id # 0 /\ target \in Status
    /\ pc = "Commit" => /\ entries[id].pending = target
                        /\ target \in Ended => then = "Idle"
    /\ pc = "Begin" /\ target \in Ended => then = "Idle"

(* the plan of the running command is that of the files at the source *)
PlanFits ==
    \A f \in PlannedIn(State) : content[f] # Gone /\ State.size[f] = SizeOf[content[f]]

(* where the loops of a running command stand *)
JobState ==
    /\ pc \in {"Check", "Review", "Copy", "CopyFile", "FinishCopy", "Mark", "Verify",
               "Withdraw", "Delete", "Removed"} => states[job.dest] # NoState
    /\ then \in {"Review", "Copy", "Verify", "Delete"} => states[job.dest] # NoState
    /\ then \in {"Idle", "Plan", "Review", "Verify", "Delete"}
    /\ then # "Idle" => pc \in {"Begin", "Commit"}
    /\ pc \in {"Review", "Copy", "CopyFile", "FinishCopy", "Mark"} => PlanFits
    /\ then = "Review" => PlanFits
    /\ pc \in {"CopyFile", "FinishCopy", "Mark", "Withdraw", "Removed"} => cur \in File
    /\ pc \in {"CopyFile", "FinishCopy"} => PhaseOf(cur) = "CopyStarted"
    /\ pc = "Mark" => PhaseOf(cur) = "CopyCompleted"
    /\ pc = "Withdraw" => PhaseOf(cur) = "VerifyFailed"
    /\ pc = "Removed" => PhaseOf(cur) = "Approved"
    /\ pc = "Seed" => /\ ~ HasManifest(State)
                      /\ ledger = Backfill(ledger, {states[d] : d \in Dest}, content)

BookInv ==
    /\ TypeOK
    /\ OnlyNewestUnfinished
    /\ LedgerBacked
    /\ SkippedElsewhere
    /\ JobEntry
    /\ JobState

(* the step that splits the files of a new migration *)
Seeding == pc = "Seed" /\ pc' = "Copy"

(* some destination's state records a copy of what is at the source now,   *)
(* as far as path and size tell                                            *)
RecordedCopy(f) == \E d \in Dest : Holds(d, f, SizeOf[content[f]], CopiedPhases)

(* A new migration plans no file whose copy, of the same size, another     *)
(* destination's state records, although a crash may have come between     *)
(* that record and the ledger's: the backfill makes up for it.             *)
PlansOnlyUncopied ==
    [][Seeding => \A f \in PlannedIn(states'[job.dest]) : ~ RecordedCopy(f)]_vars

(* A new migration skips no file that no other destination's state records *)
(* as copied, unless a failed verification was cut short before its entry  *)
(* was taken out of the ledger.                                            *)
SkipsOnlyCopied ==
    [][Seeding => \A e \in states'[job.dest].skipped :
                      e.path \in stale \/ RecordedCopy(e.path)]_vars

NewestIn(ids) == CHOOSE i \in ids : \A j \in ids : j <= i

(* the status of each destination, as a reader of the registry sees it *)
Board == [d \in Dest |->
            IF IdsOf(entries, d) = {} THEN NoStatus
            ELSE Effective(entries[NewestIn(IdsOf(entries, d))])]

Shown == INSTANCE StatusBoard WITH board <- Board

(* With crashes between intent and commit, and commands for several        *)
(* destinations, the registry shows one status per destination, changed by *)
(* that destination's unfinished migration only; an ended migration stays  *)
(* ended.                                                                  *)
IsStatusBoard == Shown!Spec

(* As the documentation has it, a command given again for an unfinished    *)
(* migration goes on where it left off, when nobody but caravan has        *)
(* changed the source.  It does not: a file that this destination skips    *)
(* may since have been removed for the destination it was copied to.       *)
RerunGoesOn ==
    /\ pc \in {"Plan", "Check"}
    /\ edits = 0
    /\ HasManifest(State)
    /\ \E f \in File : PhaseOf(f) = "Planned"
    => SkipsValid(State, content)
=============================================================================

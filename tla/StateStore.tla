----------------------------- MODULE StateStore -----------------------------
(***************************************************************************)
(* The persisted migration state.  A transfer keeps two copies of it: the  *)
(* canonical one in the source directory, named after the source and the   *)
(* destination, and a backup, .caravan/state.json of the directory it is   *)
(* run in.  It writes both with one revision, the backup as best it can,   *)
(* and reconciles them when it starts.  A resume reads and writes the one  *)
(* file it is given, by default the backup, be it up to date or not.       *)
(*                                                                         *)
(* A state is told apart by its migration and by how many persists made    *)
(* it; its checksum is its equality.                                       *)
(***************************************************************************)
EXTENDS Naturals, FiniteSets

CONSTANTS
    Identity,    \* migrations: mode, source and destination
    Canonical,   \* paths of canonical state files
    Backup,      \* paths of backups, one for each working directory
    CanonicalOf, \* the canonical path of a migration
    BackupOf,    \* the backup path of the directory a migration is run in
    LegacyPaths, \* the paths an older caravan may have left a state at
    Observed,    \* the migration whose register StateStore implements
    MaxVersion,  \* bound: persists in all
    NoState,     \* no command runs; nothing was ever persisted
    Missing,     \* a path that holds no file
    Damaged      \* one whose file does not parse, or whose version or checksum is wrong

Path == Canonical \cup Backup

State == [owner : Identity, version : 0 .. MaxVersion]

(* MigrationState::new *)
FreshOf(m) == [owner |-> m, version |-> 0]

(* PersistedStateEnvelope.  A legacy file, a bare state, reads as revision 0. *)
Envelope == [revision : Nat, state : State]

ASSUME PathAssumption == Canonical \cap Backup = {}
ASSUME CanonicalOfAssumption == CanonicalOf \in [Identity -> Canonical]
ASSUME BackupOfAssumption == BackupOf \in [Identity -> Backup]
ASSUME LegacyPathsAssumption == LegacyPaths \subseteq Path
ASSUME ObservedAssumption == Observed \in Identity
ASSUME MaxVersionAssumption == MaxVersion \in Nat
ASSUME NoStateAssumption == NoState \notin State
ASSUME LostAssumption == Missing # Damaged /\ {Missing, Damaged} \cap Envelope = {}

VARIABLES
    copy,    \* what each path holds
    pc,      \* "Idle", "Running" or, between two writes, "WriteBackup"
    caller,  \* the migration of the running command
    at,      \* the path a resume was given; that of a transfer is canonical
    resumes, \* whether the running command is a resume
    mem,     \* its in-memory state
    newest,  \* revision of the write under way
    version, \* persists so far
    astray   \* history: migrations resumed from a copy left behind, until
             \* a transfer has written both again

vars == <<copy, pc, caller, at, resumes, mem, newest, version, astray>>

-----------------------------------------------------------------------------
(* Reading. *)

Valid(c) == c \notin {Missing, Damaged}

NextRevision(c) == IF Valid(c) THEN c.revision + 1 ELSE 1

Larger(i, j) == IF i >= j THEN i ELSE j

(* load_state_with_compat_reconciliation_detailed: which copy it returns,  *)
(* and when two valid copies make it give up.                              *)
LoadsCanonical(c, b) ==
    /\ Valid(c)
    /\ Valid(b) => \/ c.revision > b.revision
                   \/ c.revision = b.revision /\ c.state = b.state

LoadsBackup(c, b) == Valid(b) /\ (Valid(c) => b.revision > c.revision)

Diverged(c, b) ==
    Valid(c) /\ Valid(b) /\ c.revision = b.revision /\ c.state # b.state

-----------------------------------------------------------------------------
FilesOf(m) == {CanonicalOf[m], BackupOf[m]}

LegacyOf(m) == [revision |-> 0, state |-> FreshOf(m)]

(* No state file yet, or what an older caravan has left. *)
Init ==
    /\ copy \in [Path -> {Missing} \cup {LegacyOf(m) : m \in Identity}]
    /\ \A p \in Path : \/ copy[p] = Missing
                       \/ /\ p \in LegacyPaths
                          /\ \E m \in Identity : p \in FilesOf(m) /\ copy[p] = LegacyOf(m)
    /\ pc = "Idle"
    /\ caller \in Identity
    /\ at = CanonicalOf[caller]
    /\ resumes = FALSE
    /\ mem = NoState
    /\ newest = 0
    /\ version = 0
    /\ astray = {}

Begin(m, path, isResume, st) ==
    /\ pc' = "Running"
    /\ caller' = m
    /\ at' = path
    /\ resumes' = isResume
    /\ mem' = st
    /\ UNCHANGED <<copy, newest, version>>

(* load_or_create_state.  A canonical copy of another migration, and one   *)
(* that diverged from its backup, refuse the command; a backup of another  *)
(* migration is ignored.                                                   *)
StartTransfer(m) ==
    LET c == copy[CanonicalOf[m]]
        b == copy[BackupOf[m]]
    IN  /\ pc = "Idle"
        /\ UNCHANGED astray
        /\ \/ /\ c = Missing /\ b = Missing
              /\ Begin(m, CanonicalOf[m], FALSE, FreshOf(m))
           \/ /\ LoadsCanonical(c, b) /\ c.state.owner = m
              /\ Begin(m, CanonicalOf[m], FALSE, c.state)
           \/ /\ LoadsBackup(c, b)
              /\ Begin(m, CanonicalOf[m], FALSE,
                       IF b.state.owner = m THEN b.state ELSE FreshOf(m))

(* A copy its migration has a newer one of. *)
LeftBehind(path) ==
    \E p \in FilesOf(copy[path].state.owner) :
        Valid(copy[p]) /\ copy[p].revision > copy[path].revision

(* load_state_for_resume: whatever the given file holds is taken *)
StartResume(path) ==
    /\ pc = "Idle"
    /\ Valid(copy[path])
    /\ Begin(copy[path].state.owner, path, TRUE, copy[path].state)
    /\ astray' = astray \cup (IF LeftBehind(path) THEN {copy[path].state.owner} ELSE {})

(* Seeded defect: the revision is counted on from the canonical copy only. *)
IgnoresBackupRevision(c, b) == NextRevision(c)

(* Seeded defect: a write reuses the revision of the state it replaces. *)
ReusesRevision(c, b) ==
    Larger(IF Valid(c) THEN c.revision ELSE 0, IF Valid(b) THEN b.revision ELSE 0)

(* persist_state_with_compat_backup numbers its write after both copies *)
TransferRevision(c, b) == Larger(NextRevision(c), NextRevision(b)) + 1

(* write_bytes: synced under another name, then renamed over the old file, *)
(* so a failure or crash leaves the old copy or the new one.               *)
Write(path, revision, st) ==
    copy' = [copy EXCEPT ![path] = [revision |-> revision, state |-> st]]

NextState == [owner |-> caller, version |-> version + 1]

PersistTransfer ==
    /\ pc = "Running" /\ ~ resumes
    /\ version < MaxVersion
    /\ version' = version + 1
    /\ mem' = NextState
    /\ newest' = TransferRevision(copy[CanonicalOf[caller]], copy[BackupOf[caller]])
    /\ Write(CanonicalOf[caller], newest', NextState)
    /\ pc' = "WriteBackup"
    /\ astray' = astray \ {caller}
    /\ UNCHANGED <<caller, at, resumes>>

(* the backup gets the same revision; its failure is a warning *)
PersistBackup ==
    /\ pc = "WriteBackup"
    /\ \/ Write(BackupOf[caller], newest, mem)
       \/ copy' = copy
    /\ pc' = "Running"
    /\ newest' = 0
    /\ UNCHANGED <<caller, at, resumes, mem, version, astray>>

PersistResume ==
    /\ pc = "Running" /\ resumes
    /\ version < MaxVersion
    /\ version' = version + 1
    /\ mem' = NextState
    /\ Write(at, NextRevision(copy[at]), NextState)
    /\ UNCHANGED <<pc, caller, at, resumes, newest, astray>>

(* The command ends, fails or is killed.  A failed canonical write ends it *)
(* too, with the old copy or, when only the directory could not be synced, *)
(* the new one in place.                                                   *)
End ==
    /\ pc # "Idle"
    /\ pc' = "Idle"
    /\ mem' = NoState
    /\ resumes' = FALSE
    /\ at' = CanonicalOf[caller]
    /\ newest' = 0
    /\ UNCHANGED <<copy, caller, version, astray>>

(* Between commands a copy is damaged or removed while the other copy of   *)
(* its migration is at least as new.                                       *)
LoseCopy(path) ==
    /\ pc = "Idle"
    /\ Valid(copy[path])
    /\ \E m \in Identity :
          /\ path \in FilesOf(m)
          /\ \A p \in FilesOf(m) \ {path} :
                Valid(copy[p]) /\ copy[p].revision >= copy[path].revision
    /\ \E lost \in {Missing, Damaged} : copy' = [copy EXCEPT ![path] = lost]
    /\ UNCHANGED <<pc, caller, at, resumes, mem, newest, version, astray>>

Next ==
    \/ \E m \in Identity : StartTransfer(m)
    \/ \E p \in Path : StartResume(p)
    \/ PersistTransfer
    \/ PersistBackup
    \/ PersistResume
    \/ End
    \/ \E p \in Path : LoseCopy(p)

Spec == Init /\ [][Next]_vars

-----------------------------------------------------------------------------
(***************************************************************************)
(* Properties.                                                             *)
(***************************************************************************)
TypeOK ==
    /\ copy \in [Path -> Envelope \cup {Missing, Damaged}]
    /\ pc \in {"Idle", "Running", "WriteBackup"}
    /\ caller \in Identity
    /\ at \in Path
    /\ resumes \in BOOLEAN
    /\ mem \in State \cup {NoState}
    /\ newest \in Nat
    /\ version \in 0 .. MaxVersion
    /\ astray \subseteq Identity

(* Every copy is of a migration that keeps it there. *)
OwnCopies ==
    \A p \in Path : Valid(copy[p]) =>
        /\ p \in FilesOf(copy[p].state.owner)
        /\ copy[p].state.version <= version

(* The revisions order the copies by age, and level means equal. *)
InStep ==
    \A m \in Identity \ astray : \A p, q \in FilesOf(m) :
        Valid(copy[p]) /\ Valid(copy[q]) =>
            /\ copy[p].revision = copy[q].revision => copy[p].state = copy[q].state
            /\ copy[p].revision < copy[q].revision =>
                   copy[p].state.version <= copy[q].state.version

(* A running command writes to copies of its own, a resume to the leading  *)
(* one unless it strays.                                                   *)
CommandSound ==
    /\ pc = "Idle" <=> mem = NoState
    /\ pc # "Idle" => mem.owner = caller
    /\ pc = "Running" /\ resumes =>
           /\ at \in FilesOf(caller)
           /\ Valid(copy[at])
           /\ caller \notin astray => \A p \in FilesOf(caller) :
                  Valid(copy[p]) => copy[p].revision <= copy[at].revision
    /\ pc = "WriteBackup" =>
           /\ ~ resumes
           /\ caller \notin astray
           /\ copy[CanonicalOf[caller]] = [revision |-> newest, state |-> mem]
           /\ Valid(copy[BackupOf[caller]]) => copy[BackupOf[caller]].revision < newest

(* Of migrations with a directory of their own: however the two writes are *)
(* interrupted, the backup fails, one copy is lost or either is resumed,   *)
(* both copies stay with their migration, and their revisions tell which   *)
(* is newer, but for a resume of the older one.                            *)
StoreInv == TypeOK /\ OwnCopies /\ InStep /\ CommandSound

(* No crash between the two writes, failed backup, lost copy or resume of  *)
(* an up-to-date copy brings a migration to copies that no transfer can    *)
(* reconcile.  The resume of a copy left behind, which the default path of *)
(* `resume` makes likely after a crash or a failed backup, can: it is the  *)
(* only way there.                                                         *)
NeverDiverges ==
    \A m \in Identity \ astray : ~ Diverged(copy[CanonicalOf[m]], copy[BackupOf[m]])

(* The two copies are one register: a command starts from the state last   *)
(* persisted for its migration, although each copy alone may lag behind,   *)
(* be damaged or be gone.  A resume of the copy that lags is the register's*)
(* one exception, until a transfer next writes both.                       *)
Value ==
    LET c == copy[CanonicalOf[Observed]]
        b == copy[BackupOf[Observed]]
    IN  IF LoadsCanonical(c, b) THEN c.state
        ELSE IF Valid(b) THEN b.state ELSE NoState

Held == IF caller = Observed THEN mem ELSE NoState

Register == INSTANCE StateRegister
               WITH value <- Value, held <- Held, behind <- (Observed \in astray),
                    Fresh <- FreshOf(Observed)

IsRegister == Register!Spec

(* What the comment on persist_state_with_compat_backup promises, that no  *)
(* progress is lost over the backup path: a transfer with a sound          *)
(* canonical copy of its own never starts afresh, whatever was resumed, and*)
(* never from less than that copy holds unless a resume went astray.  It   *)
(* fails where two migrations run from one directory share a backup.       *)
CanonicalIsAuthoritative ==
    [][\A m \in Identity :
         /\ pc = "Idle" /\ pc' # "Idle" /\ ~ resumes' /\ caller' = m
         /\ Valid(copy[CanonicalOf[m]]) /\ copy[CanonicalOf[m]].state.owner = m
         => /\ \E p \in FilesOf(m) : Valid(copy[p]) /\ mem' = copy[p].state
            /\ m \notin astray => mem'.version >= copy[CanonicalOf[m]].state.version]_vars
=============================================================================

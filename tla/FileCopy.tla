------------------------------ MODULE FileCopy ------------------------------
(***************************************************************************)
(* What one batch of a migration does at the destination: the plan that    *)
(* cuts the source into batches, the capacity guard, the copy of each file *)
(* under a temporary name and its rename, the barriers of migrate mode,    *)
(* and power loss, which takes what no barrier has made durable.           *)
(*                                                                         *)
(* Which batch is next, conflicts, approvals and the state file are the    *)
(* subject of Migration; here any batch may be next.                       *)
(***************************************************************************)
EXTENDS Integers, FiniteSetsExt

CONSTANTS
    NumFiles,   \* files of the source, numbered in planning order
    Sizes,      \* their sizes
    BatchSizes, \* values of --batch-size
    MaxFiles,   \* values of --max-files; NumFiles stands for none
    CaravanNamed, \* files named .caravan, which verification passes over
    Dir,        \* directories of the destination, its root among them
    DirOf,      \* the parent directory of a file
    Above,      \* the directories on the way to one: from the root, itself included
    Standing,   \* those that are there, on disk, before the first command
    Configs,    \* mode, copy strategy and platform
    Capacity,   \* size of the destination volume
    MaxOthers,  \* bound: bytes others keep there
    NoFile      \* a name that does not exist

File == 1 .. NumFiles
Batch == 1 .. NumFiles

ASSUME NumFilesAssumption == NumFiles \in Nat
ASSUME SizesAssumption == Sizes \subseteq Nat
ASSUME BatchSizesAssumption == BatchSizes \subseteq Nat \ {0}
ASSUME MaxFilesAssumption == MaxFiles \subseteq Nat \ {0}
ASSUME CaravanNamedAssumption == CaravanNamed \subseteq File
ASSUME DirOfAssumption == DirOf \in [File -> Dir]
ASSUME AboveAssumption ==
    /\ Above \in [Dir -> SUBSET Dir]
    /\ \A d \in Dir : d \in Above[d] /\ \A e \in Above[d] : Above[e] \subseteq Above[d]
ASSUME StandingAssumption ==
    Standing \subseteq Dir /\ \A d \in Standing : Above[d] \subseteq Standing
ASSUME ConfigsAssumption ==
    Configs \subseteq [mode : {"staging", "migrate"},
                       strategy : {"auto", "native", "buffered"},
                       windows : BOOLEAN]
ASSUME CapacityAssumption == Capacity \in Nat
ASSUME MaxOthersAssumption == MaxOthers \in Nat
ASSUME NoFileAssumption == NoFile \notin Nat

VARIABLES
    size,     \* sizes of the source files
    options,  \* --batch-size and --max-files
    batchOf,  \* the plan: the batch of each file
    config,   \* a member of Configs
    removed,  \* source files that were deleted
    final,    \* bytes under each destination name
    part,     \* and under its .caravan.part name
    durable,  \* what a power loss may leave under each destination name
    made,     \* directories that exist
    entered,  \* those of them whose entry in their parent is on disk
    others,   \* bytes others keep on the volume
    copied,   \* batches recorded as CopyCompleted
    verified, \* and as VerifyCompleted, passed
    pc,       \* where the copy of a batch is; "Idle" outside of one
    current,  \* that batch
    todo,     \* its files still to be copied
    file      \* the one under way

source == <<size, options, batchOf, config>>
command == <<pc, current, todo, file>>
dirs == <<made, entered>>
vars == <<source, removed, final, part, durable, dirs, others, copied, verified, command>>

-----------------------------------------------------------------------------
(* Planning. *)

(* Seeded defect: the file that reaches the count limit is still taken. *)
JoinsOneMore(last, bytes, opts) ==
    /\ last.count > 0
    /\ last.bytes + bytes <= opts.batchSize
    /\ last.count <= opts.maxFiles

(* a file joins the last batch when neither limit is exceeded; a file over *)
(* the size limit exceeds it whatever it joins, and so does one after it   *)
Joins(last, bytes, opts) ==
    /\ last.count > 0
    /\ last.bytes + bytes <= opts.batchSize
    /\ last.count < opts.maxFiles

AddFile(last, bytes, opts) ==
    IF Joins(last, bytes, opts)
    THEN [last EXCEPT !.bytes = @ + bytes, !.count = @ + 1]
    ELSE [batch |-> last.batch + 1, bytes |-> bytes, count |-> 1]

(* plan_batches *)
PlanBatches(sizes, opts) ==
    LET last[i \in 0 .. NumFiles] ==
            IF i = 0 THEN [batch |-> 0, bytes |-> 0, count |-> 0]
            ELSE AddFile(last[i - 1], sizes[i], opts)
    IN  [f \in File |-> last[f].batch]

FilesOf(b) == {f \in File : batchOf[f] = b}

TotalBytes(files) == SumFunctionOnSet(size, files)

(* the destination directory itself *)
Roots == {d \in Dir : Above[d] = {d}}

-----------------------------------------------------------------------------
(* Configuration and space. *)

(* resolve_copy_strategy *)
NativePreferred(c) ==
    /\ c.windows
    /\ c.strategy = "native" \/ (c.strategy = "auto" /\ c.mode = "staging")

(* LocalFsCopyBackend::with_strategy *)
DurableWrites(c) == c.mode = "migrate"

(* sync_directory does nothing on Windows *)
SyncsDirectories(c) == ~ c.windows

Bytes(content) == IF content = NoFile THEN 0 ELSE content

BytesIn(names) == SumFunction([f \in File |-> Bytes(names[f])])

Available == Capacity - BytesIn(final) - BytesIn(part) - others

(* Seeded defect: the whole volume is taken for the room that is left. *)
GuardAsksCapacity(required, available) == required > 0 /\ Capacity > required

(* check_capacity, asked without a reserve *)
GuardAllows(required, available) == required > 0 /\ available > required

-----------------------------------------------------------------------------
Init ==
    /\ size \in [File -> Sizes]
    /\ options \in [batchSize : BatchSizes, maxFiles : MaxFiles]
    /\ batchOf = PlanBatches(size, options)
    /\ config \in Configs
    /\ removed = {}
    /\ final = [f \in File |-> NoFile]
    /\ part = [f \in File |-> NoFile]
    /\ durable = [f \in File |-> {NoFile}]
    /\ made = Standing /\ entered = Standing
    /\ others = 0
    /\ copied = {} /\ verified = {}
    /\ pc = "Idle" /\ current = 0 /\ todo = {} /\ file = 0

Stop ==
    /\ pc' = "Idle"
    /\ current' = 0
    /\ todo' = {}
    /\ file' = 0

(* A batch not recorded as copied, or one reconcile_batch_destination      *)
(* finds incomplete.                                                       *)
StartCopy(b) ==
    /\ pc = "Idle"
    /\ FilesOf(b) # {} /\ FilesOf(b) \cap removed = {}
    /\ b \in copied => \E f \in FilesOf(b) : final[f] # size[f]
    /\ pc' = "Guard"
    /\ current' = b
    /\ UNCHANGED <<source, removed, final, part, durable, dirs, others, copied, verified, todo, file>>

(* ensure_destination_capacity_for_batch, which creates the destination    *)
(* itself to ask for its space.  The copy then starts on record.           *)
CheckSpace ==
    /\ pc = "Guard"
    /\ part' = [f \in File |-> IF f \in FilesOf(current) THEN NoFile ELSE part[f]]
    /\ made' = made \cup Roots
    /\ UNCHANGED <<source, removed, final, durable, entered, others>>
    /\ IF GuardAllows(TotalBytes(FilesOf(current)), Available')
       THEN /\ pc' = "Copy"
            /\ todo' = FilesOf(current)
            /\ copied' = copied \ {current}
            /\ verified' = verified \ {current}
            /\ UNCHANGED <<current, file>>
       ELSE Stop /\ UNCHANGED <<copied, verified>>

(* The next file of the batch: create_dir_all makes what its directory     *)
(* lacks, and the copier starts an empty temporary file there.             *)
BeginFile(f) ==
    /\ pc = "Copy"
    /\ f \in todo /\ \A g \in todo : f <= g
    /\ made' = made \cup Above[DirOf[f]]
    /\ part' = [part EXCEPT ![f] = 0]
    /\ file' = f
    /\ pc' = IF NativePreferred(config) THEN "Native" ELSE "Write"
    /\ UNCHANGED <<source, removed, final, durable, entered, others, copied, verified, current, todo>>

WriteByte ==
    /\ pc \in {"Native", "Write"}
    /\ part[file] < size[file] /\ Available > 0
    /\ part' = [part EXCEPT ![file] = @ + 1]
    /\ UNCHANGED <<source, removed, final, durable, dirs, others, copied, verified, command>>

(* copy_with_native_preferred: a native copy that fails for another reason *)
(* than a full disk is cleared away and the plain copy starts over         *)
FallBack ==
    /\ pc = "Native"
    /\ part' = [part EXCEPT ![file] = 0]
    /\ pc' = "Write"
    /\ UNCHANGED <<source, removed, final, durable, dirs, others, copied, verified, current, todo, file>>

FinishWrite ==
    /\ pc \in {"Native", "Write"}
    /\ part[file] = size[file]
    /\ pc' = IF DurableWrites(config) THEN "SyncData" ELSE "Rename"
    /\ UNCHANGED <<source, removed, final, part, durable, dirs, others, copied, verified, current, todo, file>>

(* sync_file_data; what it gains shows in Rename *)
SyncData ==
    /\ pc = "SyncData"
    /\ pc' = "Rename"
    /\ UNCHANGED <<source, removed, final, part, durable, dirs, others, copied, verified, current, todo, file>>

(* Seeded defect: migrate mode renames without flushing the data. *)
RemainsUnflushed(f) == 0 .. size[f]

(* What power loss may leave of a file under its new name. *)
Remains(f) == IF DurableWrites(config) THEN {size[f]} ELSE 0 .. size[f]

(* The name changes at once, on disk at some later time. *)
Rename ==
    /\ pc = "Rename"
    /\ final' = [final EXCEPT ![file] = part[file]]
    /\ durable' = [durable EXCEPT ![file] = @ \cup Remains(file)]
    /\ part' = [part EXCEPT ![file] = NoFile]
    /\ todo' = todo \ {file}
    /\ file' = 0
    /\ pc' = IF todo' # {} THEN "Copy"
             ELSE IF DurableWrites(config) THEN "SyncParents" ELSE "Record"
    /\ UNCHANGED <<source, removed, dirs, others, copied, verified, current>>

(* Seeded defect: only the directory of the last file is synced. *)
LastParentOnly ==
    {DirOf[f] : f \in {g \in FilesOf(current) : \A h \in FilesOf(current) : h <= g}}

TouchedParents == {DirOf[f] : f \in FilesOf(current)}

(* Directory d has its entry in one of these. *)
EnteredIn(d, parents) ==
    \E p \in parents : d \notin Above[p] /\ Above[d] = Above[p] \cup {d}

(* sync_parent_directories: the names in them, of files and directories,   *)
(* are as durable as the data.  Their own names are in their parents,      *)
(* which are synced only if a file of the batch is there too.              *)
SyncParents ==
    /\ pc = "SyncParents"
    /\ durable' = [f \in File |->
                     IF SyncsDirectories(config) /\ DirOf[f] \in TouchedParents
                     THEN {final[f]} ELSE durable[f]]
    /\ entered' = entered \cup {d \in made : SyncsDirectories(config)
                                             /\ EnteredIn(d, TouchedParents)}
    /\ pc' = "Record"
    /\ UNCHANGED <<source, removed, final, part, made, others, copied, verified, current, todo, file>>

RecordCopy ==
    /\ pc = "Record"
    /\ copied' = copied \cup {current}
    /\ Stop
    /\ UNCHANGED <<source, removed, final, part, durable, dirs, others, verified>>

(* An error, a shutdown request or a kill; an error removes the temporary  *)
(* file.                                                                   *)
Fail ==
    /\ pc # "Idle"
    /\ \/ part' = part
       \/ file # 0 /\ part' = [part EXCEPT ![file] = NoFile]
    /\ Stop
    /\ UNCHANGED <<source, removed, final, durable, dirs, others, copied, verified>>

Whole(b) == \A f \in FilesOf(b) \ CaravanNamed : final[f] = size[f]

(* Verification reads through the cache: it sees what is visible, of the   *)
(* files it does not pass over.                                            *)
Verify(b) ==
    /\ pc = "Idle"
    /\ b \in copied \ verified
    /\ Whole(b)
    /\ verified' = verified \cup {b}
    /\ UNCHANGED <<source, removed, final, part, durable, dirs, others, copied, command>>

(* Seeded defect: a batch recorded as copied counts as verified. *)
RemovesUnverified(f) ==
    /\ pc = "Idle"
    /\ f \notin removed /\ batchOf[f] \in copied
    /\ removed' = removed \cup {f}
    /\ UNCHANGED <<source, final, part, durable, dirs, others, copied, verified, command>>

(* delete_batch_files, of an approved batch *)
RemoveSource(f) ==
    /\ pc = "Idle"
    /\ f \notin removed /\ batchOf[f] \in verified
    /\ removed' = removed \cup {f}
    /\ UNCHANGED <<source, final, part, durable, dirs, others, copied, verified, command>>

(* What is left under names when those of lost files are gone. *)
Swept(names, lost) == [f \in File |-> IF f \in lost THEN NoFile ELSE names[f]]

(* Each name holds something it may have held, a temporary name anything   *)
(* up to the whole file.  A directory whose entry is not on disk may be    *)
(* gone with all below it.  The records were synced when they were made.   *)
PowerLoss ==
    \E unlinked \in SUBSET (made \ entered) :
        LET lost == {f \in File : Above[DirOf[f]] \cap unlinked # {}}
        IN  /\ made' = {d \in made : Above[d] \cap unlinked = {}}
            /\ entered' = made'
            /\ \E names \in {g \in [File -> UNION {durable[f] : f \in File}] :
                               \A f \in File : g[f] \in durable[f]} :
                  final' = Swept(names, lost)
            /\ durable' = [f \in File |-> {final'[f]}]
            /\ \/ part' = Swept(part, lost)
               \/ \E f \in FilesOf(current) : \E n \in 0 .. size[f] :
                     part' = Swept([part EXCEPT ![f] = n], lost)
            /\ Stop
            /\ UNCHANGED <<source, removed, others, copied, verified>>
            /\ Available' >= 0

(* The volume is used by others, though not while a batch is copied. *)
OthersWrite ==
    /\ pc = "Idle"
    /\ others' \in 0 .. MaxOthers
    /\ UNCHANGED <<source, removed, final, part, durable, dirs, copied, verified, command>>
    /\ Available' >= 0

Next ==
    \/ \E b \in Batch : StartCopy(b) \/ Verify(b)
    \/ CheckSpace
    \/ \E f \in File : BeginFile(f) \/ RemoveSource(f)
    \/ WriteByte \/ FallBack \/ FinishWrite
    \/ SyncData \/ Rename \/ SyncParents
    \/ RecordCopy
    \/ Fail
    \/ PowerLoss
    \/ OthersWrite

Spec == Init /\ [][Next]_vars

-----------------------------------------------------------------------------
(***************************************************************************)
(* Properties.                                                             *)
(***************************************************************************)
Copying == {"Native", "Write", "SyncData", "Rename"}

Content(f) == {NoFile} \cup 0 .. size[f]

TypeOK ==
    /\ size \in [File -> Nat]
    /\ config \in Configs
    /\ removed \subseteq File
    /\ final \in [File -> Nat \cup {NoFile}] /\ \A f \in File : final[f] \in Content(f)
    /\ part \in [File -> Nat \cup {NoFile}] /\ \A f \in File : part[f] \in Content(f)
    /\ durable \in [File -> SUBSET (Nat \cup {NoFile})]
    /\ \A f \in File : durable[f] \subseteq Content(f)
    /\ made \subseteq Dir /\ entered \subseteq made
    /\ others \in 0 .. MaxOthers
    /\ copied \subseteq Batch /\ verified \subseteq copied
    /\ pc \in {"Idle", "Guard", "Copy", "SyncParents", "Record"} \cup Copying
    /\ pc # "Idle" => current \in Batch
    /\ todo \subseteq FilesOf(current)
    /\ IF pc \in Copying THEN file \in todo ELSE file = 0
    /\ pc \in {"Idle", "Guard"} => todo = {}

(* The barriers migrate mode pays for, where directories can be synced. *)
HasBarriers == DurableWrites(config) /\ SyncsDirectories(config)

(* The files those barriers reach: each directory on the way was there     *)
(* before, or its parent gets a file of the same batch and is synced.      *)
Guarded ==
    {f \in File : /\ HasBarriers
                  /\ \A d \in Above[DirOf[f]] :
                        d \in Standing \/ EnteredIn(d, {DirOf[g] : g \in FilesOf(batchOf[f])})}

(* No power loss takes the copy of this file or a part of it. *)
Survives(f) == durable[f] = {size[f]} /\ Above[DirOf[f]] \subseteq entered

(* A name durable or not holds the whole file, one of a recorded batch     *)
(* within the reach of the barriers for sure.                              *)
DurableNames ==
    /\ \A f \in File : final[f] \in durable[f]
    /\ Standing \subseteq entered
    /\ HasBarriers => \A f \in File : durable[f] \subseteq {NoFile, size[f]}
    /\ \A f \in Guarded : batchOf[f] \in copied => Survives(f)

CopyProgress ==
    /\ pc \in {"Copy", "SyncParents", "Record"} \cup Copying =>
           /\ current \notin copied
           /\ \A f \in FilesOf(current) \ todo :
                 final[f] = size[f] /\ Above[DirOf[f]] \subseteq made
    /\ pc \in {"SyncParents", "Record"} => todo = {}
    /\ pc \in Copying => part[file] # NoFile /\ Above[DirOf[file]] \subseteq made
    /\ pc = "SyncData" => DurableWrites(config)
    /\ pc \in {"SyncData", "Rename"} => part[file] = size[file]
    /\ pc = "Record" => \A f \in FilesOf(current) \cap Guarded : Survives(f)

RemovedWereVerified ==
    /\ \A f \in removed : batchOf[f] \in verified
    /\ pc # "Idle" => FilesOf(current) \cap removed = {}

(* What the proofs rest on: in migrate mode a name never stands for less   *)
(* than a whole file, and a record is only made after the barriers, as far *)
(* as they reach.                                                          *)
CopyInv == TypeOK /\ DurableNames /\ CopyProgress /\ RemovedWereVerified

(* Neither a crash nor power loss leaves part of a file under its name at  *)
(* the destination of a migrate, where the next command would take it for  *)
(* a conflict and verification for a mismatch.                             *)
NeverTorn ==
    HasBarriers => \A f \in File : durable[f] \subseteq {NoFile, size[f]}

(* Within the reach of the barriers, a file recorded as copied by a migrate*)
(* is on disk, and so is every directory on the way to it: power loss does *)
(* not take back what the state file says.  A file in a directory that was *)
(* made for it, whose parent got no file of the batch, is out of reach: the*)
(* directory's own entry is never synced.                                  *)
RecordedCopiesSurvive ==
    \A f \in Guarded : batchOf[f] \in copied => Survives(f)

(* No file is lost: what was removed from the source is whole at the       *)
(* destination.                                                            *)
RemovedSourcesSurvive == \A f \in removed : final[f] = size[f]

(* So it is, after power loss as well, as far as the barriers of migrate   *)
(* mode reach: not where the only copy is in a directory made for it.      *)
MigrateKeepsRemoved == \A f \in removed \cap Guarded : final[f] = size[f]

(* A batch the guard has let through never runs out of space, whatever an  *)
(* earlier attempt, a failed native copy or power loss has left behind.    *)
RoomToFinish ==
    pc \in {"Copy"} \cup Copying =>
        Available + (IF file = 0 THEN 0 ELSE part[file]) > TotalBytes(todo)

(* What --batch-size and --max-files allow in one batch. *)
Fits(files) == /\ TotalBytes(files) <= options.batchSize
               /\ Cardinality(files) <= options.maxFiles

(* Batches are runs of the planning order within both limits, a file over  *)
(* the size limit is alone, and none could have taken the next file.       *)
PlanIsGreedy ==
    LET first(b) == CHOOSE f \in FilesOf(b) : \A g \in FilesOf(b) : f <= g
    IN  /\ \A f, g \in File : f <= g => batchOf[f] <= batchOf[g]
        /\ {batchOf[f] : f \in File} = 1 .. Cardinality({batchOf[f] : f \in File})
        /\ \A b \in Batch : FilesOf(b) # {} =>
               /\ Fits(FilesOf(b)) \/ Cardinality(FilesOf(b)) = 1
               /\ FilesOf(b + 1) # {} =>
                      ~ Fits(FilesOf(b) \cup {first(b + 1)})

(* The files whose copies are as good as their sources, power loss or not. *)
KeptFiles == {f \in File : Survives(f)}

FilesOfAll(batches) == {f \in File : batchOf[f] \in batches}

Kept == INSTANCE KeptCopies WITH
            guarded  <- Guarded,
            kept     <- KeptFiles,
            recorded <- FilesOfAll(copied),
            trusted  <- FilesOfAll(verified),
            released <- removed

(* Copying serves deletion as KeptCopies says: of the files the barriers   *)
(* reach, no repeated copy, failure or power loss takes back one that was  *)
(* safe, and none is recorded, trusted or released that is not.            *)
CopiesAreKept == Kept!Spec
=============================================================================

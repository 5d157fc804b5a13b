------------------------ MODULE MigrationInvariant ------------------------
(***************************************************************************)
(* The inductive invariant behind the safety properties of Migration, in   *)
(* named parts.  Only what PassedIntact says is about migrations whose     *)
(* destination copies stay put between sessions; the rest holds whatever   *)
(* becomes of them.                                                        *)
(***************************************************************************)
EXTENDS Migration

AtWork == pc \notin {"Idle", "Plan", "Error", "ReportFailed"}
BatchWork == pc \in {"CopyFiles", "MarkLedger", "MarkConflict", "DropLedger",
                     "DeleteFiles"}
BeforeDeletion == pc \in {"StartCopy", "Copy", "CopyFiles", "MarkLedger",
                          "MarkConflict", "StartVerify", "Verify",
                          "DropLedger", "Awaiting"}

(* Who runs, and what its memory has to do with the state file: they agree *)
(* except in the error exit, where memory may know of one more failure.    *)
Checkpointed ==
    /\ pc = "Idle" => mem = NoState /\ session = NoSession
    /\ pc # "Idle" => IsTransfer \/ IsResume
    /\ pc = "Plan" => IsTransfer /\ disk = mem
    /\ AtWork => mem # NoState /\ disk = mem
    /\ pc \in {"Error", "ReportFailed"} /\ IsResume =>
           /\ mem # NoState
           /\ disk # NoState
           /\ \A b \in Batch : /\ mem.batch[b].approved = disk.batch[b].approved
                               /\ mem.batch[b].deleted = disk.batch[b].deleted

(* What holds of a migration state, in memory or on disk: a deleted batch  *)
(* has passed, was approved and is gone from the source; an approval       *)
(* covers the whole migration or none of it.                               *)
StateSound(st) ==
    \A b \in Batch :
        /\ st.batch[b].phase \in {"DeleteCompleted", "SnapshotCompleted"} =>
               st.batch[b].deleted
        /\ st.batch[b].deleted => /\ st.batch[b].phase \in {"DeleteCompleted",
                                                            "SnapshotCompleted"}
                                  /\ st.batch[b].passed
                                  /\ st.batch[b].approved
                                  /\ FilesOf(b) \cap src = {}
        /\ \A c \in Batch : st.batch[b].approved => st.batch[c].approved

(* A recorded pass is about the files now at the destination, and no copy  *)
(* of them is under way.  The exception is a batch that failed to be       *)
(* deleted and is copied again because a listing missed its files: its     *)
(* pass is stale until the phase is a verified one again.                  *)
PassedIntact(st) ==
    \A b \in Batch :
        st.batch[b].passed /\ (FullyListed(b) \/ st.batch[b].phase \in VerifiedPhase) =>
            /\ st.batch[b].phase # "CopyStarted"
            /\ \A f \in FilesOf(b) : Delivered(f)

StatesSound ==
    /\ mem # NoState => StateSound(mem) /\ (Drift \/ PassedIntact(mem))
    /\ disk # NoState => StateSound(disk) /\ (Drift \/ PassedIntact(disk))

(* Source files go only from a migration that has passed, and been         *)
(* approved, as a whole; sessions copy and verify only an intact source.   *)
FullyApproved(st) ==
    \A b \in Batch : st.batch[b].passed /\ st.batch[b].approved

SourceSound ==
    /\ disk = NoState => src = File
    /\ src # File /\ disk # NoState => FullyApproved(disk)
    /\ src # File /\ mem # NoState => FullyApproved(mem)
    /\ src # File => Drift \/ \A f \in File : Delivered(f)
    /\ BeforeDeletion => src = File

(* How far the session's loops have come; a resume copies only to paths    *)
(* at which a listing shows nothing.                                       *)
Verified(st, b) == st.batch[b].passed /\ st.batch[b].phase \in VerifiedPhase
Standing(b) == \A f \in FilesOf(b) : dst[f] # "Absent"
CopiedOrFailed(b) ==
    mem.batch[b].deleted \/ mem.batch[b].phase = "Failed" \/ Standing(b)

LoopSound ==
    /\ BatchWork => cur \in Batch
    /\ pc = "CopyFiles" =>
           /\ mem.batch[cur].phase = "CopyStarted"
           /\ todo \subseteq FilesOf(cur)
           /\ IsResume => \A f \in todo \ Unlisted : dst[f] = "Absent"
           /\ whole => \A f \in FilesOf(cur) \ todo : dst[f] \in {"Equal", "Corrupt"}
    /\ pc = "MarkLedger" => \A f \in FilesOf(cur) : dst[f] \in {"Equal", "Corrupt"}
    /\ pc \in {"Copy", "CopyFiles", "MarkLedger", "MarkConflict"} /\ IsTransfer =>
           \A b \in Batch : b < cur => CopiedOrFailed(b)
    /\ pc = "StartVerify" => IsTransfer
    /\ pc \in {"StartVerify", "Verify"} /\ IsTransfer =>
           \A b \in Batch : CopiedOrFailed(b)
    /\ pc = "Verify" /\ IsResume => cur \in Batch /\ Standing(cur)
    /\ BeforeDeletion /\ IsResume =>
           \A b \in Batch : b < cur => Verified(mem, b)
    /\ pc = "Verify" /\ IsTransfer =>
           \A b \in Batch : b < cur => Verified(mem, b)
                                       \/ mem.batch[b].phase = "Failed"
    /\ pc = "Awaiting" => cur = NumBatches + 1
    /\ pc = "Awaiting" /\ IsTransfer =>
           \A b \in Batch : Verified(mem, b) \/ mem.batch[b].phase = "Failed"
    /\ pc \in {"Delete", "DeleteFiles"} => \A b \in Batch : Verified(mem, b)
    /\ pc = "DeleteFiles" =>
           /\ mem.batch[cur].approved /\ ~ mem.batch[cur].deleted
           /\ todo \subseteq FilesOf(cur)
           /\ (FilesOf(cur) \ todo) \cap src = {}

(* A Completed entry is only ever met at rest, and was earned. *)
RegistrySound ==
    /\ pc # "Idle" /\ IsTransfer => HasActiveEntry
    /\ pc = "Report" /\ AllDeleted(mem) => mem.phase = "Completed"
    /\ reg = "Completed" => pc = "Idle"
    /\ CompletedMeansMoved

Inv ==
    /\ TypeOK
    /\ Checkpointed
    /\ StatesSound
    /\ SourceSound
    /\ LoopSound
    /\ RegistrySound
=============================================================================

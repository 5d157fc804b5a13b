-------------------------- MODULE SourceCompletion --------------------------
(***************************************************************************)
(* Which source files are not copied again: the completed-file ledger kept *)
(* beside the source, and how the files of a new migration are split into  *)
(* those to plan and those to skip.                                        *)
(*                                                                         *)
(* A file's identity is its path and its digest, for which its content     *)
(* stands; the size follows from the content.  Every state and ledger      *)
(* entry is of one mode: the code passes over those of the other.  A plan  *)
(* has one file to a batch, so a batch is named by its file.               *)
(***************************************************************************)
EXTENDS Naturals

CONSTANTS
    NumFiles,  \* paths below the source, numbered in manifest order
    Content,   \* what a source file may hold
    SizeOf,    \* the size of each content
    Gone,      \* in place of a content: the file is not at the source
    NoState    \* there is no state file for this destination

ASSUME NumFilesAssumption == NumFiles \in Nat
ASSUME SizeAssumption == SizeOf \in [Content -> Nat]
ASSUME GoneAssumption == Gone \notin Content

File == 1 .. NumFiles

Identity == [path : File, content : Content]

(* A batch's phase together with its verification_passed flag; "Unplanned" *)
(* is a file that the manifest does not list.                              *)
Phase == {"Unplanned", "Planned", "CopyStarted", "CopyCompleted", "Verified",
          "VerifyFailed", "Approved", "Deleted"}

StateRecord == [phase   : [File -> Phase],
                size    : [File -> Nat],       \* as in the manifest
                skipped : SUBSET Identity]

ASSUME NoStateAssumption == NoState \notin StateRecord

PlannedIn(r) == {f \in File : r.phase[f] # "Unplanned"}

HasManifest(r) == r # NoState /\ (PlannedIn(r) # {} \/ r.skipped # {})

Scan(content) == {f \in File : content[f] # Gone}

IdentityOf(content, f) == [path |-> f, content |-> content[f]]

-----------------------------------------------------------------------------
(* Seeded defects: a batch counts only once it is verified; as soon as its *)
(* copy has begun; when its verification failed.                           *)
CountsVerifiedOnly(r, f) == r.phase[f] \in {"Verified", "Approved", "Deleted"}

CountsBegunCopies(r, f) == r.phase[f] \notin {"Unplanned", "Planned", "VerifyFailed"}

CountsFailedVerification(r, f) ==
    r.phase[f] \in {"CopyCompleted", "Verified", "VerifyFailed", "Approved", "Deleted"}

EligiblePhase(r, f) ==
    r.phase[f] \in {"CopyCompleted", "Verified", "Approved", "Deleted"}

(* candidate_paths_from_existing_states: a file of the same size has been  *)
(* copied by an earlier migration, if one looks at path and size           *)
CopiedBefore(states, content, f) ==
    \E r \in states : /\ r # NoState
                      /\ EligiblePhase(r, f)
                      /\ r.size[f] = SizeOf[content[f]]

(* backfill_ledger_from_existing_states: such a file enters the ledger     *)
(* with the digest it has now                                              *)
Backfill(ledger, states, content) ==
    ledger \cup {IdentityOf(content, f) :
                    f \in {g \in Scan(content) : CopiedBefore(states, content, g)}}

(* mark_batch_completed hashes the source file *)
Marked(ledger, content, f) == ledger \cup {IdentityOf(content, f)}

(* Seeded defect: a failed verification leaves the ledger as it is. *)
NothingWithdrawn(ledger, f) == ledger

(* remove_batch_completed drops every entry of the path *)
Withdrawn(ledger, f) == {e \in ledger : e.path # f}

(* filter_entries_for_new_migration_selective, after the backfill *)
Skips(ledger, content) ==
    {e \in ledger : content[e.path] = e.content}

NewState(ledger, content) ==
    LET skipped == Skips(ledger, content)
        planned == {f \in Scan(content) : \A e \in skipped : e.path # f}
    IN [phase   |-> [f \in File |-> IF f \in planned THEN "Planned" ELSE "Unplanned"],
        size    |-> [f \in File |-> IF f \in planned THEN SizeOf[content[f]] ELSE 0],
        skipped |-> skipped]

(* filter_entries_for_persisted_skips_selective refuses a skipped file     *)
(* that is missing or has another digest                                   *)
SkipsValid(r, content) == \A e \in r.skipped : content[e.path] = e.content

(* ensure_manifest_matches_snapshot, for the files that are not skipped *)
ManifestMatches(r, content) ==
    /\ Scan(content) = PlannedIn(r) \cup {e.path : e \in r.skipped}
    /\ \A f \in PlannedIn(r) : SizeOf[content[f]] = r.size[f]
=============================================================================

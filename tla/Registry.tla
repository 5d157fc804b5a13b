------------------------------ MODULE Registry ------------------------------
(***************************************************************************)
(* The migration registry: the list of every migration ever registered     *)
(* from one working directory, and the operations on it.  An entry is      *)
(* never removed and `next_id` counts up with every entry added, so an     *)
(* entry's id is its position.  The entries here are those of one source   *)
(* and one mode; the state file's name follows from the destination.       *)
(***************************************************************************)
EXTENDS Naturals, Sequences

CONSTANTS
    Dest,      \* the destinations the source is migrated to
    NoStatus   \* no status: an entry without `pending_status`

Status == {"NotStarted", "Running", "Verifying", "AwaitingDeletion",
           "Completed", "Failed"}

Ended == {"Completed", "Failed"}

Entry == [dest : Dest, status : Status, pending : Status \cup {NoStatus}]

ASSUME NoStatusAssumption == NoStatus \notin Status

(* a saved intent counts as the status *)
Effective(e) == IF e.pending = NoStatus THEN e.status ELSE e.pending

(* Seeded defect: the lookups look at the committed status. *)
CommittedUnfinished(e) == e.status \notin Ended

Unfinished(e) == Effective(e) \notin Ended

IdsOf(entries, d) == {i \in 1 .. Len(entries) : entries[i].dest = d}
ActiveIds(entries, d) == {i \in IdsOf(entries, d) : Unfinished(entries[i])}

(* Seeded defect: only the entry registered last is looked at. *)
FindsLastOnly(entries, d) == ActiveIds(entries, d) \cap {Len(entries)}

(* find_by_source_dest: the first unfinished entry of the destination *)
FindBySourceDest(entries, d) ==
    {i \in ActiveIds(entries, d) : \A j \in ActiveIds(entries, d) : i <= j}

(* find_active_migration_id_for_state, which resume uses: the last *)
FindActive(entries, d) ==
    {i \in ActiveIds(entries, d) : \A j \in ActiveIds(entries, d) : j <= i}

AddMigration(entries, d) ==
    Append(entries, [dest |-> d, status |-> "NotStarted", pending |-> NoStatus])

BeginTransition(entries, i, s) == [entries EXCEPT ![i].pending = s]

CommitTransition(entries, i) ==
    [entries EXCEPT ![i] = [@ EXCEPT !.status = Effective(entries[i]),
                                     !.pending = NoStatus]]
=============================================================================

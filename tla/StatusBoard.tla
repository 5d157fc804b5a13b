---------------------------- MODULE StatusBoard ----------------------------
(***************************************************************************)
(* What the migration registry promises its readers: one status for each   *)
(* destination of a source, that of the newest migration to it.  Only a    *)
(* migration that has not ended changes its status, and a new one starts   *)
(* only after the last has ended.                                          *)
(***************************************************************************)
CONSTANTS
    Dest,      \* the destinations the source is migrated to
    NoStatus   \* no migration to this destination has been registered

VARIABLE board

Status == {"NotStarted", "Running", "Verifying", "AwaitingDeletion",
           "Completed", "Failed"}

Ended == {"Completed", "Failed"}

Init == board = [d \in Dest |-> NoStatus]

Open(d) ==
    /\ board[d] \in Ended \cup {NoStatus}
    /\ board' = [board EXCEPT ![d] = "NotStarted"]

Report(d, s) ==
    /\ board[d] \in Status \ Ended
    /\ board' = [board EXCEPT ![d] = s]

Next == \E d \in Dest : Open(d) \/ \E s \in Status : Report(d, s)

Spec == Init /\ [][Next]_board
=============================================================================

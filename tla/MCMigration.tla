---------------------------- MODULE MCMigration ----------------------------
(* Small instances of Migration for TLC: two batches, of two files and of  *)
(* one, in either order.                                                   *)
EXTENDS MigrationRefinement, MigrationProgress

MCBatchOf == [f \in 1 .. 3 |-> IF f <= 2 THEN 1 ELSE 2]
SingleFirst == [f \in 1 .. 3 |-> IF f = 1 THEN 1 ELSE 2]

Command(cmd, recover, policy, interactive) ==
    [cmd |-> cmd, recover |-> recover,
     policy |-> policy, interactive |-> interactive]

(* Every combination of options a command may carry. *)
AllCommands ==
    {Command("transfer", r, p, i) :
        r \in BOOLEAN, p \in ConflictPolicy, i \in BOOLEAN}
    \cup {Command("resume", r, "SkipFile", TRUE) : r \in BOOLEAN}

(* One transfer command, and the resume that may follow it. *)
TransferAndResume == {Command("transfer", FALSE, "SkipFile", TRUE),
                      Command("resume", TRUE, "SkipFile", TRUE)}

(* A destination that is clean, or already holds foreign files anywhere. *)
CleanDestination == [File -> {"Absent"}]
AllDestinations == [File -> {"Absent"} \cup Foreign]
=============================================================================

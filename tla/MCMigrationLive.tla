-------------------------- MODULE MCMigrationLive --------------------------
(* A small instance of MigrationLive: two batches, of two files and one.   *)
EXTENDS MigrationLive

MCBatchOf == [f \in 1 .. 3 |-> IF f <= 2 THEN 1 ELSE 2]

(* `caravan transfer` at a terminal, with any of its other options. *)
TransferCommands ==
    {[cmd |-> "transfer", recover |-> r, policy |-> p, interactive |-> TRUE] :
        r \in BOOLEAN, p \in ConflictPolicy}

CleanDestination == [File -> {"Absent"}]
=============================================================================

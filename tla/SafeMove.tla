------------------------------ MODULE SafeMove ------------------------------
(***************************************************************************)
(* What a migration promises whoever owns the files, without batches,      *)
(* phases or state files.  A move has two halves with a commit between     *)
(* them: until then files only arrive at the destination and the source    *)
(* stays as it is; the commit needs every file to have arrived; under it   *)
(* files are only released at the source, and what has arrived stays.  The *)
(* first release is the point of no return: up to it the commit may be     *)
(* withdrawn, after it never.                                              *)
(***************************************************************************)
CONSTANT File

VARIABLES atSource, arrived, committed

moveVars == <<atSource, arrived, committed>>

Init ==
    /\ atSource = File
    /\ arrived = {}
    /\ committed = FALSE

Arrive(f) ==
    /\ ~ committed
    /\ arrived' = arrived \cup {f}
    /\ UNCHANGED <<atSource, committed>>

(* a copy that has arrived is written again, badly, or cleared *)
Spoil(f) ==
    /\ ~ committed
    /\ arrived' = arrived \ {f}
    /\ UNCHANGED <<atSource, committed>>

Commit ==
    /\ arrived = File
    /\ committed' = TRUE
    /\ UNCHANGED <<atSource, arrived>>

Withdraw ==
    /\ atSource = File
    /\ committed' = FALSE
    /\ UNCHANGED <<atSource, arrived>>

Release(f) ==
    /\ committed
    /\ atSource' = atSource \ {f}
    /\ UNCHANGED <<arrived, committed>>

Next == Commit \/ Withdraw \/ \E f \in File : Arrive(f) \/ Spoil(f) \/ Release(f)

Spec == Init /\ [][Next]_moveVars

(* So every file is at one end. *)
Moved ==
    /\ committed => arrived = File
    /\ ~ committed => atSource = File
=============================================================================

---------------------------- MODULE StateRegister ----------------------------
(***************************************************************************)
(* What the commands of one migration take its state file for: a register. *)
(* A command starts from the value last written to it, or from a fresh     *)
(* state when nothing ever was, and each of its writes takes effect        *)
(* entirely or not at all.  The exception is a command that starts from    *)
(* some older value: nothing is promised of the register after it, until a *)
(* write makes it whole again.                                             *)
(***************************************************************************)
CONSTANTS State, Fresh, NoState

VARIABLES value,  \* what was last written; NoState when nothing was
          held,   \* the running command's state; NoState when none runs
          behind  \* whether a command has started from an older value

registerVars == <<value, held, behind>>

Init == value \in State \cup {NoState} /\ held = NoState /\ behind = FALSE

Start ==
    /\ held = NoState
    /\ held' = IF value = NoState THEN Fresh ELSE value
    /\ UNCHANGED <<value, behind>>

StartBehind ==
    /\ held = NoState
    /\ held' \in State
    /\ behind' = TRUE
    /\ value' = value

Write ==
    /\ held # NoState
    /\ \E s \in State : held' = s /\ value' = s
    /\ behind' = FALSE

Stop == held' = NoState /\ UNCHANGED <<value, behind>>

Stray ==
    /\ behind
    /\ value' \in State \cup {NoState}
    /\ held' \in State \cup {NoState}
    /\ behind' = TRUE

Next == Start \/ StartBehind \/ Write \/ Stop \/ Stray

Spec == Init /\ [][Next]_registerVars
=============================================================================

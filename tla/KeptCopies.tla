---------------------------- MODULE KeptCopies ----------------------------
(***************************************************************************)
(* What copying owes to the deletion that follows it, with power loss and  *)
(* without batches, temporary files or space: a chain of sets of files,    *)
(* each entered from the one before.  A file whose copy no power loss can  *)
(* take or cut short is kept; one the state file calls copied is recorded, *)
(* one it calls verified is trusted, and a trusted one may be released at  *)
(* the source.  Records may be taken back, of files still at the source.   *)
(*                                                                         *)
(* Guarded files, once kept, are kept for good and recorded only when kept.*)
(* Copies of others may be lost and their records be wrong, but they are   *)
(* released by the same rules.                                             *)
(***************************************************************************)
CONSTANT File

VARIABLES guarded, kept, recorded, trusted, released

keptVars == <<guarded, kept, recorded, trusted, released>>

Init ==
    /\ guarded \in SUBSET File
    /\ kept = {} /\ recorded = {} /\ trusted = {} /\ released = {}

Settle ==
    /\ kept' \in SUBSET File
    /\ kept \cap guarded \subseteq kept'
    /\ UNCHANGED <<guarded, recorded, trusted, released>>

Record(files) ==
    /\ files \cap guarded \subseteq kept
    /\ recorded' = recorded \cup files
    /\ UNCHANGED <<guarded, kept, trusted, released>>

Trust(files) ==
    /\ files \subseteq recorded
    /\ trusted' = trusted \cup files
    /\ UNCHANGED <<guarded, kept, recorded, released>>

TakeBack(files) ==
    /\ files \cap released = {}
    /\ recorded' = recorded \ files
    /\ trusted' = trusted \ files
    /\ UNCHANGED <<guarded, kept, released>>

Release(f) ==
    /\ f \in trusted
    /\ released' = released \cup {f}
    /\ UNCHANGED <<guarded, kept, recorded, trusted>>

Next ==
    \/ Settle
    \/ \E files \in SUBSET File : Record(files) \/ Trust(files) \/ TakeBack(files)
    \/ \E f \in File : Release(f)

Spec == Init /\ [][Next]_keptVars

(* So whatever guarded file is released is kept. *)
Chain ==
    /\ released \subseteq trusted
    /\ trusted \subseteq recorded
    /\ recorded \cap guarded \subseteq kept
=============================================================================

--------------------------- MODULE MCBookkeeping ---------------------------
(* Small instances of Bookkeeping for TLC: two files, two destinations,    *)
(* which are alike.                                                        *)
EXTENDS Bookkeeping, TLC

Sizes == [c \in Content |-> IF c = "longer" THEN 2 ELSE 1]
AllAlike == [f \in File |-> "short"]
Alike == Permutations(Dest)
=============================================================================

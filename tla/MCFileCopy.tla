----------------------------- MODULE MCFileCopy -----------------------------
(* Small instances of FileCopy for TLC: three files, two of them in a      *)
(* directory the copy has to make, migrated on Linux and, natively copied, *)
(* on Windows.                                                             *)
EXTENDS FileCopy

Directories == <<"videos", "music", "music">>

(* The destination is there, its subdirectory is not. *)
Tree == [d \in Dir |-> {"videos", d}]

Linux == [mode |-> "migrate", strategy |-> "auto", windows |-> FALSE]
Windows == [mode |-> "migrate", strategy |-> "native", windows |-> TRUE]

Migrations == {Linux, Windows}
=============================================================================

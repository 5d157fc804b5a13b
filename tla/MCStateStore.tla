---------------------------- MODULE MCStateStore ----------------------------
(* Small instances of StateStore for TLC: two migrations, each run from a  *)
(* directory of its own, or both from one.                                 *)
EXTENDS StateStore

OwnCanonical == [m \in Identity |-> IF m = "photos" THEN "photos.json" ELSE "videos.json"]
OwnDirectory == [m \in Identity |-> IF m = "photos" THEN "here/state.json" ELSE "there/state.json"]
OneDirectory == [m \in Identity |-> "here/state.json"]
=============================================================================

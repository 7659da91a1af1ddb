---------------------------- MODULE MCResultCache ----------------------------
(***************************************************************************)
(* A small instance of ResultCache for TLC: three releases, of which the   *)
(* second changes schema and whitelist and the third the prompt.           *)
(***************************************************************************)
EXTENDS ResultCache

CONSTANTS a, b, p1, p2, h1, v1, v2, wlOld, wlNew

TwoWorkers == {a, b}
TwoImages == {p1, p2}
OneHash == {h1}
Alike == [p \in TwoImages |-> h1]
TwoVersions == {v1, v2}
Old == [psv |-> v1, schema |-> 1, whitelist |-> wlOld]
Wider == [psv |-> v1, schema |-> 2, whitelist |-> wlNew]
Reworded == [psv |-> v2, schema |-> 2, whitelist |-> wlNew]
ThreeReleases == {Old, Wider, Reworded}
=============================================================================

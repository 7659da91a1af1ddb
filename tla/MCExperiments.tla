---------------------------- MODULE MCExperiments ----------------------------
(***************************************************************************)
(* A small instance of Experiments for TLC: two shells, two versions.      *)
(***************************************************************************)
EXTENDS Experiments, TLC

CONSTANTS a, b, v1, v2

TwoSessions == {a, b}
TwoVersions == {v1, v2}
Symmetry == Permutations(Sessions) \union Permutations(Versions)
=============================================================================

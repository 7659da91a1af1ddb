---------------------------- MODULE MCApiProcess -----------------------------
(***************************************************************************)
(* A small instance of ApiProcess for TLC: more simultaneous requests than *)
(* the queue has places left.                                              *)
(***************************************************************************)
EXTENDS ApiProcess

CONSTANTS r1, r2, r3, s1, s2

ThreeRequests == {r1, r2, r3}
TwoSlots == {s1, s2}
=============================================================================

---------------------------- MODULE MCGeminiQuota ----------------------------
(***************************************************************************)
(* A small instance of GeminiQuota for TLC.                                *)
(***************************************************************************)
EXTENDS GeminiQuota, TLC

CONSTANTS s1, s2

TwoSlots == {s1, s2}

\* Half a token or two tokens per tick, a burst of one or two.
SlowOrFast == {1, 4}
OneOrTwo == {1, 2}

\* One retry, at once.
OneBackoff == <<0>>

Symmetry == Permutations(Slots)
=============================================================================

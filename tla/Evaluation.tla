----------------------------- MODULE Evaluation -----------------------------
(***************************************************************************)
(* The evaluation: its sets and whitelists are made of the labels          *)
(* (EvalSet), run_eval.py submits a set to the service (EvalRun) and       *)
(* compares each answer with its label (EvalAlignment).  A part reads only *)
(* what the one before has left behind, and what the service answers may   *)
(* be anything: a behaviour is one of a part, and the others rest.         *)
(***************************************************************************)
EXTENDS EvalAlignment, EvalRun, EvalSet

VARIABLE part  \* the part that the behaviour is of

AlignmentRests ==
  round = "done" /\ gt = <<>> /\ lines = <<>> /\ pick = <<>> /\ verdict = <<>> /\ twin = FALSE
ClientRests == file = [r \in Records |-> CHOOSE f \in Files : TRUE] /\ ClientInit
SetRests == labels = <<>> /\ SetInit

EvalInit ==
  \/ part = "alignment" /\ Init /\ ClientRests /\ SetRests
  \/ part = "client" /\ AlignmentRests /\ ClientInit /\ SetRests
  \/ part = "set" /\ AlignmentRests /\ ClientRests /\ SetInit

EvalNext ==
  /\ \/ part = "alignment" /\ Next /\ UNCHANGED <<client, set>>
     \/ part = "client" /\ ClientNext /\ UNCHANGED <<vars, set>>
     \/ part = "set" /\ SetNext /\ UNCHANGED <<vars, client>>
  /\ UNCHANGED part

\* The two others need no fairness: no property asks that they end.
EvalSpec == EvalInit /\ [][EvalNext]_<<vars, client, set, part>> /\ ClientFairness
=============================================================================

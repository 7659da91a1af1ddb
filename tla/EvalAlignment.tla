---------------------------- MODULE EvalAlignment ----------------------------
(***************************************************************************)
(* How scripts/run_eval.py scores the product lines of a receipt:          *)
(* evaluate_single aligns the predicted lines with those of the label      *)
(* greedily and judges them field by field; the aggregation of main        *)
(* rebuilds a prediction from the mismatches that were kept                *)
(* (_build_pred_skeleton) and evaluates that one again to count the        *)
(* correct fields of the report.                                           *)
(*                                                                         *)
(* A line is a record of the fields that the alignment reads and one it    *)
(* does not read; money and quantities are their normalised values.  The   *)
(* base fields of a receipt are not aligned and are left out.              *)
(*                                                                         *)
(* A name with _Bad is a wrong variant of the definition that follows it.  *)
(***************************************************************************)
EXTENDS Integers, Sequences, FiniteSets

CONSTANTS
  Products,   \* the lines of labels and predictions
  Blank,      \* a field that is missing or empty
  Similar,    \* the pairs of names whose SequenceMatcher ratio exceeds 0.95
  MaxLabel,   \* bound of the runs: lines of a label
  MaxPred     \* bound of the runs: lines of a prediction

Fields == {"name", "price", "total", "quantity"}

ASSUME AlignmentAssumption ==
  /\ MaxLabel \in Nat /\ MaxPred \in Nat
  /\ \A p \in Products : /\ DOMAIN p = Fields
                         /\ p["name"] # Blank => <<p["name"], p["name"]>> \in Similar

VARIABLES
  round,     \* the evaluation that runs: of the prediction, of the skeleton
  gt,        \* the lines of the label
  lines,     \* the lines that are evaluated: the prediction, then the skeleton
  pick,      \* for each label line so far the line aligned with it
  verdict,   \* field_results of the first evaluation
  twin       \* history: a line of the label whose name an earlier one has too
             \* was found correct by a name that is only similar

vars == <<round, gt, lines, pick, verdict, twin>>

Unmatched == 0
NoLine == [f \in Fields |-> Blank]
SeqsUpTo(S, n) == UNION {[1..m -> S] : m \in 0..n}

Init ==
  /\ round = "prediction"
  /\ gt \in SeqsUpTo(Products, MaxLabel)
  /\ lines \in SeqsUpTo(Products, MaxPred)
  /\ pick = <<>>
  /\ verdict = <<>>
  /\ twin = FALSE

-----------------------------------------------------------------------------

\* compare_field: a field that the label leaves empty is not judged.
Correct(f, p, g) == p # Blank /\ IF f = "name" THEN <<p, g>> \in Similar ELSE p = g
Judged(f, p, g) == IF g = Blank THEN "none" ELSE IF Correct(f, p, g) THEN "correct" ELSE "wrong"

Agree(g, p, f) == g[f] # Blank /\ p[f] = g[f]

Score(g, p) ==
  (IF Agree(g, p, "price") THEN 2 ELSE 0)
    + (IF Agree(g, p, "total") THEN 2 ELSE 0)
    + (IF Agree(g, p, "name") THEN 3 ELSE 0)

Used(k) == \E i \in 1..Len(pick) : pick[i] = k
\* A line may be aligned with several label lines.
Open_BadAll == 1..Len(lines)
Open == {k \in 1..Len(lines) : ~Used(k)}

\* The first of the best open lines.
\* The first line that agrees in anything is taken.
IsBest_BadFirst(g, k) == \A j \in Open \ {k} : k < j \/ Score(g, lines[j]) = 0
IsBest(g, k) ==
  \A j \in Open \ {k} :
    \/ Score(g, lines[j]) < Score(g, lines[k])
    \/ Score(g, lines[j]) = Score(g, lines[k]) /\ k < j

\* One turn of the alignment loop.
Align ==
  /\ round # "done" /\ Len(pick) < Len(gt)
  /\ LET g == gt[Len(pick) + 1] IN
     \/ \E k \in Open : /\ IsBest(g, k) /\ Score(g, lines[k]) > 0
                        /\ pick' = Append(pick, k)
     \/ /\ \A k \in Open : Score(g, lines[k]) <= 0
        /\ pick' = Append(pick, Unmatched)
  /\ UNCHANGED <<round, gt, lines, verdict, twin>>

\* Open lines are appended to the aligned ones, but there is no label line to
\* judge them by.
Aligned(i) == IF pick[i] = Unmatched THEN NoLine ELSE lines[pick[i]]
Results == [i \in 1..Len(gt) |-> [f \in Fields |-> Judged(f, Aligned(i)[f], gt[i][f])]]

\* _build_pred_skeleton: the label with the mismatches put in.
\* A wrong price is left as it is in the label.
Skeleton_BadPrice ==
  [i \in 1..Len(gt) |-> [f \in Fields |->
     IF Results[i][f] = "wrong" /\ f # "price" THEN Aligned(i)[f] ELSE gt[i][f]]]
Skeleton ==
  [i \in 1..Len(gt) |-> [f \in Fields |->
     IF Results[i][f] = "wrong" THEN Aligned(i)[f] ELSE gt[i][f]]]

SimilarTwin ==
  \E i, k \in 1..Len(gt) :
    /\ i < k /\ gt[i]["name"] = gt[k]["name"]
    /\ Results[k]["name"] = "correct" /\ Aligned(k)["name"] # gt[k]["name"]

\* The fields are judged; the skeleton is evaluated after the prediction.
Judge ==
  /\ round # "done" /\ Len(pick) = Len(gt)
  /\ IF round = "prediction"
       THEN /\ round' = "skeleton" /\ verdict' = Results
            /\ lines' = Skeleton /\ pick' = <<>> /\ twin' = SimilarTwin
       ELSE round' = "done" /\ UNCHANGED <<verdict, lines, pick, twin>>
  /\ UNCHANGED gt

Next == Align \/ Judge

Spec == Init /\ [][Next]_vars

-----------------------------------------------------------------------------
(* Properties.                                                             *)

TypeOK ==
  /\ round \in {"prediction", "skeleton", "done"}
  /\ pick \in Seq(0..Len(lines))
  /\ Len(pick) <= Len(gt)

\* No line is compared with two label lines. (the set used)
ComparedOnce ==
  \A i, j \in 1..Len(pick) : i # j /\ pick[i] = pick[j] => pick[i] = Unmatched

\* What is left over would have scored no better on any label line than what
\* was aligned with it. (the greedy choice)
LeftoversNoBetter ==
  \A i \in 1..Len(pick) : \A k \in Open :
    Score(gt[i], lines[k]) <= IF pick[i] = Unmatched THEN 0 ELSE Score(gt[i], lines[pick[i]])

\* The number of fields of each kind that the report counts as correct is the
\* number that were, unless the label has a name twice and the later line was
\* predicted with a similar one: the skeleton has the name of the label there,
\* and the earlier line may now fit the later one better.
\* (_build_pred_skeleton and the second evaluate_single of main)
CorrectIn(r, f) == Cardinality({i \in 1..Len(gt) : r[i][f] = "correct"})
SkeletonReproduces ==
  round = "done" /\ ~twin => \A f \in Fields : CorrectIn(Results, f) = CorrectIn(verdict, f)
=============================================================================

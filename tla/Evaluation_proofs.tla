-------------------------- MODULE Evaluation_proofs --------------------------
(***************************************************************************)
(* Proofs about the parts of Evaluation: the alignment for any lines,      *)
(* labels and predictions, the client for any records, files and threads,  *)
(* and the sets for any labels, whatever the bounds of the runs.           *)
(***************************************************************************)
EXTENDS Evaluation, FiniteSetTheorems, SequenceTheorems, TLAPS

-----------------------------------------------------------------------------
(* EvalAlignment.                                                          *)

\* The two evaluations run on sequences, and a pick is an index or Unmatched.
AlignTypeInv ==
  /\ TypeOK
  /\ Len(gt) \in Nat
  /\ Len(lines) \in Nat

AlignInv == AlignTypeInv /\ ComparedOnce /\ LeftoversNoBetter

LEMMA ScoreIsInt == \A g, p : Score(g, p) \in Int
BY DEF Score

LEMMA BoundedSeqLen ==
  ASSUME NEW S, NEW n \in Nat, NEW s \in SeqsUpTo(S, n)
  PROVE  Len(s) \in Nat
BY DEF SeqsUpTo

LEMMA AlignInvInit == Init => AlignInv
<1> SUFFICES ASSUME Init PROVE AlignInv
  OBVIOUS
<1>1. Len(gt) \in Nat /\ Len(lines) \in Nat
  BY BoundedSeqLen, AlignmentAssumption DEF Init
<1>2. pick = <<>> /\ round = "prediction"
  BY DEF Init
<1> QED
  BY <1>1, <1>2 DEF AlignInv, AlignTypeInv, TypeOK, ComparedOnce, LeftoversNoBetter

\* A turn of the loop: the new pick is open or none, so it is in no earlier
\* place, and what stays open was open before.
LEMMA AlignStep == AlignInv /\ Align => AlignInv'
<1> SUFFICES ASSUME AlignInv, Align PROVE AlignInv'
  OBVIOUS
<1> DEFINE g == gt[Len(pick) + 1]
<1>0. UNCHANGED <<round, gt, lines, verdict, twin>> /\ Len(pick) < Len(gt)
  BY DEF Align
<1>1. PICK k \in 0..Len(lines) :
        /\ pick' = Append(pick, k)
        /\ k # Unmatched => k \in Open
        /\ \A j \in Open \ {k} :
             Score(g, lines[j]) <= IF k = Unmatched THEN 0 ELSE Score(g, lines[k])
  <2>1. CASE \E k \in Open : /\ IsBest(g, k) /\ Score(g, lines[k]) > 0
                             /\ pick' = Append(pick, k)
    <3>1. PICK k \in Open : /\ IsBest(g, k) /\ Score(g, lines[k]) > 0
                            /\ pick' = Append(pick, k)
      BY <2>1
    <3>2. k \in 1..Len(lines)
      BY <3>1 DEF Open
    <3>3. \A j \in Open \ {k} : Score(g, lines[j]) <= Score(g, lines[k])
      BY <3>1, ScoreIsInt DEF IsBest
    <3>4. k # Unmatched /\ k \in 0..Len(lines)
      BY <3>2 DEF Unmatched, AlignInv, AlignTypeInv
    <3> QED
      BY <3>1, <3>3, <3>4
  <2>2. CASE /\ \A k \in Open : Score(g, lines[k]) <= 0
             /\ pick' = Append(pick, Unmatched)
    BY <2>2 DEF Unmatched, AlignInv, AlignTypeInv
  <2> QED
    BY <2>1, <2>2 DEF Align
<1> HIDE DEF g
<1>2. pick \in Seq(0..Len(lines)) /\ Len(pick) \in Nat /\ Len(gt) \in Nat /\ Len(lines) \in Nat
  BY DEF AlignInv, AlignTypeInv, TypeOK
<1>3. /\ Len(pick') = Len(pick) + 1
      /\ pick' \in Seq(0..Len(lines))
      /\ \A i \in 1..Len(pick) : pick'[i] = pick[i]
      /\ pick'[Len(pick) + 1] = k
  BY <1>1, <1>2
<1>4. AlignTypeInv'
  BY <1>0, <1>2, <1>3 DEF AlignInv, AlignTypeInv, TypeOK
<1>5. \A m \in Open' : m \in Open /\ m # k
  <2> SUFFICES ASSUME NEW m \in Open' PROVE m \in Open /\ m # k
    OBVIOUS
  <2>1. m \in 1..Len(lines) /\ \A i \in 1..Len(pick') : pick'[i] # m
    BY <1>0 DEF Open, Used
  <2>2. Len(pick) + 1 \in 1..Len(pick') /\ \A i \in 1..Len(pick) : i \in 1..Len(pick')
    BY <1>2, <1>3
  <2> QED
    BY <2>1, <2>2, <1>3 DEF Open, Used
<1>n. /\ Len(pick) \in Nat /\ Len(pick') = Len(pick) + 1
      /\ \A i \in 1..Len(pick') : i \in 1..Len(pick) \/ i = Len(pick) + 1
  BY <1>2, <1>3
<1>o. /\ \A i \in 1..Len(pick) : pick'[i] = pick[i]
      /\ pick'[Len(pick) + 1] = k
  BY <1>3
<1>6. ComparedOnce'
  <2> SUFFICES ASSUME NEW i \in 1..Len(pick'), NEW j \in 1..Len(pick'), i # j, pick'[i] = pick'[j]
               PROVE  pick'[i] = Unmatched
    BY <1>n DEF ComparedOnce
  <2>1. \A m \in 1..Len(pick) : pick[m] = k => k = Unmatched
    BY <1>1 DEF Open, Used
  <2>2. CASE i \in 1..Len(pick) /\ j \in 1..Len(pick)
    BY <2>2, <1>o DEF AlignInv, ComparedOnce
  <2>3. CASE i = Len(pick) + 1 \/ j = Len(pick) + 1
    <3>1. pick'[i] = k /\ (i \in 1..Len(pick) \/ j \in 1..Len(pick))
      BY <2>3, <1>n, <1>o
    <3> QED
      BY <3>1, <2>1, <1>o
  <2> QED
    BY <2>2, <2>3, <1>n
<1>7. LeftoversNoBetter'
  <2> SUFFICES ASSUME NEW i \in 1..Len(pick'), NEW m \in Open'
               PROVE  Score(gt[i], lines[m])
                        <= IF pick'[i] = Unmatched THEN 0 ELSE Score(gt[i], lines[pick'[i]])
    BY <1>0 DEF LeftoversNoBetter, Score, Agree
  <2>1. m \in Open /\ m # k
    BY <1>5
  <2>2. CASE i \in 1..Len(pick)
    BY <2>1, <2>2, <1>3 DEF AlignInv, LeftoversNoBetter
  <2>3. CASE i = Len(pick) + 1
    <3>1. gt[i] = g /\ pick'[i] = k
      BY <2>3, <1>3 DEF g
    <3> QED
      BY <3>1, <2>1, <1>1
  <2> QED
    BY <2>2, <2>3, <1>2, <1>3
<1> QED
  BY <1>4, <1>6, <1>7 DEF AlignInv

LEMMA JudgeStep == AlignInv /\ Judge => AlignInv'
<1> SUFFICES ASSUME AlignInv, Judge PROVE AlignInv'
  OBVIOUS
<1>1. CASE round = "prediction"
  <2>1. pick' = <<>> /\ gt' = gt /\ round' = "skeleton" /\ lines' = Skeleton
    BY <1>1 DEF Judge
  <2>2. Len(gt) \in Nat
    BY DEF AlignInv, AlignTypeInv
  <2>3. Len(Skeleton) = Len(gt)
    BY <2>2 DEF Skeleton
  <2> QED
    BY <2>1, <2>2, <2>3 DEF AlignInv, AlignTypeInv, TypeOK, ComparedOnce, LeftoversNoBetter
<1>2. CASE round # "prediction"
  <2>1. round' = "done" /\ UNCHANGED <<gt, lines, pick>>
    BY <1>2 DEF Judge
  <2> QED
    BY <2>1 DEF AlignInv, AlignTypeInv, TypeOK, ComparedOnce, LeftoversNoBetter, Open, Used, Score, Agree
<1> QED
  BY <1>1, <1>2

LEMMA AlignInvInductive == AlignInv /\ [Next]_vars => AlignInv'
<1>1. AlignInv /\ UNCHANGED vars => AlignInv'
  BY DEF vars, AlignInv, AlignTypeInv, TypeOK, ComparedOnce, LeftoversNoBetter, Open, Used, Score, Agree
<1> QED
  BY <1>1, AlignStep, JudgeStep DEF Next

\* The alignment never compares a predicted line with two label lines, however
\* long label and prediction are. (the set used in evaluate_single)
THEOREM AlignmentComparesOnce == Spec => []ComparedOnce
<1> QED
  BY AlignInvInit, AlignInvInductive, PTL DEF Spec, AlignInv

\* The greedy choice is locally best: no line that is left over fits a label
\* line better than the one aligned with it. (evaluate_single)
THEOREM AlignmentIsGreedy == Spec => []LeftoversNoBetter
<1> QED
  BY AlignInvInit, AlignInvInductive, PTL DEF Spec, AlignInv

-----------------------------------------------------------------------------
(* The skeleton, unless the label has a twin whose name was only similar.   *)

\* What the line aligned with a label line scores.
Got(i) == IF pick[i] = Unmatched THEN 0 ELSE Score(gt[i], lines[pick[i]])

\* While the prediction is evaluated: what a label line is aligned with scores,
\* and was open to the label lines before it.
FirstInv ==
  round = "prediction" =>
    /\ \A k \in 1..Len(lines) : lines[k] \in Products
    /\ \A i \in 1..Len(pick) : pick[i] # Unmatched => Got(i) > 0
    /\ \A i, k \in 1..Len(pick) :
         i < k /\ pick[k] # Unmatched => Score(gt[i], lines[pick[k]]) <= Got(i)

\* A skeleton has a line for each of the label, which is judged as it was, fits
\* its label line no worse than the lines behind it do, and is empty if it has
\* nothing to be aligned by.
SkeletonFits ==
  /\ Len(lines) = Len(gt)
  /\ \A i \in 1..Len(gt) : \A f \in Fields : Judged(f, lines[i][f], gt[i][f]) = verdict[i][f]
  /\ \A i, k \in 1..Len(gt) : i < k => Score(gt[i], lines[k]) <= Score(gt[i], lines[i])
  /\ \A i \in 1..Len(gt) : ~(Score(gt[i], lines[i]) > 0) => \A f \in Fields : lines[i][f] = Blank

\* So, if there is no twin, each label line gets its own line again.
OwnPicks ==
  \A i \in 1..Len(pick) :
    /\ Score(gt[i], lines[i]) > 0 => pick[i] = i
    /\ ~(Score(gt[i], lines[i]) > 0) => pick[i] = Unmatched

SecondInv ==
  /\ round # "prediction" /\ ~twin => SkeletonFits /\ OwnPicks
  /\ round = "done" => Len(pick) = Len(gt)

SkelInv ==
  /\ AlignInv
  /\ \A i \in 1..Len(gt) : gt[i] \in Products
  /\ FirstInv
  /\ SecondInv

LEMMA ScoreAtLeast == \A g, p : Score(g, p) \in Int /\ Score(g, p) >= 0
BY DEF Score

\* Who agrees in more fields scores more.
LEMMA ScoreGrows ==
  ASSUME NEW g, NEW h, NEW p, NEW q,
         \A f \in {"name", "price", "total"} : Agree(g, p, f) => Agree(h, q, f)
  PROVE  Score(g, p) <= Score(h, q)
<1>1. /\ Agree(g, p, "name") => Agree(h, q, "name")
      /\ Agree(g, p, "price") => Agree(h, q, "price")
      /\ Agree(g, p, "total") => Agree(h, q, "total")
  OBVIOUS
<1> QED
  BY <1>1 DEF Score

LEMMA EmptyScoresNothing ==
  ASSUME NEW g, NEW p, \A f \in Fields : p[f] = Blank
  PROVE  Score(g, p) = 0
<1>1. ~Agree(g, p, "name") /\ ~Agree(g, p, "price") /\ ~Agree(g, p, "total")
  BY DEF Agree, Fields
<1> QED
  BY <1>1 DEF Score

LEMMA NothingIsJudged ==
  \A f : \A p, g :
    /\ Judged(f, p, g) \in {"none", "correct", "wrong"}
    /\ Judged(f, p, g) = "none" <=> g = Blank
    /\ Judged(f, p, g) = "correct" <=> g # Blank /\ Correct(f, p, g)
BY DEF Judged

\* A field that is not a name is correct exactly if it is that of the label.
LEMMA CorrectIsEqual ==
  ASSUME NEW f, f # "name", NEW p, NEW g, g # Blank
  PROVE  Correct(f, p, g) <=> p = g
<1>1. Correct(f, p, g) <=> p # Blank /\ p = g
  BY Zenon DEF Correct
<1> QED
  BY <1>1, Zenon

\* A field of the skeleton: it is judged as the one it is made of, and agrees
\* with a field only if that one does, or if it is a name of the label for which
\* a similar one was taken.
LEMMA SkeletonField ==
  ASSUME NEW f, NEW p, NEW g, f = "name" /\ g # Blank => <<g, g>> \in Similar,
         NEW s, s = IF Judged(f, p, g) = "wrong" THEN p ELSE g
  PROVE  /\ Judged(f, s, g) = Judged(f, p, g)
         /\ \A h : h # Blank /\ s = h => p = h \/ (f = "name" /\ h = g /\ Judged(f, p, g) = "correct")
         /\ g # Blank /\ p = g => s = g
         /\ p = Blank => s = Blank
<1>1. CASE g = Blank
  <2>1. Judged(f, p, g) = "none" /\ Judged(f, s, g) = "none"
    BY <1>1, NothingIsJudged, Zenon
  <2>2. s = g
    BY <2>1
  <2> QED
    BY <1>1, <2>1, <2>2, Zenon
<1>2. CASE g # Blank
  <2>1. CASE Judged(f, p, g) = "wrong"
    <3>1. s = p
      BY <2>1
    <3> QED
      BY <1>2, <2>1, <3>1, Zenon
  <2>2. CASE Judged(f, p, g) # "wrong"
    <3>1. s = g
      BY <2>2
    <3>2. Judged(f, p, g) = "correct" /\ Correct(f, p, g)
      BY <1>2, <2>2, NothingIsJudged, Zenon
    <3>3. Correct(f, g, g)
      BY <1>2, Zenon DEF Correct
    <3>4. Judged(f, s, g) = "correct"
      BY <1>2, <3>1, <3>3, NothingIsJudged, Zenon
    <3>5. p # Blank
      BY <3>2, Zenon DEF Correct
    <3>6. f # "name" => p = g
      BY <1>2, <3>2, CorrectIsEqual, Zenon
    <3> QED
      BY <3>1, <3>2, <3>4, <3>5, <3>6, Zenon
  <2> QED
    BY <2>1, <2>2, Zenon
<1> QED
  BY <1>1, <1>2, Zenon

LEMMA SkelInvInit == Init => SkelInv
<1> SUFFICES ASSUME Init PROVE SkelInv
  OBVIOUS
<1>1. AlignInv
  BY AlignInvInit, Zenon
<1>2. pick = <<>> /\ round = "prediction" /\ Len(pick) = 0
  BY DEF Init
<1>3. \A s : \A n \in Nat : s \in SeqsUpTo(Products, n) => \A i \in 1..Len(s) : s[i] \in Products
  BY DEF SeqsUpTo
<1>4. /\ \A i \in 1..Len(gt) : gt[i] \in Products
      /\ \A i \in 1..Len(lines) : lines[i] \in Products
  BY <1>3, AlignmentAssumption, Zenon DEF Init
<1>5. \A i : i \notin 1..Len(pick)
  BY <1>2
<1>6. FirstInv
  BY <1>4, <1>5, Zenon DEF FirstInv
<1>7. round # "done"
  BY <1>2
<1> QED
  BY <1>1, <1>2, <1>4, <1>6, <1>7, Zenon DEF SkelInv, SecondInv

\* What a turn of the loop adds.
Picked(k) ==
  /\ UNCHANGED <<round, gt, lines, verdict, twin>> /\ Len(pick) < Len(gt)
  /\ pick' = Append(pick, k)
  /\ \/ k \in Open /\ IsBest(gt[Len(pick) + 1], k) /\ Score(gt[Len(pick) + 1], lines[k]) > 0
     \/ k = Unmatched /\ \A j \in Open : ~(Score(gt[Len(pick) + 1], lines[j]) > 0)

LEMMA AlignPicks ==
  ASSUME AlignInv, Align
  PROVE  \E k \in 0..Len(lines) : Picked(k)
<1>1. CASE \E k \in Open : /\ IsBest(gt[Len(pick) + 1], k)
                           /\ Score(gt[Len(pick) + 1], lines[k]) > 0
                           /\ pick' = Append(pick, k)
  <2>1. \A k \in Open : k \in 0..Len(lines)
    BY DEF Open
  <2> QED
    BY <1>1, <2>1, Zenon DEF Align, Picked
<1>2. CASE /\ \A k \in Open : Score(gt[Len(pick) + 1], lines[k]) <= 0
           /\ pick' = Append(pick, Unmatched)
  <2>1. \A k : Score(gt[Len(pick) + 1], lines[k]) <= 0
                 => ~(Score(gt[Len(pick) + 1], lines[k]) > 0)
    BY ScoreAtLeast
  <2>2. Unmatched \in 0..Len(lines)
    BY DEF Unmatched, AlignInv, AlignTypeInv
  <2> QED
    BY <1>2, <2>1, <2>2, Zenon DEF Align, Picked
<1> QED
  BY <1>1, <1>2, Zenon DEF Align

LEMMA PickedTyped ==
  ASSUME AlignInv, NEW k \in 0..Len(lines), Picked(k)
  PROVE  /\ Len(pick) \in Nat /\ Len(gt) \in Nat /\ Len(pick') = Len(pick) + 1
         /\ Len(pick) + 1 \in 1..Len(gt)
         /\ pick' \in Seq(0..Len(lines))
         /\ \A i \in 1..Len(pick) : i # Len(pick) + 1 /\ i < Len(pick) + 1 /\ pick'[i] = pick[i]
         /\ pick'[Len(pick) + 1] = k
         /\ \A i : i \in 1..Len(pick') <=> i \in 1..Len(pick) \/ i = Len(pick) + 1
         /\ \A i \in 1..Len(pick) : i \in 1..Len(gt)
<1>1. /\ pick \in Seq(0..Len(lines)) /\ Len(pick) \in Nat /\ Len(gt) \in Nat /\ Len(lines) \in Nat
      /\ pick' = Append(pick, k) /\ Len(pick) < Len(gt)
  BY DEF AlignInv, AlignTypeInv, TypeOK, Picked
<1>2. Len(pick') = Len(pick) + 1 /\ pick'[Len(pick) + 1] = k /\ pick' \in Seq(0..Len(lines))
  BY <1>1
<1>3. \A i \in 1..Len(pick) : i # Len(pick) + 1 /\ i < Len(pick) + 1 /\ pick'[i] = pick[i]
  BY <1>1
<1>4. \A i : i \in 1..Len(pick') <=> i \in 1..Len(pick) \/ i = Len(pick) + 1
  BY <1>1, <1>2
<1>5. Len(pick) + 1 \in 1..Len(gt) /\ \A i \in 1..Len(pick) : i \in 1..Len(gt)
  BY <1>1
<1> QED
  BY <1>1, <1>2, <1>3, <1>4, <1>5, Zenon

LEMMA FirstAlign ==
  ASSUME SkelInv, NEW k \in 0..Len(lines), Picked(k), round = "prediction"
  PROVE  FirstInv'
<1>0. PICK n : n = Len(pick) + 1
  OBVIOUS
<1>1. UNCHANGED <<round, gt, lines>> /\ AlignInv /\ FirstInv
  BY Zenon DEF SkelInv, Picked
<1>2. /\ \A i \in 1..Len(pick) : i # n /\ i < n /\ pick'[i] = pick[i]
      /\ pick'[n] = k
      /\ \A i : i \in 1..Len(pick') <=> i \in 1..Len(pick) \/ i = n
      /\ n \in Nat
  <2>1. n \in Nat
    <3>1. Len(pick) \in Nat
      BY <1>1, PickedTyped, Zenon
    <3> QED
      BY <1>0, <3>1
  <2> QED
    BY <1>0, <1>1, <2>1, PickedTyped, Zenon
<1>3. \A i \in 1..Len(pick) : Got(i)' = Got(i)
  <2>1. \A i : pick'[i] = pick[i] => Got(i)' = Got(i)
    BY <1>1, Zenon DEF Got
  <2> QED
    BY <1>2, <2>1, Zenon
<1>4. k # Unmatched => Got(n)' > 0 /\ k \in Open
  <2>1. Got(n)' = IF pick'[n] = Unmatched THEN 0 ELSE Score(gt[n], lines[pick'[n]])
    BY <1>1, Zenon DEF Got
  <2>2. k # Unmatched => k \in Open /\ Score(gt[n], lines[k]) > 0
    BY <1>0, Zenon DEF Picked
  <2> QED
    BY <1>2, <2>1, <2>2, Zenon
<1>5. \A i \in 1..Len(pick) : k # Unmatched => Score(gt[i], lines[k]) <= Got(i)
  BY <1>1, <1>4, Zenon DEF AlignInv, LeftoversNoBetter, Got
<1>6. \A i \in 1..Len(pick') : pick'[i] # Unmatched => Got(i)' > 0
  <2>1. \A i \in 1..Len(pick) : pick[i] # Unmatched => Got(i) > 0
    BY <1>1, Zenon DEF FirstInv
  <2>2. pick'[n] # Unmatched => Got(n)' > 0
    BY <1>2, <1>4, Zenon
  <2>3. ASSUME NEW i \in 1..Len(pick), pick'[i] # Unmatched PROVE Got(i)' > 0
    <3>1. pick[i] # Unmatched
      BY <1>2, <2>3, Zenon
    <3> QED
      BY <1>3, <2>1, <3>1, Zenon
  <2>4. ASSUME NEW i, i = n, pick'[i] # Unmatched PROVE Got(i)' > 0
    BY <2>2, <2>4, Zenon
  <2> QED
    BY <1>2, <2>3, <2>4, Zenon
<1>7. ASSUME NEW i \in 1..Len(pick'), NEW l \in 1..Len(pick'), i < l, pick'[l] # Unmatched
      PROVE  Score(gt[i], lines[pick'[l]]) <= Got(i)'
  <2>1. i \in 1..Len(pick)
    <3>1. ASSUME i = n PROVE FALSE
      <4>1. l = n \/ l < n
        BY <1>2, Zenon
      <4> QED
        BY <1>2, <1>7, <3>1, <4>1
    <3> QED
      BY <1>2, <3>1, Zenon
  <2>2. CASE l = n
    BY <1>2, <1>3, <1>5, <1>7, <2>1, <2>2, Zenon
  <2>3. CASE l \in 1..Len(pick)
    <3>1. pick'[l] = pick[l]
      BY <1>2, <2>3, Zenon
    <3> QED
      BY <1>1, <1>3, <1>7, <2>1, <2>3, <3>1, Zenon DEF FirstInv
  <2> QED
    BY <1>2, <2>2, <2>3, Zenon
<1>8. \A j \in 1..Len(lines') : lines'[j] \in Products
  BY <1>1, Zenon DEF FirstInv
<1> QED
  BY <1>1, <1>6, <1>7, <1>8, Zenon DEF FirstInv

LEMMA SecondAlign ==
  ASSUME SkelInv, NEW k \in 0..Len(lines), Picked(k), round # "prediction", ~twin
  PROVE  OwnPicks'
<1> DEFINE n == Len(pick) + 1
           S(i) == Score(gt[n], lines[i])
<1>1. UNCHANGED <<round, gt, lines>> /\ AlignInv /\ SkeletonFits /\ OwnPicks
  BY Zenon DEF SkelInv, SecondInv, Picked
<1>2. /\ \A i \in 1..Len(pick) : i # n /\ i < n /\ pick'[i] = pick[i] /\ i \in 1..Len(gt)
      /\ pick'[n] = k
      /\ \A i : i \in 1..Len(pick') <=> i \in 1..Len(pick) \/ i = n
      /\ n \in Nat /\ n # 0 /\ n \in 1..Len(gt) /\ Len(lines) = Len(gt)
  <2>1. n \in Nat /\ n # 0
    BY <1>1, PickedTyped
  <2> QED
    BY <1>1, <2>1, PickedTyped, Zenon DEF SkeletonFits
<1>3. n \in Open
  <2>1. ASSUME NEW i \in 1..Len(pick), pick[i] = n PROVE FALSE
    <3>1. pick[i] = i \/ pick[i] = Unmatched
      BY <1>1, <2>1, Zenon DEF OwnPicks
    <3> QED
      BY <1>2, <2>1, <3>1 DEF Unmatched
  <2> QED
    BY <1>2, <2>1, Zenon DEF Open, Used
<1>4. ASSUME NEW j \in Open, j \in 1..Len(pick) PROVE ~(S(j) > 0)
  <2>1. pick[j] # j
    BY <1>4, Zenon DEF Open, Used
  <2>2. ~(Score(gt[j], lines[j]) > 0)
    BY <1>1, <1>4, <2>1, Zenon DEF OwnPicks
  <2>3. \A f \in Fields : lines[j][f] = Blank
    BY <1>1, <1>2, <1>4, <2>2, Zenon DEF SkeletonFits
  <2>4. S(j) = 0
    BY <2>3, EmptyScoresNothing, Zenon
  <2> QED
    BY <2>4
<1>5. ASSUME NEW j \in Open PROVE j \in 1..Len(pick) \/ j = n \/ (n < j /\ S(j) <= S(n))
  <2>1. j \in 1..Len(gt)
    BY <1>2, Zenon DEF Open
  <2>2. j \in 1..Len(pick) \/ j = n \/ n < j
    BY <2>1, <1>1, PickedTyped
  <2> QED
    BY <1>1, <1>2, <2>1, <2>2, Zenon DEF SkeletonFits
<1>6. ASSUME S(n) > 0 PROVE k = n
  <2>1. k \in Open /\ IsBest(gt[n], k) /\ S(k) > 0
    BY <1>3, <1>6, Zenon DEF Picked
  <2>2. CASE k # n
    <3>1. n < k /\ S(k) <= S(n)
      BY <1>4, <1>5, <2>1, <2>2, Zenon
    <3>2. S(n) < S(k) \/ (S(n) = S(k) /\ k < n)
      BY <1>3, <2>1, <2>2, Zenon DEF IsBest
    <3>3. S(n) \in Int /\ S(k) \in Int
      BY ScoreAtLeast, Zenon
    <3> DEFINE a == S(n)  b == S(k)
    <3>4. n < k /\ b <= a /\ (a < b \/ (a = b /\ k < n)) /\ a \in Int /\ b \in Int
      BY <3>1, <3>2, <3>3, Zenon
    <3>5. n \in Int /\ k \in Int
      BY <1>2
    <3> HIDE DEF a, b, n
    <3> QED
      BY <3>4, <3>5
  <2> QED
    BY <2>2
<1>7. ASSUME ~(S(n) > 0) PROVE k = Unmatched
  <2>1. ASSUME k \in Open, S(k) > 0 PROVE FALSE
    <3>1. k # n /\ S(k) <= S(n)
      BY <1>4, <1>5, <1>7, <2>1, Zenon
    <3>2. S(n) \in Int /\ S(k) \in Int
      BY ScoreAtLeast, Zenon
    <3> DEFINE a == S(n)  b == S(k)
    <3>3. b <= a /\ ~(a > 0) /\ b > 0 /\ a \in Int /\ b \in Int
      BY <1>7, <2>1, <3>1, <3>2, Zenon
    <3> HIDE DEF a, b
    <3> QED
      BY <3>3
  <2> QED
    BY <2>1, Zenon DEF Picked
<1> HIDE DEF n
<1>8. ASSUME NEW i \in 1..Len(pick')
      PROVE  /\ Score(gt[i], lines[i]) > 0 => pick'[i] = i
             /\ ~(Score(gt[i], lines[i]) > 0) => pick'[i] = Unmatched
  <2>1. CASE i = n
    BY <1>2, <1>6, <1>7, <2>1, Zenon
  <2>2. CASE i \in 1..Len(pick)
    BY <1>1, <1>2, <2>2, Zenon DEF OwnPicks
  <2> QED
    BY <1>2, <2>1, <2>2, Zenon
<1> QED
  BY <1>1, <1>8, Zenon DEF OwnPicks

LEMMA SkelAlign == SkelInv /\ Align => SkelInv'
<1> SUFFICES ASSUME SkelInv, Align PROVE SkelInv'
  OBVIOUS
<1>1. AlignInv /\ AlignInv'
  BY AlignStep, Zenon DEF SkelInv
<1>2. PICK k \in 0..Len(lines) : Picked(k)
  BY <1>1, AlignPicks, Zenon
<1>3. UNCHANGED <<round, gt, lines, verdict, twin>> /\ round # "done"
  BY <1>2, Zenon DEF Picked, Align
<1>4. FirstInv'
  <2>1. CASE round = "prediction"
    BY <1>2, <2>1, FirstAlign, Zenon
  <2>2. CASE round # "prediction"
    BY <1>3, <2>2, Zenon DEF FirstInv
  <2> QED
    BY <2>1, <2>2, Zenon
<1>5. SecondInv'
  <2>1. SkeletonFits' <=> SkeletonFits
    <3>1. gt' = gt /\ lines' = lines /\ verdict' = verdict
      BY <1>3, Zenon
    <3> QED
      BY <3>1, Zenon DEF SkeletonFits
  <2>2. round # "prediction" /\ ~twin => OwnPicks'
    BY <1>2, SecondAlign, Zenon
  <2> QED
    BY <1>3, <2>1, <2>2, Zenon DEF SkelInv, SecondInv
<1> QED
  BY <1>1, <1>3, <1>4, <1>5, Zenon DEF SkelInv

\* The line aligned with a label line, and the line of the skeleton made of it.
LEMMA SkeletonLine ==
  ASSUME SkelInv, round = "prediction", Len(pick) = Len(gt), NEW i \in 1..Len(gt)
  PROVE  /\ \A f \in Fields : Judged(f, Skeleton[i][f], gt[i][f]) = Results[i][f]
         /\ \A h : ~(h["name"] = gt[i]["name"] /\ Results[i]["name"] = "correct"
                     /\ Aligned(i)["name"] # gt[i]["name"])
                   => Score(h, Skeleton[i]) <= Score(h, Aligned(i))
         /\ Score(gt[i], Aligned(i)) <= Score(gt[i], Skeleton[i])
         /\ \A f \in Fields : Aligned(i)[f] = Blank => Skeleton[i][f] = Blank
<1>1. gt[i]["name"] # Blank => <<gt[i]["name"], gt[i]["name"]>> \in Similar
  <2>1. gt[i] \in Products
    BY DEF SkelInv
  <2>2. \A p \in Products : p["name"] # Blank => <<p["name"], p["name"]>> \in Similar
    BY AlignmentAssumption, Zenon
  <2> QED
    BY <2>1, <2>2, Zenon
<1>2. ASSUME NEW f \in Fields
      PROVE  /\ Results[i][f] = Judged(f, Aligned(i)[f], gt[i][f])
             /\ Skeleton[i][f] = IF Results[i][f] = "wrong" THEN Aligned(i)[f] ELSE gt[i][f]
  BY Zenon DEF Results, Skeleton
<1>3. ASSUME NEW f \in Fields
      PROVE  /\ Judged(f, Skeleton[i][f], gt[i][f]) = Results[i][f]
             /\ \A h : h # Blank /\ Skeleton[i][f] = h =>
                  Aligned(i)[f] = h \/ (f = "name" /\ h = gt[i][f] /\ Results[i][f] = "correct")
             /\ gt[i][f] # Blank /\ Aligned(i)[f] = gt[i][f] => Skeleton[i][f] = gt[i][f]
             /\ Aligned(i)[f] = Blank => Skeleton[i][f] = Blank
  <2> DEFINE p == Aligned(i)[f]  g == gt[i][f]  s == Skeleton[i][f]
  <2>1. s = IF Judged(f, p, g) = "wrong" THEN p ELSE g
    BY <1>2
  <2>2. f = "name" /\ g # Blank => <<g, g>> \in Similar
    BY <1>1, Zenon
  <2>3. Judged(f, p, g) = Results[i][f]
    BY <1>2, Zenon
  <2> HIDE DEF p, g, s
  <2>4. /\ Judged(f, s, g) = Judged(f, p, g)
        /\ \A h : h # Blank /\ s = h => p = h \/ (f = "name" /\ h = g /\ Judged(f, p, g) = "correct")
        /\ g # Blank /\ p = g => s = g
        /\ p = Blank => s = Blank
    BY <2>1, <2>2, SkeletonField
  <2> QED
    BY <2>3, <2>4, Zenon DEF p, g, s
<1>4. \A f \in {"name", "price", "total"} : f \in Fields
  BY DEF Fields
<1>5. ASSUME NEW h, ~(h["name"] = gt[i]["name"] /\ Results[i]["name"] = "correct"
                      /\ Aligned(i)["name"] # gt[i]["name"])
      PROVE  Score(h, Skeleton[i]) <= Score(h, Aligned(i))
  <2>1. ASSUME NEW f \in {"name", "price", "total"}, Agree(h, Skeleton[i], f)
        PROVE  Agree(h, Aligned(i), f)
    <3>1. h[f] # Blank /\ Skeleton[i][f] = h[f] /\ f \in Fields
      BY <1>4, <2>1, Zenon DEF Agree
    <3>2. Aligned(i)[f] = h[f] \/ (f = "name" /\ h[f] = gt[i][f] /\ Results[i][f] = "correct")
      BY <1>3, <3>1, Zenon
    <3>3. Aligned(i)[f] = h[f]
      BY <1>5, <3>2
    <3> QED
      BY <3>1, <3>3, Zenon DEF Agree
  <2> QED
    BY <2>1, ScoreGrows, Zenon
<1>6. Score(gt[i], Aligned(i)) <= Score(gt[i], Skeleton[i])
  <2>1. \A f \in {"name", "price", "total"} :
          Agree(gt[i], Aligned(i), f) => Agree(gt[i], Skeleton[i], f)
    BY <1>3, <1>4, Zenon DEF Agree
  <2> QED
    BY <2>1, ScoreGrows, Zenon
<1> QED
  BY <1>3, <1>5, <1>6, Zenon

LEMMA SkeletonIsFit ==
  ASSUME SkelInv, round = "prediction", Len(pick) = Len(gt), ~SimilarTwin
  PROVE  /\ Len(Skeleton) = Len(gt)
         /\ \A i, k \in 1..Len(gt) :
              i < k => Score(gt[i], Skeleton[k]) <= Score(gt[i], Skeleton[i])
         /\ \A i \in 1..Len(gt) :
              ~(Score(gt[i], Skeleton[i]) > 0) => \A f \in Fields : Skeleton[i][f] = Blank
<1>1. Len(Skeleton) = Len(gt)
  BY DEF Skeleton, SkelInv, AlignInv, AlignTypeInv
<1>2. \A f \in Fields : NoLine[f] = Blank
  BY Zenon DEF NoLine
<1>3. \A h : Score(h, NoLine) = 0
  BY <1>2, EmptyScoresNothing, Zenon
<1>4. \A i \in 1..Len(gt) : i \in 1..Len(pick)
  BY Zenon
<1>5. ASSUME NEW i \in 1..Len(gt)
      PROVE  /\ pick[i] = Unmatched => Aligned(i) = NoLine /\ Got(i) = 0
             /\ pick[i] # Unmatched => Aligned(i) = lines[pick[i]]
                                       /\ Got(i) = Score(gt[i], Aligned(i)) /\ Got(i) > 0
  BY <1>4, Zenon DEF Aligned, Got, SkelInv, FirstInv
<1>6. ASSUME NEW i \in 1..Len(gt) PROVE Got(i) = Score(gt[i], Aligned(i))
  BY <1>3, <1>5, Zenon
<1>7. ASSUME NEW i \in 1..Len(gt), NEW k \in 1..Len(gt), i < k
      PROVE  Score(gt[i], Skeleton[k]) <= Score(gt[i], Skeleton[i])
  <2> DEFINE a == Score(gt[i], Skeleton[k])  b == Score(gt[i], Aligned(k))
             c == Score(gt[i], Aligned(i))   d == Score(gt[i], Skeleton[i])
  <2>1. /\ a \in Int /\ b \in Int /\ c \in Int /\ d \in Int /\ c >= 0
    BY ScoreAtLeast, Zenon
  <2>2. a <= b /\ c <= d
    BY <1>7, SkeletonLine, Zenon DEF SimilarTwin
  <2>3. b = 0 \/ b <= c
    <3>1. CASE pick[k] = Unmatched
      BY <1>3, <1>5, <3>1, Zenon
    <3>2. CASE pick[k] # Unmatched
      <4>1. Score(gt[i], lines[pick[k]]) <= Got(i)
        BY <1>4, <1>7, <3>2, Zenon DEF SkelInv, FirstInv
      <4> QED
        BY <1>5, <1>6, <3>2, <4>1, Zenon
    <3> QED
      BY <3>1, <3>2, Zenon
  <2> HIDE DEF a, b, c, d
  <2>4. a <= d
    BY <2>1, <2>2, <2>3
  <2> QED
    BY <2>4, Zenon DEF a, d
<1>8. ASSUME NEW i \in 1..Len(gt), ~(Score(gt[i], Skeleton[i]) > 0), NEW f \in Fields
      PROVE  Skeleton[i][f] = Blank
  <2> DEFINE c == Score(gt[i], Aligned(i))   d == Score(gt[i], Skeleton[i])
  <2>1. c \in Int /\ d \in Int
    BY ScoreAtLeast, Zenon
  <2>2. c <= d /\ ~(d > 0)
    BY <1>8, SkeletonLine, Zenon
  <2>3. ~(c > 0)
    <3> HIDE DEF c, d
    <3> QED
      BY <2>1, <2>2
  <2>4. Aligned(i) = NoLine
    BY <1>5, <2>3, Zenon
  <2>5. Aligned(i)[f] = Blank
    BY <1>2, <2>4, Zenon
  <2> QED
    BY <2>5, SkeletonLine, Zenon
<1> QED
  BY <1>1, <1>7, <1>8, Zenon

LEMMA SkelJudge == SkelInv /\ Judge => SkelInv'
<1> SUFFICES ASSUME SkelInv, Judge PROVE SkelInv'
  OBVIOUS
<1>1. AlignInv'
  BY JudgeStep, Zenon DEF SkelInv
<1>2. gt' = gt /\ Len(pick) = Len(gt) /\ round # "done"
  BY Zenon DEF Judge
<1>3. \A i \in 1..Len(gt') : gt'[i] \in Products
  BY <1>2, Zenon DEF SkelInv
<1>4. CASE round = "prediction"
  <2>1. round' = "skeleton" /\ verdict' = Results /\ lines' = Skeleton /\ pick' = <<>>
        /\ twin' = SimilarTwin
    BY <1>4, Zenon DEF Judge
  <2>2. FirstInv'
    BY <2>1 DEF FirstInv
  <2>3. ASSUME ~twin' PROVE SkeletonFits'
    <3>1. \A i \in 1..Len(gt) : \A f \in Fields :
            Judged(f, Skeleton[i][f], gt[i][f]) = Results[i][f]
      BY <1>2, <1>4, SkeletonLine, Zenon
    <3>2. /\ Len(Skeleton) = Len(gt)
          /\ \A i, k \in 1..Len(gt) :
               i < k => Score(gt[i], Skeleton[k]) <= Score(gt[i], Skeleton[i])
          /\ \A i \in 1..Len(gt) :
               ~(Score(gt[i], Skeleton[i]) > 0) => \A f \in Fields : Skeleton[i][f] = Blank
      BY <1>2, <1>4, <2>1, <2>3, SkeletonIsFit, Zenon
    <3> QED
      BY <1>2, <2>1, <3>1, <3>2, Zenon DEF SkeletonFits
  <2>4. OwnPicks'
    <3>1. \A i : i \notin 1..Len(pick')
      BY <2>1
    <3> QED
      BY <3>1, Zenon DEF OwnPicks
  <2>5. round' # "done"
    BY <2>1
  <2> QED
    BY <1>1, <1>3, <2>2, <2>3, <2>4, <2>5, Zenon DEF SkelInv, SecondInv
<1>5. CASE round # "prediction"
  <2>1. round' = "done" /\ UNCHANGED <<verdict, lines, pick, twin>>
    BY <1>5, Zenon DEF Judge
  <2>2. FirstInv'
    BY <2>1 DEF FirstInv
  <2>3. ~twin' => SkeletonFits' /\ OwnPicks'
    BY <1>2, <1>5, <2>1, Zenon DEF SkelInv, SecondInv, SkeletonFits, OwnPicks
  <2> QED
    BY <1>1, <1>2, <1>3, <2>1, <2>2, <2>3, Zenon DEF SkelInv, SecondInv
<1> QED
  BY <1>4, <1>5, Zenon

LEMMA SkelInvInductive == SkelInv /\ [Next]_vars => SkelInv'
<1>1. ASSUME SkelInv, UNCHANGED vars PROVE SkelInv'
  <2>1. /\ round' = round /\ gt' = gt /\ lines' = lines /\ pick' = pick /\ verdict' = verdict
        /\ twin' = twin /\ AlignInv'
    BY <1>1, AlignInvInductive DEF vars, SkelInv
  <2>2. FirstInv'
    <3>1. \A i : Got(i)' = Got(i)
      BY <2>1, Zenon DEF Got
    <3> QED
      BY <1>1, <2>1, <3>1, Zenon DEF SkelInv, FirstInv
  <2>3. SecondInv'
    BY <1>1, <2>1, Zenon DEF SkelInv, SecondInv, SkeletonFits, OwnPicks
  <2> QED
    BY <1>1, <2>1, <2>2, <2>3, Zenon DEF SkelInv
<1> QED
  BY <1>1, SkelAlign, SkelJudge, Zenon DEF Next

\* The second evaluation judges every field as the first one did.
LEMMA SkeletonJudgedAlike == SkelInv => SkeletonReproduces
<1> SUFFICES ASSUME SkelInv, round = "done", ~twin, NEW f \in Fields
             PROVE  CorrectIn(Results, f) = CorrectIn(verdict, f)
  BY Zenon DEF SkeletonReproduces
<1>1. SkeletonFits /\ OwnPicks /\ Len(pick) = Len(gt)
  <2>1. round # "prediction"
    OBVIOUS
  <2> QED
    BY <2>1, Zenon DEF SkelInv, SecondInv
<1>2. ASSUME NEW i \in 1..Len(gt) PROVE Results[i][f] = verdict[i][f]
  <2>1. Results[i][f] = Judged(f, Aligned(i)[f], gt[i][f])
    BY Zenon DEF Results
  <2>2. Aligned(i)[f] = lines[i][f]
    <3>1. CASE Score(gt[i], lines[i]) > 0
      <4>1. pick[i] = i
        BY <1>1, <3>1, Zenon DEF OwnPicks
      <4>2. i # Unmatched
        BY DEF Unmatched
      <4> QED
        BY <4>1, <4>2, Zenon DEF Aligned
    <3>2. CASE ~(Score(gt[i], lines[i]) > 0)
      <4>1. pick[i] = Unmatched
        BY <1>1, <3>2, Zenon DEF OwnPicks
      <4>2. lines[i][f] = Blank
        BY <1>1, <3>2, Zenon DEF SkeletonFits
      <4> QED
        BY <4>1, <4>2, Zenon DEF Aligned, NoLine
    <3> QED
      BY <3>1, <3>2, Zenon
  <2> QED
    BY <1>1, <2>1, <2>2, Zenon DEF SkeletonFits
<1>3. {i \in 1..Len(gt) : Results[i][f] = "correct"} = {i \in 1..Len(gt) : verdict[i][f] = "correct"}
  BY <1>2, Zenon
<1> QED
  BY <1>3, Zenon DEF CorrectIn

\* The report counts what the evaluation found, for any label, prediction and
\* names: the skeleton is aligned line by line with the label it was made of,
\* unless a similar name was taken in a line whose name the label has before.
\* (_build_pred_skeleton and the second evaluate_single of main)
THEOREM SkeletonsReproduce == Spec => []SkeletonReproduces
<1> QED
  BY SkelInvInit, SkelInvInductive, SkeletonJudgedAlike, PTL DEF Spec

-----------------------------------------------------------------------------
(* EvalRun.                                                                *)

\* What an image in the cache or in a submission may be.
Pictures == [of : SUBSET Records, whole : BOOLEAN]

Places ==
  {"waiting", "looking", "reading", "fetching", "writing", "submitting",
   "polling", "asking", "done"}
Outcomes ==
  {"none", "ok", "exception", "download_failed", "pipeline_failed", "poll_timeout",
   "api_error", "no_job_id", "backpressure_429", "http"}
Answers == {"404", "202", "200", "422", "503"}

ClientTypeInv ==
  /\ main \in {"stopped", "running", "reported"}
  /\ file \in [Records -> Files]
  /\ at \in [Records -> Places]
  /\ result \in [Records -> Outcomes]
  /\ used \in [Records -> Pictures]
  /\ cache \in [Files -> Pictures]
  /\ poll \in [Records -> Answers]

\* A file whose writing neither ended nor broke off is being written.
OwnedBy(f) == \E q \in Records : file[q] = f /\ cache[f].of = {q}
Settled(f) ==
  \/ cache[f].whole \/ f \in torn
  \/ main = "running" /\ \E q \in Records : file[q] = f /\ Writing(q)
FilesHaveOwners == \A f \in Files : cache[f] # NoFile => OwnedBy(f) /\ Settled(f)

ImageInv == ClientTypeInv /\ FilesHaveOwners /\ ImagesAreOwn

\* A record without a result has none in the list either.
ResultInv ==
  /\ ClientTypeInv /\ ResultsTellJobs
  /\ \A r \in Records : at[r] # "done" => result[r] = "none"

LEMMA EmptyIsPicture == NoFile \in Pictures
BY DEF NoFile, Pictures

LEMMA ImageIsPicture ==
  ASSUME NEW r \in Records
  PROVE  Image(r) \in Pictures /\ [Image(r) EXCEPT !.whole = FALSE] \in Pictures
BY DEF Image, Pictures

LEMMA ClientTypeInit == ClientInit => ClientTypeInv
BY EmptyIsPicture DEF ClientInit, ClientTypeInv, Places, Outcomes, Answers, Contract!Init

LEMMA ClientTypeInductive == ClientTypeInv /\ [ClientNext]_client => ClientTypeInv'
<1> SUFFICES ASSUME ClientTypeInv, [ClientNext]_client PROVE ClientTypeInv'
  OBVIOUS
<1> USE DEF ClientTypeInv, Places, Outcomes, Answers
<1>1. CASE Start /\ UNCHANGED file
  BY <1>1, EmptyIsPicture DEF Start, Fresh
<1>2. CASE Kill /\ UNCHANGED file
  BY <1>2 DEF Kill
<1>3. CASE Report /\ UNCHANGED file
  BY <1>3 DEF Report
<1>4. ASSUME NEW r \in Records, _eval_one(r), UNCHANGED file PROVE ClientTypeInv'
  <2>1. CASE Take(r)
    BY <1>4, <2>1 DEF _eval_one, Take, Goes
  <2>2. CASE Look(r)
    BY <1>4, <2>2 DEF _eval_one, Look, Goes
  <2>3. CASE Fetch(r)
    <3>1. cache' \in [Files -> Pictures]
      BY <1>4, <2>3, ImageIsPicture DEF Fetch, Opened
    <3> QED
      BY <1>4, <2>3, <3>1 DEF _eval_one, Fetch, Goes, Returns
  <2>4. CASE Write(r)
    <3>0. Image(r) \in Pictures
      BY ImageIsPicture
    <3>1. cache' \in [Files -> Pictures] /\ used' \in [Records -> Pictures]
      <4>1. \/ UNCHANGED <<cache, used>>
            \/ /\ cache' = [cache EXCEPT ![file[r]] = Image(r)]
               /\ used' = [used EXCEPT ![r] = Image(r)]
        BY <2>4 DEF Write
      <4> QED
        BY <3>0, <4>1
    <3>2. at' \in [Records -> Places] /\ result' \in [Records -> Outcomes]
      BY <1>4, <2>4 DEF Write, Goes, Returns
    <3> QED
      BY <1>4, <2>4, <3>1, <3>2 DEF _eval_one, Write
  <2>5. CASE Submit(r)
    <3>1. poll' \in [Records -> Answers]
      BY <1>4, <2>5 DEF Submit, Contract!Admit
    <3>2. at' \in [Records -> Places] /\ result' \in [Records -> Outcomes]
      BY <1>4, <2>5 DEF Submit, Goes, Returns
    <3> QED
      BY <1>4, <2>5, <3>1, <3>2 DEF _eval_one, Submit
  <2>6. CASE Sleep(r)
    BY <1>4, <2>6 DEF _eval_one, Sleep, Goes, Returns
  <2>7. CASE Poll(r)
    BY <1>4, <2>7 DEF _eval_one, Poll, Answer, Goes, Returns
  <2>8. CASE Read(r)
    BY <1>4, <2>8 DEF _eval_one, Read, Goes, Returns
  <2> QED
    BY <1>4, <2>1, <2>2, <2>3, <2>4, <2>5, <2>6, <2>7, <2>8 DEF _eval_one
<1>5. ASSUME NEW r \in Records, Service(r), UNCHANGED file PROVE ClientTypeInv'
  BY <1>5 DEF Service, Contract!Finish, Contract!Final
<1>6. CASE UNCHANGED client
  BY <1>6 DEF client
<1> QED
  BY <1>1, <1>2, <1>3, <1>4, <1>5, <1>6 DEF ClientNext

LEMMA ResultInit == ClientInit => ResultInv
BY ClientTypeInit DEF ResultInv, ResultsTellJobs, ClientInit

LEMMA ResultInductive == ResultInv /\ [ClientNext]_client => ResultInv'
<1> SUFFICES ASSUME ResultInv, [ClientNext]_client PROVE ResultInv'
  OBVIOUS
<1>0. ClientTypeInv /\ ClientTypeInv'
  BY ClientTypeInductive DEF ResultInv
<1>1. CASE Start /\ UNCHANGED file
  BY <1>0, <1>1 DEF ResultInv, ResultsTellJobs, Start, Fresh
<1>2. CASE Kill \/ Report
  BY <1>0, <1>2 DEF ResultInv, ResultsTellJobs, Kill, Report
<1>3. ASSUME NEW r \in Records, _eval_one(r) PROVE ResultInv'
  <2>1. CASE Take(r) \/ Look(r) \/ Read(r) \/ Fetch(r) \/ Write(r) \/ Sleep(r)
    <3>1. UNCHANGED <<poll, misread>>
      BY <2>1 DEF Take, Look, Read, Fetch, Write, Sleep
    <3>2. \A q \in Records \ {r} : at'[q] = at[q] /\ result'[q] = result[q]
      BY <1>0, <2>1 DEF ClientTypeInv, Take, Look, Read, Fetch, Write, Sleep, Goes, Returns
    <3>3. /\ result'[r] \in {result[r], "download_failed", "poll_timeout", "exception"}
          /\ at[r] # "done" /\ (at'[r] = "done" \/ result'[r] = result[r])
      BY <1>0, <2>1 DEF ClientTypeInv, Take, Look, Read, Fetch, Write, Sleep, Goes, Returns, Writing
    <3> QED
      BY <1>0, <3>1, <3>2, <3>3 DEF ResultInv, ResultsTellJobs
  <2>2. CASE Submit(r)
    <3>1. misread' = misread /\ at[r] = "submitting" /\ result[r] = "none"
      BY <2>2 DEF Submit, ResultInv
    <3>2. \A q \in Records \ {r} : at'[q] = at[q] /\ result'[q] = result[q] /\ poll'[q] = poll[q]
      BY <1>0, <2>2 DEF ClientTypeInv, Submit, Contract!Admit, Goes, Returns
    <3>3. \/ result'[r] = "none"
          \/ at'[r] = "done" /\ (result'[r] = "ok" => poll'[r] = "200") /\ result'[r] # "pipeline_failed"
      BY <1>0, <2>2, <3>1 DEF ClientTypeInv, Submit, Contract!Admit, Goes, Returns
    <3> QED
      BY <1>0, <3>1, <3>2, <3>3 DEF ResultInv, ResultsTellJobs
  <2>3. CASE Poll(r)
    <3>1. poll' = poll /\ misread \subseteq misread' /\ result[r] = "none"
      BY <2>3 DEF Poll, ResultInv
    <3>2. \A q \in Records \ {r} : at'[q] = at[q] /\ result'[q] = result[q]
      BY <1>0, <2>3 DEF ClientTypeInv, Poll, Answer, Goes, Returns
    <3>3. \/ result'[r] = "none"
          \/ /\ at'[r] = "done"
             /\ result'[r] = "ok" => poll[r] = "200"
             /\ result'[r] = "pipeline_failed" => poll[r] \in {"422", "503"} \/ r \in misread'
      BY <1>0, <2>3, <3>1 DEF ClientTypeInv, Poll, Answer, Succeeds, Fails, Goes, Returns
    <3> QED
      BY <1>0, <3>1, <3>2, <3>3 DEF ResultInv, ResultsTellJobs
  <2> QED
    BY <1>3, <2>1, <2>2, <2>3 DEF _eval_one
<1>4. ASSUME NEW r \in Records, Service(r) PROVE ResultInv'
  <2>1. \A q \in Records : poll[q] = poll'[q] \/ poll[q] = "202"
    BY <1>0, <1>4 DEF Service, Contract!Finish, ClientTypeInv
  <2> QED
    BY <1>0, <1>4, <2>1 DEF Service, ResultInv, ResultsTellJobs
<1>5. CASE UNCHANGED client
  BY <1>0, <1>5 DEF client, ResultInv, ResultsTellJobs
<1> QED
  BY <1>1, <1>2, <1>3, <1>4, <1>5 DEF ClientNext

LEMMA ImageInit == ClientInit => ImageInv
BY ClientTypeInit DEF ImageInv, FilesHaveOwners, ImagesAreOwn, ClientInit

\* A step that writes no file keeps the owners, if whoever writes goes on.
LEMMA KeepsOwners ==
  ASSUME FilesHaveOwners, UNCHANGED <<cache, file>>, torn \subseteq torn',
         \A q \in Records : main = "running" /\ Writing(q) =>
            (main' = "running" /\ Writing(q)') \/ file[q] \in torn'
  PROVE  FilesHaveOwners'
BY DEF FilesHaveOwners, OwnedBy, Settled

LEMMA ImageInductive == ImageInv /\ [ClientNext]_client => ImageInv'
<1> SUFFICES ASSUME ImageInv, [ClientNext]_client PROVE ImageInv'
  OBVIOUS
<1>0. ClientTypeInv /\ ClientTypeInv' /\ FilesHaveOwners /\ ImagesAreOwn
  BY ClientTypeInductive DEF ImageInv
<1>1. CASE Start /\ UNCHANGED file
  <2>1. FilesHaveOwners'
    BY <1>0, <1>1, KeepsOwners DEF Start
  <2>2. ImagesAreOwn'
    BY <1>1 DEF Start, Fresh, ImagesAreOwn
  <2> QED
    BY <1>0, <2>1, <2>2 DEF ImageInv
<1>2. CASE (Kill \/ Report) /\ UNCHANGED file
  <2>1. FilesHaveOwners'
    BY <1>0, <1>2, KeepsOwners DEF Kill, Report, Writing
  <2>2. ImagesAreOwn'
    BY <1>0, <1>2 DEF Kill, Report, ImagesAreOwn
  <2> QED
    BY <1>0, <2>1, <2>2 DEF ImageInv
<1>3. ASSUME NEW r \in Records, _eval_one(r), UNCHANGED file PROVE ImageInv'
  <2>0. main = "running" /\ main' = "running" /\ file' = file /\ file[r] \in Files
    BY <1>0, <1>3 DEF _eval_one, ClientTypeInv
  <2>1. CASE Take(r) \/ Look(r) \/ Submit(r) \/ Sleep(r) \/ Poll(r)
    <3>1. UNCHANGED <<used, cache, torn>> /\ ~Writing(r)
      BY <2>1 DEF Take, Look, Submit, Sleep, Poll, Writing
    <3>2. \A q \in Records \ {r} : at'[q] = at[q]
      BY <1>0, <2>1 DEF ClientTypeInv, Take, Look, Submit, Sleep, Poll, Answer, Goes, Returns
    <3>3. FilesHaveOwners'
      BY <1>0, <2>0, <3>1, <3>2, KeepsOwners DEF Writing
    <3> QED
      BY <1>0, <2>0, <3>1, <3>3 DEF ImageInv, ImagesAreOwn
  <2>2. CASE Read(r)
    <3>1. UNCHANGED <<cache, torn>> /\ at[r] = "reading"
      BY <2>2 DEF Read
    <3>2. \A q \in Records \ {r} : at'[q] = at[q]
      BY <1>0, <2>2 DEF ClientTypeInv, Read, Goes, Returns
    <3>3. FilesHaveOwners'
      BY <1>0, <2>0, <3>1, <3>2, KeepsOwners DEF Writing
    <3>4. CASE used' = used
      BY <1>0, <2>0, <3>1, <3>3, <3>4 DEF ImageInv, ImagesAreOwn
    <3>5. CASE used' = [used EXCEPT ![r] = cache[file[r]]]
      <4>1. cache[file[r]] # NoFile => OwnedBy(file[r]) /\ Settled(file[r])
        BY <1>0, <2>0 DEF FilesHaveOwners
      <4>2. \/ cache[file[r]] = NoFile
            \/ cache[file[r]] = Image(r)
            \/ \E q \in Records \ {r} : file[q] = file[r]
            \/ file[r] \in torn
        <5> SUFFICES ASSUME cache[file[r]] # NoFile
                     PROVE  \/ cache[file[r]] = Image(r)
                            \/ \E q \in Records \ {r} : file[q] = file[r]
                            \/ file[r] \in torn
          OBVIOUS
        <5>1. PICK q \in Records : file[q] = file[r] /\ cache[file[r]].of = {q}
          BY <4>1 DEF OwnedBy
        <5>2. CASE q = r /\ cache[file[r]].whole
          BY <1>0, <2>0, <5>1, <5>2 DEF ClientTypeInv, Pictures, Image, NoFile
        <5>3. CASE q = r /\ ~cache[file[r]].whole
          BY <3>1, <4>1, <5>3 DEF Settled, Writing
        <5> QED
          BY <5>1, <5>2, <5>3
      <4>3. used'[r] = cache[file[r]] /\ \A q \in Records \ {r} : used'[q] = used[q]
        BY <1>0, <3>5 DEF ClientTypeInv
      <4>4. ImagesAreOwn'
        <5> SUFFICES ASSUME NEW p \in Records, used'[p] # NoFile
                     PROVE  \/ used'[p] = Image(p)
                            \/ \E q \in Records \ {p} : file[q] = file[p]
                            \/ file[p] \in torn
          BY <2>0, <3>1 DEF ImagesAreOwn, Image, NoFile
        <5> QED
          BY <1>0, <4>2, <4>3 DEF ImagesAreOwn
      <4> QED
        BY <1>0, <3>3, <4>4 DEF ImageInv
    <3> QED
      BY <2>2, <3>4, <3>5 DEF Read
  <2>3. CASE Fetch(r)
    <3>1. UNCHANGED <<used, torn>> /\ ~Writing(r)
      BY <2>3 DEF Fetch, Writing
    <3>2. \A q \in Records \ {r} : at'[q] = at[q]
      BY <1>0, <2>3 DEF ClientTypeInv, Fetch, Goes, Returns
    <3>3. CASE cache' = cache
      <4>1. FilesHaveOwners'
        BY <1>0, <2>0, <3>1, <3>2, <3>3, KeepsOwners DEF Writing
      <4> QED
        BY <1>0, <2>0, <3>1, <4>1 DEF ImageInv, ImagesAreOwn
    <3>4. CASE /\ cache' = [cache EXCEPT ![file[r]] = [Image(r) EXCEPT !.whole = FALSE]]
               /\ Goes(r, "writing")
      <4>1. Writing(r)' /\ cache'[file[r]].of = {r} /\ \A f \in Files \ {file[r]} : cache'[f] = cache[f]
        BY <1>0, <2>0, <3>4 DEF ClientTypeInv, Goes, Writing, Image
      <4>2. FilesHaveOwners'
        <5> SUFFICES ASSUME NEW f \in Files, cache'[f] # NoFile PROVE OwnedBy(f)' /\ Settled(f)'
          BY DEF FilesHaveOwners, NoFile
        <5>1. CASE f = file[r]
          BY <2>0, <4>1, <5>1 DEF OwnedBy, Settled
        <5>2. CASE f # file[r]
          <6>1. cache'[f] = cache[f] /\ OwnedBy(f) /\ Settled(f)
            BY <1>0, <4>1, <5>2 DEF FilesHaveOwners
          <6> QED
            BY <2>0, <3>1, <3>2, <5>2, <6>1 DEF OwnedBy, Settled, Writing
        <5> QED
          BY <5>1, <5>2
      <4> QED
        BY <1>0, <2>0, <3>1, <4>2 DEF ImageInv, ImagesAreOwn
    <3> QED
      BY <2>3, <3>3, <3>4 DEF Fetch, Opened
  <2>4. CASE Write(r)
    <3>1. \A q \in Records \ {r} : at'[q] = at[q]
      BY <1>0, <2>4 DEF ClientTypeInv, Write, Goes, Returns
    <3>2. CASE cache' = [cache EXCEPT ![file[r]] = Image(r)] /\ used' = [used EXCEPT ![r] = Image(r)] /\ torn' = torn
      <4>1. /\ cache'[file[r]] = Image(r) /\ \A f \in Files \ {file[r]} : cache'[f] = cache[f]
            /\ used'[r] = Image(r) /\ \A q \in Records \ {r} : used'[q] = used[q]
        BY <1>0, <2>0, <3>2 DEF ClientTypeInv
      <4>2. FilesHaveOwners'
        <5> SUFFICES ASSUME NEW f \in Files, cache'[f] # NoFile PROVE OwnedBy(f)' /\ Settled(f)'
          BY DEF FilesHaveOwners, NoFile
        <5>1. CASE f = file[r]
          BY <2>0, <4>1, <5>1 DEF OwnedBy, Settled, Image
        <5>2. CASE f # file[r]
          <6>1. cache'[f] = cache[f] /\ OwnedBy(f) /\ Settled(f)
            BY <1>0, <4>1, <5>2 DEF FilesHaveOwners
          <6> QED
            BY <2>0, <3>1, <3>2, <5>2, <6>1 DEF OwnedBy, Settled, Writing
        <5> QED
          BY <5>1, <5>2
      <4>3. ImagesAreOwn'
        BY <1>0, <2>0, <3>2, <4>1 DEF ImagesAreOwn, Image, NoFile
      <4> QED
        BY <1>0, <4>2, <4>3 DEF ImageInv
    <3>3. CASE torn' = torn \union {file[r]} /\ UNCHANGED <<used, cache>>
      <4>1. FilesHaveOwners'
        BY <1>0, <2>0, <3>1, <3>3, KeepsOwners DEF Writing
      <4> QED
        BY <1>0, <2>0, <3>3, <4>1 DEF ImageInv, ImagesAreOwn
    <3> QED
      BY <2>4, <3>2, <3>3 DEF Write
  <2> QED
    BY <1>3, <2>1, <2>2, <2>3, <2>4 DEF _eval_one
<1>4. ASSUME NEW r \in Records, Service(r), UNCHANGED file PROVE ImageInv'
  <2>1. FilesHaveOwners'
    BY <1>0, <1>4, KeepsOwners DEF Service, Writing
  <2> QED
    BY <1>0, <1>4, <2>1 DEF Service, ImageInv, ImagesAreOwn
<1>5. CASE UNCHANGED client
  <2>1. FilesHaveOwners'
    BY <1>0, <1>5, KeepsOwners DEF client, Writing
  <2> QED
    BY <1>0, <1>5, <2>1 DEF client, ImageInv, ImagesAreOwn
<1> QED
  BY <1>1, <1>2, <1>3, <1>4, <1>5 DEF ClientNext

\* For any records, files and threads a result tells what became of the job.
\* (the branches of _eval_one)
THEOREM ResultsAreTheJobs == ClientSpec => []ResultsTellJobs
<1>1. ResultInv => ResultsTellJobs
  BY DEF ResultInv
<1> QED
  BY <1>1, ResultInit, ResultInductive, PTL DEF ClientSpec

\* For any records, files and threads a record is submitted with its own image,
\* but for files of one name and torn files. (_download)
THEOREM SubmissionsAreOwn == ClientSpec => []ImagesAreOwn
<1>1. ImageInv => ImagesAreOwn
  BY DEF ImageInv
<1> QED
  BY <1>1, ImageInit, ImageInductive, PTL DEF ClientSpec

-----------------------------------------------------------------------------
(* EvalSet.                                                                *)

\* However a shuffled type is cut, the two slices share nothing and miss nothing.
LEMMA SlicesAreWhole ==
  ASSUME NEW S, IsFiniteSet(S), NEW items \in SetToSeqs(S), NEW k \in Int
  PROVE  /\ ToSet(Until(items, k)) \union ToSet(From(items, k)) = S
         /\ ToSet(Until(items, k)) \intersect ToSet(From(items, k)) = {}
<1> DEFINE n == Cardinality(S)
<1> DEFINE p == Place(n, k)
<1>1. n \in Nat
  BY FS_CardinalityType
<1>2. items \in [1..n -> S] /\ \A i, j \in 1..n : i # j => items[i] # items[j]
  BY DEF SetToSeqs
<1>3. Len(items) = n
  BY <1>1, <1>2
<1>4. \A e \in S : \E i \in 1..n : items[i] = e
  <2>1. IsFiniteSet(1..n) /\ Cardinality(1..n) = n
    BY <1>1, FS_Interval
  <2>2. items \in Injection(1..n, S)
    BY <1>2 DEF Injection, IsInjective
  <2>3. items \in Surjection(1..n, S)
    BY <2>1, <2>2, FS_Injection
  <2> QED
    BY <2>3 DEF Surjection
<1>5. p \in 0..n
  BY <1>1 DEF Place
<1> HIDE DEF n, p
<1>6. /\ Len(SubSeq(items, 1, p)) = p /\ \A i \in 1..p : SubSeq(items, 1, p)[i] = items[i]
      /\ SubSeq(items, 1, p) \in Seq(S)
  <2>1. \A i \in 1..p : items[i] \in S
    BY <1>1, <1>2, <1>5
  <2>2. /\ SubSeq(items, 1, p) \in Seq(S)
        /\ Len(SubSeq(items, 1, p)) = IF 1 <= p THEN p - 1 + 1 ELSE 0
        /\ \A i \in 1..p - 1 + 1 : SubSeq(items, 1, p)[i] = items[1 + i - 1]
    BY <1>1, <1>5, <2>1, SubSeqProperties
  <2> QED
    BY <1>1, <1>5, <2>2
<1>7. /\ Len(SubSeq(items, p + 1, n)) = n - p
      /\ \A i \in 1..n - p : SubSeq(items, p + 1, n)[i] = items[p + i]
      /\ SubSeq(items, p + 1, n) \in Seq(S)
  <2>1. \A i \in p + 1..n : items[i] \in S
    BY <1>1, <1>2, <1>5
  <2>2. /\ SubSeq(items, p + 1, n) \in Seq(S)
        /\ Len(SubSeq(items, p + 1, n)) = IF p + 1 <= n THEN n - (p + 1) + 1 ELSE 0
        /\ \A i \in 1..n - (p + 1) + 1 : SubSeq(items, p + 1, n)[i] = items[p + 1 + i - 1]
    BY <1>1, <1>5, <2>1, SubSeqProperties
  <2>3. n - (p + 1) + 1 = n - p /\ \A i \in Int : p + 1 + i - 1 = p + i
    BY <1>1, <1>5
  <2> QED
    BY <1>1, <1>5, <2>2, <2>3
<1>8. ToSet(Until(items, k)) = {items[i] : i \in 1..p}
  <2>1. Until(items, k) = SubSeq(items, 1, p)
    BY <1>3 DEF Until, p
  <2>2. DOMAIN SubSeq(items, 1, p) = 1..p
    BY <1>6
  <2> QED
    BY <1>6, <2>1, <2>2 DEF ToSet
<1>9. ToSet(From(items, k)) = {items[i] : i \in p + 1..n}
  <2>1. From(items, k) = SubSeq(items, p + 1, n)
    BY <1>3 DEF From, p
  <2>2. DOMAIN SubSeq(items, p + 1, n) = 1..n - p
    BY <1>7
  <2>3. ToSet(From(items, k)) = {items[p + i] : i \in 1..n - p}
    BY <1>7, <2>1, <2>2 DEF ToSet
  <2>4. \A i \in 1..n - p : p + i \in p + 1..n
    BY <1>1, <1>5
  <2>5. \A i \in p + 1..n : i - p \in 1..n - p /\ p + (i - p) = i
    BY <1>1, <1>5
  <2> QED
    BY <2>3, <2>4, <2>5
<1>10. 1..n = (1..p) \union (p + 1..n) /\ \A i \in 1..p : \A j \in p + 1..n : i # j
  BY <1>1, <1>5
<1>11. \A e \in S : e \in {items[i] : i \in 1..p} \/ e \in {items[i] : i \in p + 1..n}
  BY <1>4, <1>10
<1>12. \A i \in 1..p : \A j \in p + 1..n : items[i] \in S /\ items[j] \in S /\ items[i] # items[j]
  BY <1>2, <1>10
<1>13. {items[i] : i \in 1..p} \subseteq S /\ {items[i] : i \in p + 1..n} \subseteq S
  BY <1>2, <1>10
<1> QED
  BY <1>8, <1>9, <1>11, <1>12, <1>13

FileNames == {"dev_set", "test_set", "stores", "products"}

\* The types that are cut are in the two sets; what is written is of older runs.
CutTypes == {i \in Usable : TypeOf(i) \notin types}
Parted(whole) == dev \intersect test = {} /\ dev \union test = whole

SetTypeInv ==
  /\ IsFiniteSet(Goldens)
  /\ cutting \in {"stopped", "cutting", "written"}
  /\ listing \in {"stopped", "stores", "products"}
  /\ DOMAIN disk = FileNames
  /\ DOMAIN runs = {"split", "list"} /\ runs.split \in Nat
  /\ disk["dev_set"].run \in 0..runs.split
  /\ disk["test_set"].run \in 0..runs.split

SplitInv ==
  /\ SetTypeInv /\ SplitIsWhole
  /\ cutting = "cutting" =>
       /\ disk["dev_set"].run < runs.split /\ disk["test_set"].run < runs.split
       /\ Parted(CutTypes)
  /\ cutting = "written" =>
       /\ disk["dev_set"] = [run |-> runs.split, items |-> dev]
       /\ disk["test_set"].run < runs.split
       /\ Parted(Usable)

LEMMA NumTestIsInt ==
  ASSUME IsFiniteSet(Goldens), NEW t
  PROVE  IsFiniteSet(ByType(t)) /\ Cardinality(ByType(t)) \in Nat /\ NumTest(t) \in Int
<1>1. ByType(t) \in SUBSET Goldens
  BY DEF ByType, Usable
<1>2. IsFiniteSet(ByType(t))
  BY <1>1, FS_Subset
<1>3. Cardinality(ByType(t)) \in Nat
  BY <1>2, FS_CardinalityType
<1> QED
  BY <1>2, <1>3, EvalSetAssumption DEF NumTest

LEMMA SplitInit == SetInit => SplitInv
<1> SUFFICES ASSUME SetInit PROVE SplitInv
  OBVIOUS
<1>1. IsFiniteSet(Goldens)
  <2>1. PICK n \in 0..MaxLabels : labels \in [1..n -> Labels]
    BY DEF SetInit
  <2>2. n \in Int /\ Goldens = 1..n
    BY <2>1, EvalSetAssumption DEF Goldens
  <2> QED
    BY <2>2, FS_Interval
<1>2. /\ disk["dev_set"].run = 0 /\ disk["test_set"].run = 0 /\ DOMAIN disk = FileNames
      /\ runs.split = 0 /\ DOMAIN runs = {"split", "list"} /\ cutting = "stopped" /\ listing = "stopped"
  BY DEF SetInit, Unwritten, FileNames
<1> QED
  BY <1>1, <1>2 DEF SplitInv, SetTypeInv, SplitIsWhole

\* Steps that leave the split and its files alone.
LEMMA SplitKept ==
  ASSUME SplitInv, UNCHANGED <<labels, types, dev, test>>,
         cutting' \in {cutting, "stopped"}, listing' \in {"stopped", "stores", "products"},
         DOMAIN disk' = DOMAIN disk, DOMAIN runs' = DOMAIN runs, runs'.split = runs.split,
         disk'["dev_set"] = disk["dev_set"], disk'["test_set"] = disk["test_set"]
  PROVE  SplitInv'
BY DEF SplitInv, SetTypeInv, SplitIsWhole, Parted, CutTypes, Usable, TypeOf, Goldens

LEMMA SplitInductive == SplitInv /\ [SetNext]_set => SplitInv'
<1> SUFFICES ASSUME SplitInv, [SetNext]_set PROVE SplitInv'
  OBVIOUS
<1>0. SetTypeInv /\ SplitIsWhole
  BY DEF SplitInv
<1>1. CASE BeginSplit
  <2>1. UNCHANGED <<labels, disk, listing>> /\ cutting' = "cutting" /\ dev' = {} /\ test' = {}
    BY <1>1 DEF BeginSplit
  <2>2. runs'.split = runs.split + 1 /\ DOMAIN runs' = DOMAIN runs
    BY <1>0, <1>1 DEF BeginSplit, SetTypeInv
  <2>3. CutTypes' = {}
    BY <1>1 DEF BeginSplit, CutTypes, Usable, TypeOf, Goldens
  <2>4. SplitIsWhole'
    BY <1>0, <2>1 DEF SplitIsWhole, Usable, Goldens
  <2> QED
    BY <1>0, <2>1, <2>2, <2>3, <2>4 DEF SplitInv, SetTypeInv, Parted, Goldens
<1>2. CASE CutType
  <2> DEFINE Cut(t, items) ==
        LET n_dev == Len(items) - NumTest(t) IN
        /\ dev' = dev \union ToSet(Until(items, n_dev))
        /\ test' = test \union ToSet(From(items, n_dev))
        /\ types' = types \ {t}
  <2>0. PICK t \in types : \E items \in SetToSeqs(ByType(t)) : Cut(t, items)
    BY <1>2 DEF CutType
  <2>1. PICK items \in SetToSeqs(ByType(t)) : Cut(t, items)
    BY <2>0
  <2> DEFINE k == Len(items) - NumTest(t)
  <2>2. k \in Int
    <3>1. Cardinality(ByType(t)) \in Nat /\ NumTest(t) \in Int
      BY <1>0, NumTestIsInt DEF SetTypeInv
    <3>2. Len(items) = Cardinality(ByType(t))
      BY <3>1 DEF SetToSeqs
    <3> QED
      BY <3>1, <3>2
  <2> HIDE DEF k
  <2>3. /\ ToSet(Until(items, k)) \union ToSet(From(items, k)) = ByType(t)
        /\ ToSet(Until(items, k)) \intersect ToSet(From(items, k)) = {}
    BY <1>0, <2>2, NumTestIsInt, SlicesAreWhole DEF SetTypeInv
  <2>4. /\ dev' = dev \union ToSet(Until(items, k)) /\ test' = test \union ToSet(From(items, k))
        /\ types' = types \ {t}
    BY <2>1 DEF k
  <2>5. UNCHANGED <<labels, cutting, disk, runs, listing>> /\ cutting = "cutting"
    BY <1>2 DEF CutType
  <2>6. CutTypes' = CutTypes \union ByType(t) /\ CutTypes \intersect ByType(t) = {}
    <3>1. Usable' = Usable /\ \A i \in Usable : TypeOf(i)' = TypeOf(i)
      BY <2>5 DEF Usable, TypeOf, Goldens
    <3> QED
      BY <2>4, <3>1 DEF CutTypes, ByType
  <2>7. Parted(CutTypes)
    BY <2>5 DEF SplitInv
  <2>8. Parted(CutTypes)'
    BY <2>3, <2>4, <2>6, <2>7 DEF Parted
  <2>9. SplitIsWhole'
    BY <1>0, <2>5 DEF SplitIsWhole, Usable, Goldens
  <2> QED
    BY <1>0, <2>5, <2>8, <2>9 DEF SplitInv, SetTypeInv, Goldens
<1>3. CASE WriteSplit
  <2>1. UNCHANGED <<labels, types, dev, test, runs, listing>>
    BY <1>3 DEF WriteSplit
  <2>2. Usable' = Usable /\ Goldens' = Goldens
    BY <2>1 DEF Usable, Goldens
  <2>3. CASE cutting = "cutting" /\ types = {} /\ Saved("dev_set", runs.split, dev) /\ cutting' = "written"
    <3>1. /\ disk'["dev_set"] = [run |-> runs.split, items |-> dev]
          /\ disk'["test_set"] = disk["test_set"] /\ DOMAIN disk' = FileNames
      BY <1>0, <2>3 DEF Saved, SetTypeInv, FileNames
    <3>2. CutTypes = Usable
      BY <2>3 DEF CutTypes
    <3>3. Parted(Usable) /\ disk["test_set"].run < runs.split
      BY <2>3, <3>2 DEF SplitInv
    <3>4. disk["test_set"].run \in Nat /\ runs.split \in Nat
      BY <1>0 DEF SetTypeInv
    <3>5. SplitIsWhole'
      BY <3>1, <3>3, <3>4 DEF SplitIsWhole
    <3>6. SetTypeInv'
      BY <1>0, <2>1, <2>2, <2>3, <3>1, <3>4 DEF SetTypeInv
    <3> QED
      BY <2>1, <2>2, <2>3, <3>1, <3>3, <3>5, <3>6 DEF SplitInv, Parted
  <2>4. CASE cutting = "written" /\ Saved("test_set", runs.split, test) /\ cutting' = "stopped"
    <3>1. /\ disk'["test_set"] = [run |-> runs.split, items |-> test]
          /\ disk'["dev_set"] = [run |-> runs.split, items |-> dev] /\ DOMAIN disk' = FileNames
      BY <1>0, <2>4 DEF Saved, SetTypeInv, SplitInv, FileNames
    <3>2. Parted(Usable) /\ runs.split \in Nat
      BY <1>0, <2>4 DEF SplitInv, SetTypeInv
    <3>3. SplitIsWhole'
      BY <2>1, <2>2, <3>1, <3>2 DEF SplitIsWhole, Parted
    <3>4. SetTypeInv'
      BY <1>0, <2>1, <2>2, <2>4, <3>1, <3>2 DEF SetTypeInv
    <3> QED
      BY <2>4, <3>3, <3>4 DEF SplitInv
  <2> QED
    BY <1>3, <2>3, <2>4 DEF WriteSplit
<1>4. CASE BeginList
  <2>1. runs'.split = runs.split /\ DOMAIN runs' = DOMAIN runs
    BY <1>0, <1>4 DEF BeginList, SetTypeInv
  <2> QED
    BY <1>4, <2>1, SplitKept DEF BeginList
<1>5. CASE WriteList
  <2>1. listing \in {"stores", "products"}
    BY <1>0, <1>5 DEF WriteList, SetTypeInv
  <2>2. /\ DOMAIN disk' = DOMAIN disk
        /\ disk'["dev_set"] = disk["dev_set"] /\ disk'["test_set"] = disk["test_set"]
    BY <1>0, <1>5, <2>1 DEF WriteList, Saved, SetTypeInv, FileNames
  <2> QED
    BY <1>5, <2>2, SplitKept DEF WriteList
<1>6. CASE Killed
  BY <1>0, <1>6, SplitKept DEF Killed, SetTypeInv
<1>7. CASE UNCHANGED set
  BY <1>0, <1>7, SplitKept DEF set, SetTypeInv
<1> QED
  BY <1>1, <1>2, <1>3, <1>4, <1>5, <1>6, <1>7 DEF SetNext

\* For any labels, ratio and order the two files of a run are a partition of the
\* usable records. (the slices at n_dev, main of split_eval_set.py)
THEOREM SplitLosesNothing == SetSpec => []SplitIsWhole
<1>1. SplitInv => SplitIsWhole
  BY DEF SplitInv
<1> QED
  BY <1>1, SplitInit, SplitInductive, PTL DEF SetSpec

\* What the lists and the sets hold was made of the labels.
Kinds == {"stores", "products"}
ListInv ==
  /\ SplitInv
  /\ disk["dev_set"].items \subseteq Usable /\ disk["test_set"].items \subseteq Usable
  /\ \A kind \in Kinds : disk[kind].run > 0 => disk[kind].items = Collected(kind)

LEMMA ListInit == SetInit => ListInv
BY SplitInit DEF ListInv, SetInit, Unwritten, Kinds

LEMMA ListInductive == ListInv /\ [SetNext]_set => ListInv'
<1> SUFFICES ASSUME ListInv, [SetNext]_set PROVE ListInv'
  OBVIOUS
<1>0. SplitInv /\ SplitInv' /\ SetTypeInv
  BY SplitInductive DEF ListInv, SplitInv
<1>1. labels' = labels
  BY DEF SetNext, BeginSplit, CutType, WriteSplit, BeginList, WriteList, Killed, set
<1>2. Usable' = Usable /\ \A kind : Collected(kind)' = Collected(kind)
  BY <1>1 DEF Usable, Collected, Goldens
<1>3. CASE UNCHANGED disk
  BY <1>0, <1>2, <1>3 DEF ListInv
<1>4. CASE WriteSplit
  <2>1. \/ /\ disk' = [disk EXCEPT !["dev_set"] = [run |-> runs.split, items |-> dev]]
           /\ cutting' = "written" /\ dev' = dev
        \/ /\ disk' = [disk EXCEPT !["test_set"] = [run |-> runs.split, items |-> test]]
           /\ cutting = "written"
    BY <1>4 DEF WriteSplit, Saved
  <2>2. (cutting = "written" => test \subseteq Usable) /\ (cutting' = "written" => dev' \subseteq Usable)
    BY <1>0, <1>2 DEF SplitInv, Parted
  <2>3. \A kind \in Kinds : disk'[kind] = disk[kind]
    BY <1>0, <2>1 DEF SetTypeInv, Kinds, FileNames
  <2>4. disk'["dev_set"].items \subseteq Usable /\ disk'["test_set"].items \subseteq Usable
    BY <1>0, <2>1, <2>2 DEF ListInv, SetTypeInv, FileNames
  <2> QED
    BY <1>0, <1>2, <2>3, <2>4 DEF ListInv
<1>5. CASE WriteList
  <2>1. listing \in Kinds
    BY <1>0, <1>5 DEF WriteList, SetTypeInv, Kinds
  <2>2. disk' = [disk EXCEPT ![listing] = [run |-> runs.list, items |-> Collected(listing)]]
    BY <1>5 DEF WriteList, Saved
  <2>3. \A kind \in Kinds : disk'[kind] = disk[kind] \/ disk'[kind].items = Collected(kind)
    BY <1>0, <2>1, <2>2 DEF SetTypeInv, Kinds, FileNames
  <2>4. disk'["dev_set"] = disk["dev_set"] /\ disk'["test_set"] = disk["test_set"]
    BY <1>0, <2>1, <2>2 DEF SetTypeInv, Kinds, FileNames
  <2> QED
    BY <1>0, <1>2, <2>3, <2>4 DEF ListInv
<1> QED
  BY <1>3, <1>4, <1>5 DEF SetNext, BeginSplit, CutType, BeginList, Killed, set

\* For any labels every name that a set expects is in a written whitelist.
\* (the filters of the two scripts)
THEOREM SetsMatchLists == SetSpec => []LabelsAreListed
<1>1. ListInv => LabelsAreListed
  <2> SUFFICES ASSUME ListInv, NEW f \in {"dev_set", "test_set"}, NEW kind \in {"stores", "products"},
                      disk[kind].run > 0, NEW i \in disk[f].items, NEW n \in labels[i][kind]
               PROVE  Nfc[n] \in disk[kind].items
    BY DEF LabelsAreListed
  <2>1. i \in Goldens /\ labels[i].status \in Allowed
    BY DEF ListInv, Usable, Statuses, Allowed
  <2>2. Nfc[n] \in Collected(kind)
    BY <2>1 DEF Collected
  <2> QED
    BY <2>2 DEF ListInv, Kinds
<1> QED
  BY <1>1, ListInit, ListInductive, PTL DEF SetSpec
=============================================================================

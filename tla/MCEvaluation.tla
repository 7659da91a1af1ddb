---------------------------- MODULE MCEvaluation -----------------------------
(***************************************************************************)
(* A small instance of Evaluation for TLC.                                 *)
(***************************************************************************)
EXTENDS Evaluation

CONSTANTS a, nearA, b, r1, r2

Line(n, p, t, q) == [name |-> n, price |-> p, total |-> t, quantity |-> q]

\* Lines that agree in any combination of the fields that are aligned by, in
\* the quantity too, and one that has nothing to be aligned by.
SomeLines ==
  {Line(n, p, t, t) : n \in {a, nearA}, p \in {1, Blank}, t \in {1, 2}}
    \union {Line(b, 1, 1, 1), Line(b, Blank, 2, 2), Line(a, 1, 1, 2), Line(Blank, Blank, Blank, 1)}

\* Two of the names are alike enough to be taken for one another.
SomeSimilar == {<<n, n>> : n \in {a, nearA, b}} \union {<<a, nearA>>, <<nearA, a>>}

SomeRecords == {r1, r2}

\* Three types in the spellings that the labels have, records that either script
\* leaves out, and names in two forms.
SomeLabels ==
  {[type |-> t, status |-> "verified_ok", complete |-> TRUE, stores |-> {"s"}, products |-> {}] :
     t \in {"coopxtra", "emart", "Emart"}}
    \union {[type |-> "emart", status |-> s, complete |-> c, stores |-> {}, products |-> {"p", "P decomposed"}] :
             <<s, c>> \in {<<"corrected", TRUE>>, <<"corrected", FALSE>>, <<"unverified", TRUE>>}}

LowerOf == [t \in {"coopxtra", "emart", "Emart"} |-> IF t = "Emart" THEN "emart" ELSE t]
NfcOf == [n \in {"s", "p", "P decomposed"} |-> IF n = "s" THEN "s" ELSE "p"]
=============================================================================

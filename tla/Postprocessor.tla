---------------------------- MODULE Postprocessor ----------------------------
(***************************************************************************)
(* postprocess (src/pipeline/postprocessor.py) on every kind of field of a *)
(* result: names of stores and products go through the whitelist index of  *)
(* the worker, dates, amounts and quantities through the normalisers.      *)
(* Fields do not depend on each other: a behaviour postprocesses one, a    *)
(* name as often as it likes.                                              *)
(***************************************************************************)
EXTENDS WhitelistIndex, Normalizers

VARIABLES
  field,   \* the kind of the field
  raw,     \* a date, an amount or a quantity as it was extracted
  out      \* what became of it

NumberFields == {"quantity", "money", "date"}
Pending == [word |-> "pending"]

\* The fields that are no names look at no list: any one will do.
AnyList ==
  /\ kind = "store" /\ names = <<>>
  /\ shape = (CHOOSE s \in Shapes : TRUE) /\ score = (CHOOSE s \in Scores : TRUE)

\* For a name the list it is matched against is chosen.
PostInit ==
  /\ Init /\ out = Pending
  /\ \/ field = "name" /\ raw = Blank
     \/ field \in NumberFields /\ raw \in {Blank} \union Printed(field) /\ AnyList

MatchName ==
  /\ field = "name"
  /\ Next
  /\ UNCHANGED <<field, raw, out>>

Normalize ==
  /\ field # "name" /\ out = Pending
  /\ out' = Normalized(field, raw)
  /\ UNCHANGED <<vars, field, raw>>

PostNext == MatchName \/ Normalize

PostSpec == PostInit /\ [][PostNext]_<<vars, field, raw, out>>

-----------------------------------------------------------------------------
(* Properties.                                                             *)

\* The kinds of texts whose meaning the normalisers do not keep: a sign that is
\* not in front is taken for decoration, and so is the comma of a weighed
\* quantity.
Weighed(f, t) == f = "quantity" /\ t \in Numbers /\ t.unit
SignIsLost(f, t) ==
  \/ Weighed(f, t) /\ t.sign = "minus"
  \/ f = "money" /\ t \in Money /\ t.sign \in {"trailing", "inner"}
PointIsLost(f, t) == Weighed(f, t) /\ t.sep = "comma"

\* What a text says: the digit of each place of a number, or a day.  A text that
\* is not understood says itself, or nothing.
Padded(digits, n) == [i \in 1..n |-> IF i <= Len(digits) THEN digits[i] ELSE 0]
Amount(f, t) ==
  CASE t \in {Blank, Letters} -> <<>>
    [] f = "quantity" /\ t \notin {Blank, Letters} ->
         <<Padded(t.whole, MaxWhole), Padded(t.fraction, MaxFraction)>>
    [] f = "money" /\ t \notin {Blank, Letters} -> <<Padded(t.whole, MaxWhole)>>
    [] f = "date" /\ t # Blank /\ t.form = "other" -> <<t>>
    [] f = "date" /\ t # Blank /\ t.form = "iso" -> <<t.parts[3], t.parts[2], t.parts[1]>>
    [] f = "date" /\ t # Blank /\ t.form \notin {"other", "iso"} ->
         <<t.parts[1], t.parts[2], t.parts[3]>>

\* Nothing is less than zero.
Negative(f, t) ==
  /\ f # "date" /\ t \notin {Blank, Letters} /\ t.sign # "none"
  /\ ~IsZero(t.whole) \/ (f = "quantity" /\ ~IsZero(t.fraction))

Understood == out \notin {Pending, Raises}

\* A normalised text says what the raw one said: the day, the digit of every
\* place, and the sign if it is one in front. Only a comma before a unit loses
\* the places: "0,47 kg" becomes "047".
\* (_normalize_quantity, _normalize_money, _normalize_date)
MeaningKept ==
  Understood /\ ~PointIsLost(field, raw) =>
    /\ Amount(field, out) = Amount(field, raw)
    /\ ~SignIsLost(field, raw) => (Negative(field, out) <=> Negative(field, raw))

\* An amount is shown with all its digits, and with its sign if it is zero.
Shown(f, t) == IF f = "money" /\ t \in Money THEN <<Len(t.whole), IsNegative(t)>> ELSE <<>>

\* Texts become equal exactly if they say the same, so that results can be
\* compared as strings; but amounts keep the zeros that are printed in front,
\* "0500" for "0.500", and a zero keeps its sign. Weighed quantities keep all
\* zeros and are left out. (the fan-in of the normalisers)
EqualTextsSayTheSame ==
  Understood /\ ~Weighed(field, raw) /\ ~SignIsLost(field, raw) =>
    \A t \in Printed(field) \ {NaN, Infinity} :
      ~Weighed(field, t) /\ ~SignIsLost(field, t) =>
        (Normalized(field, t) = out <=>
           /\ Amount(field, t) = Amount(field, raw)
           /\ Negative(field, t) <=> Negative(field, raw)
           /\ Shown(field, t) = Shown(field, raw))
=============================================================================

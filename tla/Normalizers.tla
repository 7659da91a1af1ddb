----------------------------- MODULE Normalizers -----------------------------
(***************************************************************************)
(* The normalisers of dates, money and quantities that the postprocessor   *)
(* runs on every result (src/pipeline/postprocessor.py), as operators on   *)
(* texts that are given by their parts.  Outer blanks are left out: every  *)
(* normaliser strips them first.                                           *)
(*                                                                         *)
(* The digits of a number are two sequences, both read away from the       *)
(* point: <<0, 5>> and <<4>> are those of "50.4".                          *)
(*                                                                         *)
(* A name with _Bad is a wrong variant of the definition that follows it.  *)
(***************************************************************************)
EXTENDS Integers, SequencesExt

CONSTANTS
  Digits,      \* the digits that occur
  MaxWhole,    \* bound of the runs: digits in front of the point
  MaxFraction  \* and behind it

\* A float shows up to fifteen digits as they are, and a fraction of up to four
\* without an exponent.
ASSUME NormalizersAssumption ==
  /\ Digits \subseteq 0..9
  /\ MaxWhole \in Nat \ {0} /\ MaxFraction \in 0..4 /\ MaxWhole + MaxFraction <= 15

\* Texts without parts; float() of Python accepts the first two.
NaN == [word |-> "nan"]
Infinity == [word |-> "inf"]
Letters == [word |-> "letters"]
Blank == [word |-> "blank"]
Raises == [word |-> "raises"]

Wholes == UNION {[1..n -> Digits] : n \in 1..MaxWhole}
Fractions == UNION {[1..n -> Digits] : n \in 0..MaxFraction}

\* A quantity: a number with at most one separator, with letters behind it or
\* without.
Numbers ==
  {q \in [sign : {"none", "minus"}, whole : Wholes, sep : {"none", "dot", "comma"},
          fraction : Fractions, unit : BOOLEAN] :
     q.sep = "none" <=> q.fraction = <<>>}
\* Money: where the sign stands, the digits, how their groups are separated, and
\* whether a currency is printed.  "inner" is a sign behind letters.
Signs == {"none", "minus", "paren", "trailing", "inner"}
Money == [sign : Signs, whole : Wholes, sep : {"none", "dot", "comma"}, currency : BOOLEAN]
\* A date: its three numbers as they are printed.
DateForms == {"slash", "dash", "dot", "iso", "other"}
Dates == [form : DateForms, parts : (1..2) \X (1..2) \X (1..2)]

Printed(f) ==
  CASE f = "quantity" -> Numbers \union {NaN, Infinity, Letters}
    [] f = "money" -> Money \union {Letters}
    [] f = "date" -> Dates

-----------------------------------------------------------------------------

IsZero(digits) == \A i \in 1..Len(digits) : digits[i] = 0

\* How many digits a float shows: no zeros at the outer end.
Significant(digits) ==
  CHOOSE k \in 0..Len(digits) :
    /\ k > 0 => digits[k] # 0
    /\ \A i \in k + 1..Len(digits) : digits[i] = 0
Trimmed(digits) == SubSeq(digits, 1, Significant(digits))

Number(sign, whole, fraction) ==
  [sign |-> sign, whole |-> whole, sep |-> IF fraction = <<>> THEN "none" ELSE "dot",
   fraction |-> fraction, unit |-> FALSE]

\* int() drops the fraction and the sign of a zero.
ShowWhole(digits) == IF IsZero(digits) THEN <<0>> ELSE Trimmed(digits)
\* The fraction is shown as it was printed.
ShowFloat_BadZeros(q) ==
  Number(IF IsZero(q.whole) /\ IsZero(q.fraction) THEN "none" ELSE q.sign,
         ShowWhole(q.whole), IF IsZero(q.fraction) THEN <<>> ELSE q.fraction)
ShowFloat(q) ==
  Number(IF IsZero(q.whole) /\ IsZero(q.fraction) THEN "none" ELSE q.sign,
         ShowWhole(q.whole), Trimmed(q.fraction))

\* What is no float keeps its digits and dots: a comma joins them, and a minus
\* is gone.
Stripped(q) ==
  IF q.sep = "dot" THEN Number("none", q.whole, q.fraction)
    ELSE Number("none", Reverse(q.fraction) \o q.whole, <<>>)

\* int() of what float() makes of "nan" and "inf" raises.
_normalize_quantity(q) ==
  CASE q \in {Blank, Letters} -> Blank
    [] q \in {NaN, Infinity} -> Raises
    [] q \in Numbers /\ ~q.unit -> ShowFloat(q)
    [] q \in Numbers /\ q.unit -> Stripped(q)

\* Only a sign in front counts; any other is stripped with the letters.
\* A bracket is taken for decoration.
IsNegative_BadParen(m) == m.sign = "minus"
IsNegative(m) == m.sign \in {"minus", "paren"}
\* Separators are never decimal, and all digits stay, zeros in front included.
_normalize_money(m) ==
  IF m \in {Blank, Letters} THEN Blank
    ELSE [sign |-> IF IsNegative(m) THEN "minus" ELSE "none", whole |-> m.whole,
          sep |-> "none", currency |-> FALSE]

\* An ISO date begins with the year.
Slashed(d) ==
  [form |-> "slash",
   parts |-> IF d.form = "iso" THEN <<d.parts[3], d.parts[2], d.parts[1]>> ELSE d.parts]
_normalize_date(d) ==
  IF d = Blank \/ d.form \in {"slash", "other"} THEN d ELSE Slashed(d)

Normalized(f, t) ==
  CASE f = "quantity" -> _normalize_quantity(t)
    [] f = "money" -> _normalize_money(t)
    [] f = "date" -> _normalize_date(t)
=============================================================================

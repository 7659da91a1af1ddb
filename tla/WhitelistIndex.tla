--------------------------- MODULE WhitelistIndex ---------------------------
(***************************************************************************)
(* The whitelist index of a worker (src/pipeline/whitelist_index.py): how  *)
(* one list is read into buckets and how a name is matched against it.     *)
(*                                                                         *)
(* A text is a model value; what the matching asks of it is given by       *)
(* functions: its NFC form without outer blanks, its lower-case form, and  *)
(* of that its first three characters and a quarter of its length.  How    *)
(* alike two lower-case forms are is the WRatio score; shapes and scores   *)
(* are chosen in the initial state and stay.                               *)
(*                                                                         *)
(* A name with _Bad is a wrong variant of the definition that follows it.  *)
(***************************************************************************)
EXTENDS Integers, Sequences

CONSTANTS
  Texts,      \* what a list or a receipt may contain
  Empty,      \* the empty text
  Lowers,     \* lower-case forms, that of the empty text excepted
  Normal,     \* _normalize, on Texts
  Lower,      \* str.lower, on Texts
  Shapes,     \* the prefix and the size of each lower-case form
  Scores,     \* WRatio
  MaxNames    \* bound of the runs: the length of a list

Kinds == {"store", "product"}

ASSUME WhitelistAssumption ==
  /\ Empty \in Texts /\ MaxNames \in Nat
  /\ Normal \in [Texts -> Texts] /\ \A t \in Texts : Normal[Normal[t]] = Normal[t]
  /\ Lower \in [Texts -> Lowers \union {Empty}] /\ Empty \notin Lowers
  /\ \A t \in Texts : Lower[t] = Empty <=> t = Empty
  /\ Normal[Empty] = Empty
  /\ \A shape \in Shapes : \A l \in Lowers : shape[l].size \in Nat
  /\ \A score \in Scores : \A l, m \in Lowers :
       score[l][m] \in 0..100 /\ (score[l][m] = 100 <=> l = m)

VARIABLES
  kind, names,    \* the list that is read, of normalised texts
  shape, score,
  read,           \* the entries of the list that are in the index
  canonical,      \* canonical_of
  asked, answer   \* the raw text matched last, and the result

index == <<read, canonical>>
vars == <<kind, names, shape, score, index, asked, answer>>

None == "none"
ListsOf(S, n) == UNION {[1..m -> S] : m \in 0..n}

Init ==
  /\ kind \in Kinds
  /\ names \in ListsOf({t \in Texts : Normal[t] = t}, MaxNames)
  /\ shape \in Shapes /\ score \in Scores
  /\ read = 0
  /\ canonical = [l \in Lowers |-> None]
  /\ asked = Empty /\ answer = Empty

-----------------------------------------------------------------------------

\* _build_index, one entry. An empty name is passed over.
Spell(l, t) == [canonical EXCEPT ![l] = t]

AddName ==
  /\ read < Len(names)
  /\ read' = read + 1
  /\ LET t == names[read + 1] IN
     canonical' = IF Lower[t] = Empty THEN canonical ELSE Spell(Lower[t], t)
  /\ UNCHANGED <<kind, names, shape, score, asked, answer>>

\* The entry read last is not in the buckets.
Entries_BadLast == {i \in 1..(read - 1) : Lower[names[i]] # Empty}
\* A bucket keeps its last entry only.
Entries_BadBucket ==
  {i \in 1..read : /\ Lower[names[i]] # Empty
                   /\ \A j \in (i + 1)..read : shape[Lower[names[j]]] # shape[Lower[names[i]]]}
Entries == {i \in 1..read : Lower[names[i]] # Empty}
Entry(i) == Lower[names[i]]

\* _KIND_CUTOFFS
Primary == IF kind = "store" THEN 80 ELSE 70
HasFallback == kind = "store"
Fallback == 60

\* The buckets that are searched for a lower-case form.
\* The form's own bucket is left out.
Near_BadSides(l, m) == shape[l].size - shape[m].size \in {-1, 1}
Near(l, m) == shape[l].size - shape[m].size \in -1..1
Candidates(l) == {i \in Entries : shape[Entry(i)].prefix = shape[l].prefix /\ Near(l, Entry(i))}

\* extractOne takes the first of the best, in the order of the buckets or of
\* the list.
Before(i, j, buckets) ==
  IF buckets /\ shape[Entry(i)].size # shape[Entry(j)].size
    THEN shape[Entry(i)].size < shape[Entry(j)].size
    ELSE i < j
IsBest(l, i, I, buckets) ==
  \A j \in I \ {i} : \/ score[l][Entry(j)] < score[l][Entry(i)]
                     \/ /\ score[l][Entry(j)] = score[l][Entry(i)]
                        /\ Before(i, j, buckets)

\* The entry that a form is replaced by: the best candidate if it is good
\* enough; for a store without candidates, the best of the list.
FallsBack(l) == HasFallback /\ Candidates(l) = {}
Found(l, i) ==
  \/ i \in Candidates(l) /\ IsBest(l, i, Candidates(l), TRUE) /\ score[l][Entry(i)] >= Primary
  \/ FallsBack(l) /\ i \in Entries /\ IsBest(l, i, Entries, FALSE) /\ score[l][Entry(i)] >= Fallback

\* _match: r is the result for the raw text t.
Matches(t, r) ==
  LET n == Normal[t]  l == Lower[n] IN
  IF t = Empty \/ l = Empty
    THEN r = n
    ELSE \/ \E i \in Entries : Found(l, i) /\ r = canonical[Entry(i)]
         \/ (\A i \in Entries : ~Found(l, i)) /\ r = n

\* match_store or match_product, once the index is built.
Match ==
  /\ read = Len(names)
  /\ \E t \in Texts : asked' = t
  /\ \E r \in Texts : Matches(asked', r) /\ answer' = r
  /\ UNCHANGED <<kind, names, shape, score, index>>

Next == AddName \/ Match

Spec == Init /\ [][Next]_vars

-----------------------------------------------------------------------------
(* Properties.                                                             *)

Built == read = Len(names)
Form == Lower[Normal[asked]]

\* A result is its own result: whatever was matched, matching it again changes
\* nothing, however often a name is spelled in the list. (canonical_of)
AnswersAreStable ==
  Built => \A r \in Texts : Matches(answer, r) => r = answer

\* A name of the list is found however it is spelled, and all its spellings
\* give the same one. (the buckets of _match)
ListedIsFound ==
  Built /\ Form # Empty /\ (\E i \in 1..Len(names) : Lower[names[i]] = Form) =>
    answer = canonical[Form]

Known(t) == \E i \in Entries : Lower[Normal[t]] # Empty /\ Found(Lower[Normal[t]], i)

\* A name that is added to a list takes no match away, but for matches of the
\* fallback: it is not tried any more once the name stands in a bucket near to
\* them. (the order of buckets and fallback in _match)
Shadowed(t) == FallsBack(Lower[Normal[t]]) /\ ~FallsBack(Lower[Normal[t]])'
LossesAreShadowed ==
  [][AddName => \A t \in Texts : Known(t) /\ ~Known(t)' => Shadowed(t)]_vars
=============================================================================

-------------------------- MODULE Pipeline_proofs ---------------------------
(***************************************************************************)
(* Proofs about Pipeline and the modules it is made of, for every value of *)
(* the constants: the whitelist index gives stable results, finds what is  *)
(* listed, and an added name takes away only matches of the fallback; a    *)
(* crop shows the box that the detector framed, and only thin pictures     *)
(* vanish from the canvas; a normalised text says what was printed, and    *)
(* texts become one exactly if they say the same.                          *)
(***************************************************************************)
EXTENDS Pipeline, SequenceTheorems, WellFoundedInduction, TLAPS

\* The naturals are well-founded: the form of induction the proofs need.
LEMMA LeastExists ==
  ASSUME NEW T \in SUBSET Nat, T # {}
  PROVE  \E x \in T : \A y \in T : x <= y
<1>1. PICK x \in T : \A y \in T : <<y, x>> \notin OpToRel(<, Nat)
  BY WFMin, NatLessThanWellFounded, Zenon
<1>2. \A y \in T : ~(y < x)
  BY <1>1, Zenon DEF OpToRel
<1> QED
  BY <1>2

-----------------------------------------------------------------------------
(* The whitelist index.                                                    *)

\* What the initial state chooses.
ChoiceInv ==
  /\ kind \in Kinds /\ shape \in Shapes /\ score \in Scores
  /\ names \in Seq({t \in Texts : Normal[t] = t})
  /\ read \in 0..Len(names)

\* The spelling kept for a form that was read is normal and has that form.
SpelledInv ==
  /\ canonical \in [Lowers -> Texts \union {None}]
  /\ \A i \in Entries :
       LET c == canonical[Entry(i)] IN
       c \in Texts /\ Normal[c] = c /\ Lower[c] = Entry(i)

\* Nothing is matched before the index is built.
AnswerInv ==
  /\ asked \in Texts /\ answer \in Texts
  /\ ~Built => asked = Empty /\ answer = Empty
  /\ AnswersAreStable
  /\ ListedIsFound

IndexInv == ChoiceInv /\ SpelledInv /\ AnswerInv

-----------------------------------------------------------------------------
(* The best entry: the scores and the places of the entries order them.    *)

LEMMA EntryTyped ==
  ASSUME ChoiceInv, NEW i \in Entries
  PROVE  i \in Nat /\ Entry(i) \in Lowers
<1>1. read \in Nat /\ Len(names) \in Nat /\ read <= Len(names)
  BY DEF ChoiceInv
<1>2. i \in 1..Len(names) /\ Entry(i) # Empty
  BY <1>1 DEF Entries, Entry
<1>3. names[i] \in {t \in Texts : Normal[t] = t}
  BY <1>2, ElementOfSeq DEF ChoiceInv
<1> QED
  BY <1>2, <1>3, WhitelistAssumption DEF Entry

LEMMA SizeTyped == ChoiceInv => \A l \in Lowers : shape[l].size \in Nat
BY WhitelistAssumption DEF ChoiceInv

LEMMA ScoreTyped ==
  ASSUME ChoiceInv, NEW l \in Lowers, NEW m \in Lowers
  PROVE  score[l][m] \in 0..100 /\ (score[l][m] = 100 <=> l = m)
BY WhitelistAssumption DEF ChoiceInv

LEMMA ScoreNatural == ChoiceInv => \A l, m \in Lowers : score[l][m] \in Nat
<1> SUFFICES ASSUME ChoiceInv, NEW l \in Lowers, NEW m \in Lowers PROVE score[l][m] \in Nat
  BY Zenon
<1>1. score[l][m] \in 0..100
  BY ScoreTyped
<1> QED
  BY <1>1

\* Indices of the list, in the index already or not.
Places == {i \in Nat : Entry(i) \in Lowers}

LEMMA BeforeIsTotal ==
  ASSUME ChoiceInv, NEW i \in Places, NEW j \in Places, i # j, NEW b \in BOOLEAN
  PROVE  Before(i, j, b) \/ Before(j, i, b)
<1>1. i \in Nat /\ j \in Nat /\ shape[Entry(i)].size \in Nat /\ shape[Entry(j)].size \in Nat
  BY SizeTyped DEF Places
<1> QED
  BY <1>1 DEF Before

LEMMA BeforeIsTransitive ==
  ASSUME ChoiceInv, NEW i \in Places, NEW j \in Places, NEW k \in Places, NEW b \in BOOLEAN,
         Before(i, j, b), Before(j, k, b)
  PROVE  Before(i, k, b)
<1>1. /\ i \in Nat /\ j \in Nat /\ k \in Nat
      /\ shape[Entry(i)].size \in Nat /\ shape[Entry(j)].size \in Nat
      /\ shape[Entry(k)].size \in Nat
  BY SizeTyped DEF Places
<1> QED
  BY <1>1 DEF Before

\* An entry more: the best one stays the best, or the new one is better.
LEMMA BestGrows ==
  ASSUME ChoiceInv, NEW l \in Lowers, NEW b \in BOOLEAN, NEW I \in SUBSET Places,
         NEW i \in I, NEW x \in Places, x \notin I, IsBest(l, i, I, b)
  PROVE  \E k \in I \union {x} :
           /\ IsBest(l, k, I \union {x}, b)
           /\ score[l][Entry(k)] >= score[l][Entry(i)]
<1> DEFINE s(j) == score[l][Entry(j)]
<1>1. \A j \in Places : s(j) \in Nat
  BY ScoreTyped DEF Places
<1>2. \A j \in I \ {i} : s(j) < s(i) \/ (s(j) = s(i) /\ Before(i, j, b))
  BY DEF IsBest
<1>3. i # x
  OBVIOUS
<1>4. CASE s(x) < s(i) \/ (s(x) = s(i) /\ Before(i, x, b))
  <2>1. IsBest(l, i, I \union {x}, b)
    BY <1>2, <1>4, Zenon DEF IsBest
  <2>2. s(i) >= s(i)
    BY <1>1
  <2> QED
    BY <2>1, <2>2
<1>5. CASE s(i) < s(x) \/ (s(x) = s(i) /\ Before(x, i, b))
  <2>1. ASSUME NEW j \in I PROVE s(j) < s(x) \/ (s(j) = s(x) /\ Before(x, j, b))
    <3>1. CASE j = i
      BY <1>5, <3>1
    <3>2. CASE j # i
      <4>1. s(j) < s(i) \/ (s(j) = s(i) /\ Before(i, j, b))
        BY <1>2, <3>2
      <4>2. s(j) \in Nat /\ s(i) \in Nat /\ s(x) \in Nat
        BY <1>1
      <4>3. Before(x, i, b) /\ Before(i, j, b) => Before(x, j, b)
        BY BeforeIsTransitive
      <4> HIDE DEF s
      <4> QED
        BY <1>5, <4>1, <4>2, <4>3
    <3> QED
      BY <3>1, <3>2
  <2>2. IsBest(l, x, I \union {x}, b)
    BY <2>1, Zenon DEF IsBest
  <2>3. s(i) \in Nat /\ s(x) \in Nat
    BY <1>1
  <2>4. s(x) >= s(i)
    <3> HIDE DEF s
    <3> QED
      BY <1>5, <2>3
  <2> QED
    BY <2>2, <2>4
<1>6. s(x) < s(i) \/ s(x) = s(i) \/ s(i) < s(x)
  <2>1. s(x) \in Nat /\ s(i) \in Nat
    BY <1>1
  <2> HIDE DEF s
  <2> QED
    BY <2>1
<1>7. Before(i, x, b) \/ Before(x, i, b)
  BY <1>3, BeforeIsTotal
<1> HIDE DEF s
<1> QED
  BY <1>4, <1>5, <1>6, <1>7, Zenon

-----------------------------------------------------------------------------
(* The forms of the list.                                                  *)

LEMMA OwnCandidate ==
  ASSUME ChoiceInv, NEW i \in Entries
  PROVE  i \in Candidates(Entry(i))
<1>1. shape[Entry(i)].size \in Nat
  BY EntryTyped, SizeTyped
<1> QED
  BY <1>1 DEF Candidates, Near

\* What is found for the form of an entry has that form.
LEMMA OnlyEqualFound ==
  ASSUME ChoiceInv, NEW i \in Entries, NEW j \in Entries, Found(Entry(i), j)
  PROVE  Entry(j) = Entry(i)
<1>0. i \in Candidates(Entry(i))
  BY OwnCandidate
<1>1. j \in Candidates(Entry(i)) /\ IsBest(Entry(i), j, Candidates(Entry(i)), TRUE)
  BY <1>0 DEF Found, FallsBack
<1>2. CASE j # i
  <2>1. \/ score[Entry(i)][Entry(i)] < score[Entry(i)][Entry(j)]
        \/ score[Entry(i)][Entry(i)] = score[Entry(i)][Entry(j)]
    BY <1>0, <1>1, <1>2 DEF IsBest
  <2>2. Entry(i) \in Lowers /\ Entry(j) \in Lowers
    BY EntryTyped
  <2>3. /\ score[Entry(i)][Entry(i)] = 100 /\ score[Entry(i)][Entry(j)] \in 0..100
        /\ score[Entry(i)][Entry(j)] = 100 <=> Entry(i) = Entry(j)
    BY <2>2, ScoreTyped
  <2> QED
    BY <2>1, <2>3
<1> QED
  BY <1>2

\* Something is found for it: the first entry with that form.
LEMMA EqualIsFound ==
  ASSUME ChoiceInv, NEW i \in Entries
  PROVE  \E k \in Entries : Found(Entry(i), k)
<1> DEFINE l == Entry(i)
           C == Candidates(l)
           T == {j \in Entries : Entry(j) = l}
<1>1. T \in SUBSET Nat /\ T # {}
  BY EntryTyped
<1>2. PICK k \in T : \A j \in T : k <= j
  <2> HIDE DEF T
  <2> QED
    BY <1>1, LeastExists
<1>3. k \in Entries /\ Entry(k) = l /\ l \in Lowers
  BY <1>2, EntryTyped
<1>4. k \in C
  BY <1>3, OwnCandidate
<1>5. score[l][l] = 100 /\ Primary <= 100
  BY <1>3, ScoreTyped DEF Primary
<1>6. ASSUME NEW j \in C \ {k}
      PROVE  \/ score[l][Entry(j)] < score[l][Entry(k)]
             \/ score[l][Entry(j)] = score[l][Entry(k)] /\ Before(k, j, TRUE)
  <2>1. j \in Entries
    BY DEF Candidates
  <2>2. CASE Entry(j) = l
    <3>1. k <= j /\ k \in Nat /\ j \in Nat /\ j # k
      BY <1>2, <1>3, <2>1, <2>2, EntryTyped
    <3>2. k < j
      BY <3>1
    <3> QED
      BY <3>2, <2>2, <1>3 DEF Before
  <2>3. CASE Entry(j) # l
    <3>1. Entry(j) \in Lowers
      BY <2>1, EntryTyped
    <3>2. score[l][Entry(j)] \in 0..100 /\ score[l][Entry(j)] # 100
      BY <3>1, <2>3, <1>3, ScoreTyped
    <3>3. score[l][Entry(j)] < 100
      BY <3>2
    <3>4. score[l][Entry(k)] = 100
      BY <1>3, <1>5
    <3> QED
      BY <3>3, <3>4, Zenon
  <2> QED
    BY <2>2, <2>3
<1>7. IsBest(l, k, C, TRUE)
  BY <1>6 DEF IsBest
<1>8. score[l][Entry(k)] >= Primary
  BY <1>3, <1>5 DEF Primary
<1> HIDE DEF l, C
<1>9. Found(l, k)
  BY <1>4, <1>7, <1>8, Zenon DEF Found, C
<1> QED
  BY <1>3, <1>9 DEF l

\* A listed form gets its spelling.
LEMMA MatchedIsFound ==
  ASSUME ChoiceInv, Built, NEW t \in Texts, NEW r, Matches(t, r), Lower[Normal[t]] # Empty,
         NEW i \in 1..Len(names), Lower[names[i]] = Lower[Normal[t]]
  PROVE  r = canonical[Lower[Normal[t]]]
<1> DEFINE l == Lower[Normal[t]]
<1>1. i \in Entries /\ Entry(i) = l
  BY DEF Built, Entries, Entry
<1>2. t # Empty
  BY WhitelistAssumption
<1>3. \E k \in Entries : Found(l, k)
  BY <1>1, EqualIsFound
<1>4. \A k \in Entries : Found(l, k) => Entry(k) = l
  BY <1>1, OnlyEqualFound
<1>5. \E k \in Entries : Found(l, k) /\ r = canonical[Entry(k)]
  BY <1>2, <1>3, Zenon DEF Matches
<1> HIDE DEF l
<1>6. r = canonical[l]
  BY <1>4, <1>5
<1> QED
  BY <1>6 DEF l

-----------------------------------------------------------------------------
(* The invariant.                                                          *)

\* The empty text matches only itself.
LEMMA EmptyStays == \A r : Matches(Empty, r) => r = Empty
BY WhitelistAssumption DEF Matches

LEMMA IndexInit == Init => IndexInv
<1> SUFFICES ASSUME Init PROVE IndexInv
  OBVIOUS
<1>1. names \in Seq({t \in Texts : Normal[t] = t}) /\ Len(names) \in Nat
  <2>1. PICK m \in 0..MaxNames : names \in [1..m -> {t \in Texts : Normal[t] = t}]
    BY DEF Init, ListsOf
  <2>2. m \in Nat
    BY WhitelistAssumption
  <2> QED
    BY <2>1, <2>2
<1>2. ChoiceInv
  BY <1>1 DEF Init, ChoiceInv
<1>3. SpelledInv
  BY DEF Init, SpelledInv, Entries
<1>4. AnswerInv
  BY EmptyStays, WhitelistAssumption DEF Init, AnswerInv, AnswersAreStable, ListedIsFound, Form
<1> QED
  BY <1>2, <1>3, <1>4 DEF IndexInv

\* An entry is read: its form gets its spelling, the other forms keep theirs.
LEMMA AddNameStep == IndexInv /\ AddName => IndexInv'
<1> SUFFICES ASSUME IndexInv, AddName PROVE IndexInv'
  OBVIOUS
<1> DEFINE t == names[read + 1]
<1>1. /\ read < Len(names) /\ read' = read + 1
      /\ UNCHANGED <<kind, names, shape, score, asked, answer>>
      /\ canonical' = IF Lower[t] = Empty THEN canonical ELSE [canonical EXCEPT ![Lower[t]] = t]
  BY DEF AddName, Spell
<1>2. names \in Seq({u \in Texts : Normal[u] = u}) /\ Len(names) \in Nat /\ read \in 0..Len(names)
  BY DEF IndexInv, ChoiceInv
<1>3. t \in Texts /\ Normal[t] = t /\ Lower[t] \in Lowers \union {Empty}
  <2>1. read + 1 \in 1..Len(names)
    BY <1>1, <1>2
  <2>2. t \in {u \in Texts : Normal[u] = u}
    BY <2>1, <1>2, ElementOfSeq
  <2> QED
    BY <2>2, WhitelistAssumption
<1>4. ChoiceInv'
  BY <1>1, <1>2 DEF IndexInv, ChoiceInv
<1>5. SpelledInv'
  <2>0. canonical \in [Lowers -> Texts \union {None}]
    BY DEF IndexInv, SpelledInv
  <2>1. canonical' \in [Lowers -> Texts \union {None}]
    BY <2>0, <1>1, <1>3
  <2>2. ASSUME NEW i \in Entries'
        PROVE  LET c == canonical'[Lower[names[i]]] IN
               c \in Texts /\ Normal[c] = c /\ Lower[c] = Lower[names[i]]
    <3>1. i \in 1..(read + 1) /\ Lower[names[i]] # Empty
      BY <2>2, <1>1 DEF Entries
    <3>2. Lower[names[i]] \in Lowers
      <4>1. i \in 1..Len(names)
        BY <3>1, <1>1, <1>2
      <4>2. names[i] \in {u \in Texts : Normal[u] = u}
        BY <4>1, <1>2, ElementOfSeq
      <4> QED
        BY <4>2, <3>1, WhitelistAssumption
    <3>3. CASE Lower[names[i]] = Lower[t]
      BY <3>1, <3>2, <3>3, <2>0, <1>1, <1>3
    <3>4. CASE Lower[names[i]] # Lower[t]
      <4>1. i \in Entries
        BY <3>1, <3>4, <1>2 DEF Entries
      <4>2. canonical'[Lower[names[i]]] = canonical[Lower[names[i]]]
        BY <3>2, <3>4, <2>0, <1>1, <1>3
      <4> QED
        BY <4>1, <4>2 DEF IndexInv, SpelledInv, Entry
    <3> QED
      BY <3>3, <3>4
  <2>3. \A i \in Entries' : (Entry(i))' = Lower[names[i]]
    BY <1>1 DEF Entry
  <2> QED
    BY <2>1, <2>2, <2>3 DEF SpelledInv
<1>6. AnswerInv'
  <2>1. answer' = Empty /\ asked' = Empty
    BY <1>1, <1>2 DEF IndexInv, AnswerInv, Built
  <2>2. \A r : Matches(Empty, r)' => r = Empty
    BY WhitelistAssumption DEF Matches
  <2> QED
    BY <2>1, <2>2, WhitelistAssumption DEF AnswerInv, AnswersAreStable, ListedIsFound, Form
<1> QED
  BY <1>4, <1>5, <1>6 DEF IndexInv

\* What a result matches is the result itself.
LEMMA MatchedIsStable ==
  ASSUME ChoiceInv, SpelledInv, NEW t \in Texts, NEW a \in Texts, Matches(t, a),
         NEW r \in Texts, Matches(a, r)
  PROVE  r = a
<1> DEFINE n == Normal[t]
           l == Lower[n]
<1>0. n \in Texts /\ Normal[n] = n /\ l \in Lowers \union {Empty}
  BY WhitelistAssumption
<1>1. CASE t = Empty \/ l = Empty
  <2>1. a = Empty
    BY <1>1, <1>0, WhitelistAssumption DEF Matches
  <2> QED
    BY <2>1, EmptyStays
<1>2. CASE ~(t = Empty \/ l = Empty) /\ \E i \in Entries : Found(l, i) /\ a = canonical[Entry(i)]
  <2>1. PICK i \in Entries : a = canonical[Entry(i)]
    BY <1>2
  <2>2. Normal[a] = a /\ Lower[a] = Entry(i) /\ Entry(i) # Empty
    BY <2>1 DEF SpelledInv, Entries, Entry
  <2>3. \A j \in Entries : Found(Entry(i), j) => Entry(j) = Entry(i)
    BY OnlyEqualFound
  <2>4. a # Empty
    BY <2>2, WhitelistAssumption
  <2>5. CASE \E j \in Entries : Found(Entry(i), j) /\ r = canonical[Entry(j)]
    BY <2>5, <2>1, <2>3
  <2>6. CASE r = Normal[a]
    BY <2>6, <2>2
  <2> HIDE DEF n, l
  <2> QED
    BY <2>2, <2>4, <2>5, <2>6 DEF Matches
<1>3. CASE ~(t = Empty \/ l = Empty) /\ (\A i \in Entries : ~Found(l, i)) /\ a = n
  <2>1. Normal[a] = a /\ Lower[a] = l
    BY <1>3, <1>0
  <2> QED
    BY <1>3, <2>1 DEF Matches
<1> QED
  BY <1>1, <1>2, <1>3 DEF Matches

LEMMA MatchStep == IndexInv /\ Match => IndexInv'
<1> SUFFICES ASSUME IndexInv, Match PROVE IndexInv'
  OBVIOUS
<1>1. /\ Built /\ UNCHANGED <<kind, names, shape, score, read, canonical>>
      /\ asked' \in Texts /\ answer' \in Texts /\ Matches(asked', answer')
  BY DEF Match, Built, index
<1>2. ChoiceInv' /\ SpelledInv'
  BY <1>1 DEF IndexInv, ChoiceInv, SpelledInv, Entries, Entry
<1>3. \A r \in Texts : Matches(answer', r) => r = answer'
  BY <1>1, MatchedIsStable DEF IndexInv
<1>4. \A r \in Texts : Matches(answer, r)' => Matches(answer', r)
  <2>1. Entries' = Entries /\ \A i : Entry(i)' = Entry(i)
    BY <1>1 DEF Entries, Entry
  <2>2. \A k : Candidates(k)' = Candidates(k)
    BY <1>1, <2>1 DEF Candidates, Near
  <2>3. \A k, i : Found(k, i)' <=> Found(k, i)
    BY <1>1, <2>1, <2>2 DEF Found, FallsBack, IsBest, Before, Primary, HasFallback, Fallback
  <2> QED
    BY <1>1, <2>1, <2>3 DEF Matches
<1>5. ListedIsFound'
  <2>1. ASSUME NEW i \in 1..Len(names), Lower[Normal[asked']] # Empty,
               Lower[names[i]] = Lower[Normal[asked']]
        PROVE  answer' = canonical[Lower[Normal[asked']]]
    BY <1>1, <2>1, MatchedIsFound DEF IndexInv
  <2> QED
    BY <1>1, <2>1 DEF ListedIsFound, Form
<1>6. AnswerInv'
  BY <1>1, <1>3, <1>4, <1>5 DEF AnswerInv, AnswersAreStable, Built
<1> QED
  BY <1>2, <1>6 DEF IndexInv

LEMMA IndexInductive == IndexInv /\ [Next]_vars => IndexInv'
<1>1. ASSUME IndexInv, UNCHANGED vars PROVE IndexInv'
  <2>1. /\ kind' = kind /\ names' = names /\ shape' = shape /\ score' = score
        /\ read' = read /\ canonical' = canonical /\ asked' = asked /\ answer' = answer
    BY <1>1 DEF vars, index
  <2>2. Entries' = Entries /\ \A i : Entry(i)' = Entry(i)
    BY <2>1, Zenon DEF Entries, Entry
  <2>3. ChoiceInv'
    BY <1>1, <2>1, Zenon DEF IndexInv, ChoiceInv
  <2>4. SpelledInv'
    BY <1>1, <2>1, <2>2, Zenon DEF IndexInv, SpelledInv
  <2>5. \A l : Candidates(l)' = Candidates(l)
    BY <2>1, <2>2, SMT DEF Candidates, Near
  <2>6. \A l, i : IsBest(l, i, Candidates(l), TRUE)' <=> IsBest(l, i, Candidates(l), TRUE)
    BY <2>1, <2>2, <2>5, SMT DEF IsBest, Before
  <2>7. \A l, i : IsBest(l, i, Entries, FALSE)' <=> IsBest(l, i, Entries, FALSE)
    BY <2>1, <2>2, SMT DEF IsBest, Before
  <2>8. \A l : FallsBack(l)' <=> FallsBack(l)
    BY <2>1, <2>5, SMT DEF FallsBack, HasFallback
  <2>9. \A l, i : Found(l, i)' <=> Found(l, i)
    <3>1. Primary' = Primary
      BY <2>1, Zenon DEF Primary
    <3>2. \A l, i : score'[l][Entry(i)'] = score[l][Entry(i)]
      BY <2>1, <2>2, Zenon
    <3>3. \A l, i : i \in Candidates(l)' <=> i \in Candidates(l)
      BY <2>5, Zenon
    <3> QED
      BY <2>2, <2>6, <2>7, <2>8, <3>1, <3>2, <3>3, Zenon DEF Found, Fallback
  <2>10. \A r : Matches(answer, r)' <=> Matches(answer, r)
    BY <2>1, <2>2, <2>9, SMT DEF Matches
  <2>11. AnswerInv'
    BY <1>1, <2>1, <2>10, Zenon DEF IndexInv, AnswerInv, AnswersAreStable, Built, ListedIsFound, Form
  <2> QED
    BY <2>3, <2>4, <2>11 DEF IndexInv
<1> QED
  BY <1>1, AddNameStep, MatchStep DEF Next

\* Matching a result again gives that result, whatever the list, however often
\* a name is spelled in it, and whichever entry is the best. (canonical_of and
\* the buckets of _match)
THEOREM ResultsAreStable == Spec => []AnswersAreStable
<1> QED
  BY IndexInit, IndexInductive, PTL DEF Spec, IndexInv, AnswerInv

\* A name that is in the list is found in every spelling, whatever else is in
\* the list and however alike it is. (the buckets of _match)
THEOREM ListedNamesAreFound == Spec => []ListedIsFound
<1> QED
  BY IndexInit, IndexInductive, PTL DEF Spec, IndexInv, AnswerInv

-----------------------------------------------------------------------------
(* What an added name takes away.                                          *)

\* The entries after a step of AddName, and what of them does not change.
LEMMA EntriesGrow ==
  ASSUME IndexInv, AddName
  PROVE  /\ Entries' \in {Entries, Entries \union {read + 1}} /\ read + 1 \notin Entries
         /\ \A i : Entry(i)' = Entry(i)
         /\ Entries' \subseteq Places
         /\ kind' = kind /\ shape' = shape /\ score' = score
<1>1. /\ read' = read + 1 /\ kind' = kind /\ names' = names /\ shape' = shape /\ score' = score
      /\ read < Len(names)
  BY DEF AddName
<1>2. read \in Nat /\ Len(names) \in Nat
  BY DEF IndexInv, ChoiceInv
<1>3. Entries' \in {Entries, Entries \union {read + 1}} /\ read + 1 \notin Entries
  <2>1. \A i : i \in 1..(read + 1) <=> i \in 1..read \/ i = read + 1
    BY <1>2
  <2>2. read + 1 \notin 1..read
    BY <1>2
  <2>3. \A i : i \in Entries' <=> i \in 1..(read + 1) /\ Lower[names[i]] # Empty
    BY <1>1 DEF Entries
  <2> QED
    BY <2>1, <2>2, <2>3, Zenon DEF Entries
<1>4. \A i : Entry(i)' = Entry(i)
  BY <1>1 DEF Entry
<1>5. ASSUME NEW i \in Entries' PROVE i \in Places
  <2>1. i \in 1..Len(names) /\ i \in Nat /\ Entry(i) # Empty
    BY <1>1, <1>2, <1>4 DEF Entries, Entry
  <2>2. names[i] \in {t \in Texts : Normal[t] = t}
    BY <2>1, ElementOfSeq DEF IndexInv, ChoiceInv
  <2> QED
    BY <2>1, <2>2, WhitelistAssumption DEF Entry, Places
<1> QED
  BY <1>1, <1>3, <1>4, <1>5

LEMMA AddNameLoses ==
  ASSUME IndexInv, AddName, NEW t \in Texts, Known(t), ~Known(t)'
  PROVE  Shadowed(t)
<1> DEFINE l == Lower[Normal[t]]
           x == read + 1
           C == Candidates(l)
<1>1. /\ Entries' \in {Entries, Entries \union {x}} /\ x \notin Entries
      /\ \A i : Entry(i)' = Entry(i)
      /\ Entries' \subseteq Places
      /\ kind' = kind /\ shape' = shape /\ score' = score
  BY EntriesGrow
<1>2. PICK i \in Entries : l # Empty /\ Found(l, i)
  BY DEF Known
<1>3. l \in Lowers /\ ChoiceInv
  BY <1>2, WhitelistAssumption DEF IndexInv
<1>4. Entries \subseteq Entries' /\ C \subseteq Entries
  BY <1>1 DEF Candidates
<1>5. C' \in {C, C \union {x}} /\ x \notin C /\ C \subseteq Places /\ C' \subseteq Places
  <2>1. \A j : j \in C' <=> /\ j \in Entries' /\ shape[Entry(j)].prefix = shape[l].prefix
                           /\ Near(l, Entry(j))
    BY <1>1 DEF Candidates, Near
  <2>2. \A j : j \in C <=> /\ j \in Entries /\ shape[Entry(j)].prefix = shape[l].prefix
                          /\ Near(l, Entry(j))
    BY DEF Candidates
  <2> HIDE DEF C
  <2> QED
    BY <1>1, <1>4, <2>1, <2>2, Zenon
<1>6. \A k, I, b : IsBest(l, k, I, b)' <=> IsBest(l, k, I, b)
  BY <1>1 DEF IsBest, Before
<1>7. \A k : k \in Entries' => ~Found(l, k)'
  BY <1>2 DEF Known
<1>8. Primary' = Primary /\ HasFallback' = HasFallback
  BY <1>1 DEF Primary, HasFallback
<1>9. ASSUME NEW b \in BOOLEAN, NEW I \in SUBSET Places, NEW J \in SUBSET Places,
             J \in {I, I \union {x}}, x \notin I,
             NEW m \in Nat, i \in I, IsBest(l, i, I, b), score[l][Entry(i)] >= m
      PROVE  \E k \in J : IsBest(l, k, J, b)' /\ score'[l][Entry(k)'] >= m
  <2>1. \E k \in J : IsBest(l, k, J, b) /\ score[l][Entry(k)] >= score[l][Entry(i)]
    <3>1. CASE J = I
      <4>1. score[l][Entry(i)] \in Nat
        BY <1>3, <1>9, ScoreTyped DEF Places
      <4> QED
        BY <1>9, <3>1, <4>1
    <3>2. CASE J = I \union {x} /\ J # I
      <4>1. x \in Places
        BY <3>2
      <4> HIDE DEF x, l
      <4> QED
        BY <1>3, <1>9, <3>2, <4>1, BestGrows
    <3> QED
      BY <1>9, <3>1, <3>2
  <2>2. PICK k \in J : IsBest(l, k, J, b) /\ score[l][Entry(k)] >= score[l][Entry(i)]
    BY <2>1
  <2>3. score[l][Entry(k)] \in Nat /\ score[l][Entry(i)] \in Nat
    <3>1. Entry(k) \in Lowers /\ Entry(i) \in Lowers
      <4>1. k \in Places /\ i \in Places
        BY <1>9, Zenon
      <4> QED
        BY <4>1, Zenon DEF Places
    <3> HIDE DEF l
    <3> QED
      BY <1>3, <3>1, ScoreNatural, Zenon
  <2>4. score[l][Entry(k)] >= m
    BY <1>9, <2>2, <2>3
  <2> QED
    BY <1>1, <1>6, <2>2, <2>4, Zenon
<1>10. CASE i \in C /\ IsBest(l, i, C, TRUE) /\ score[l][Entry(i)] >= Primary
  <2>1. \E k \in C' : IsBest(l, k, C, TRUE)' /\ score'[l][Entry(k)'] >= Primary
    <3>1. Primary \in Nat
      BY DEF Primary
    <3> HIDE DEF C, l, x
    <3> QED
      BY <1>5, <1>9, <1>10, <3>1, Zenon
  <2>2. \E k \in Entries' : Found(l, k)'
    BY <1>4, <1>8, <2>1, Zenon DEF Found, Candidates
  <2> QED
    BY <1>7, <2>2
<1>11. CASE FallsBack(l) /\ IsBest(l, i, Entries, FALSE) /\ score[l][Entry(i)] >= Fallback
  <2>1. \E k \in Entries' : IsBest(l, k, Entries, FALSE)' /\ score'[l][Entry(k)'] >= Fallback
    <3>1. Fallback \in Nat
      BY DEF Fallback
    <3>2. Entries \subseteq Places
      BY <1>1, <1>4
    <3> HIDE DEF l, x
    <3> QED
      BY <1>1, <1>2, <1>9, <1>11, <3>1, <3>2, Zenon
  <2>2. ~FallsBack(l)'
    <3>1. Fallback' = Fallback
      BY DEF Fallback
    <3> QED
      BY <1>7, <2>1, <3>1, Zenon DEF Found
  <2> QED
    BY <1>11, <2>2 DEF Shadowed
<1> QED
  BY <1>2, <1>10, <1>11 DEF Found

\* A name that is added takes only matches that the fallback had made for a
\* form without a bucket near to it, and that has one now. (the order of
\* buckets and fallback in _match)
THEOREM AddedNamesShadow == Spec => LossesAreShadowed
<1>1. IndexInv /\ [Next]_vars =>
        [AddName => \A t \in Texts : Known(t) /\ ~Known(t)' => Shadowed(t)]_vars
  BY AddNameLoses, Zenon
<1> QED
  BY <1>1, IndexInit, IndexInductive, PTL DEF Spec, LossesAreShadowed

-----------------------------------------------------------------------------
(* The image: roundings, and edges on the canvas and on the picture.       *)

\* Division by a positive number.
LEMMA Division ==
  ASSUME NEW n \in Int, NEW d \in Int, d > 0
  PROVE  /\ n \div d \in Int /\ n % d \in Int
         /\ n - d * (n \div d) = n % d
         /\ 0 <= n % d /\ n % d < d
<1>1. n \div d \in Int /\ n % d \in Int
  BY SMT
<1>2. n - d * (n \div d) = n % d
  BY SMT
<1>3. 0 <= n % d
  BY SMT
<1>4. n % d < d
  BY SMT
<1> QED
  BY <1>1, <1>2, <1>3, <1>4, Zenon

\* Rounding is off by half a unit at most.
LEMMA RoundedBounds ==
  ASSUME NEW n \in Int, NEW d \in Int, d > 0
  PROVE  /\ Rounded(n, d) \in Int
         /\ 2 * n - d <= 2 * (d * Rounded(n, d))
         /\ 2 * (d * Rounded(n, d)) <= 2 * n + d
<1> DEFINE f == n \div d
           r == n % d
<1>1. f \in Int /\ r \in Int /\ n - d * f = r /\ 0 <= r /\ r < d
  BY Division
<1>2. \/ Rounded(n, d) = f /\ 2 * r <= d
      \/ Rounded(n, d) = f + 1 /\ 2 * r >= d
  <2>1. \/ Rounded(n, d) = f /\ (2 * r < d \/ 2 * r = d)
        \/ Rounded(n, d) = f + 1 /\ ~(2 * r < d)
    BY Zenon DEF Rounded
  <2> HIDE DEF f, r
  <2> QED
    BY <1>1, <2>1
<1> HIDE DEF f, r
<1>3. d * (f + 1) = d * f + d
  BY <1>1
<1>4. CASE Rounded(n, d) = f /\ 2 * r <= d
  BY <1>1, <1>4
<1>5. CASE Rounded(n, d) = f + 1 /\ 2 * r >= d
  BY <1>1, <1>3, <1>5
<1> QED
  BY <1>2, <1>4, <1>5, Zenon

-----------------------------------------------------------------------------
(* The two ways between picture and canvas, for one direction: S is the    *)
(* side of the canvas, L the longer side of the picture and p this one, T  *)
(* the pixels it takes on the canvas, P the part of the padding.  Pixel i  *)
(* begins 2 * i * T / p half pixels behind the begin of the picture; an    *)
(* edge of the box is c half pixels behind it.                             *)

\* T pixels are taken for p.
Takes(S, L, p, T) ==
  /\ S \in Nat /\ S > 0 /\ L \in Nat /\ L > 0 /\ p \in 1..L /\ T \in Nat /\ T > 0
  /\ 2 * L <= 5 * S
  /\ 2 * (p * S) - L <= 2 * (L * T) /\ 2 * (L * T) <= 2 * (p * S) + L

LEMMA Positive == \A a \in Nat \ {0} : a \in Nat /\ a > 0
OBVIOUS
LEMMA MoreTimes == \A a, b \in Int : \A c \in Nat : a <= b => a * c <= b * c
OBVIOUS
LEMMA LessTimes == \A a, b \in Int : \A c \in Nat : c > 0 /\ a * c <= b * c => a <= b
OBVIOUS

\* The picture is less than three times as long as the canvas, and a pixel of
\* the canvas stands for at most three of the picture.
LEMMA TakesBounds ==
  ASSUME NEW S, NEW L, NEW p, NEW T, Takes(S, L, p, T)
  PROVE  L < 3 * S /\ p <= 3 * T
<1>1. L < 3 * S
  BY DEF Takes
<1>2. 4 * (L * p) <= 10 * (S * p)
  <2>1. (2 * L) * (2 * p) <= (5 * S) * (2 * p)
    <3>1. 2 * L \in Int /\ 5 * S \in Int /\ 2 * p \in Nat /\ 2 * L <= 5 * S
      BY DEF Takes
    <3> QED
      BY <3>1, MoreTimes
  <2> QED
    BY <2>1 DEF Takes
<1>3. 4 * p * L <= (10 * T + 5) * L
  BY <1>2 DEF Takes
<1>4. 4 * p <= 10 * T + 5
  <2>1. 4 * p \in Int /\ 10 * T + 5 \in Int /\ L \in Nat /\ L > 0
    BY DEF Takes
  <2> QED
    BY <1>3, <2>1, LessTimes
<1> QED
  BY <1>1, <1>4 DEF Takes

\* An edge that is not behind the begin of pixel i is read at most a pixel late.
LEMMA LowEdge ==
  ASSUME NEW S, NEW L, NEW p, NEW T, Takes(S, L, p, T),
         NEW c \in Int, NEW i \in 0..p - 1,
         c * p <= 2 * (i * T)
  PROVE  L * c < S * (2 * i + 3)
<1>1. S \in Nat /\ L \in Nat /\ p \in Nat /\ T \in Nat /\ i \in Nat /\ i < p /\ p > 0
  BY DEF Takes
<1>2. (c * p) * L <= (2 * (i * T)) * L
  <2>1. c * p \in Int /\ 2 * (i * T) \in Int
    BY <1>1
  <2> QED
    BY <1>1, <2>1, MoreTimes
<1>3. (2 * (L * T)) * i <= (2 * (p * S) + L) * i
  <2>1. 2 * (L * T) \in Int /\ 2 * (p * S) + L \in Int /\ 2 * (L * T) <= 2 * (p * S) + L
    BY <1>1 DEF Takes
  <2> QED
    BY <1>1, <2>1, MoreTimes
<1>4. L * i < (3 * S) * p
  <2>1. S * i < S * p
    BY <1>1 DEF Takes
  <2>2. L * i <= (3 * S) * i
    BY <1>1, TakesBounds
  <2> QED
    BY <1>1, <2>1, <2>2
<1>5. (L * c) * p < (S * (2 * i + 3)) * p
  <2>1. (L * c) * p <= 2 * (p * S * i) + L * i
    BY <1>1, <1>2, <1>3
  <2> QED
    BY <1>1, <1>4, <2>1
<1>6. L * c \in Int /\ S * (2 * i + 3) \in Int
  BY <1>1
<1> HIDE DEF Takes
<1> QED
  BY <1>1, <1>5, <1>6, MoreTimes

\* An edge that is not in front of the end of pixel i is read at most a pixel
\* early.
LEMMA HighEdge ==
  ASSUME NEW S, NEW L, NEW p, NEW T, Takes(S, L, p, T),
         NEW c \in Int, NEW i \in 0..p - 1,
         2 * ((i + 1) * T) <= c * p
  PROVE  S * (2 * i - 1) < L * c
<1>1. S \in Nat /\ L \in Nat /\ p \in Nat /\ T \in Nat /\ i \in Nat /\ i + 1 <= p /\ p > 0
  BY DEF Takes
<1>2. (2 * ((i + 1) * T)) * L <= (c * p) * L
  <2>1. c * p \in Int /\ 2 * ((i + 1) * T) \in Int
    BY <1>1
  <2> QED
    BY <1>1, <2>1, MoreTimes
<1>3. (2 * (p * S) - L) * (i + 1) <= (2 * (L * T)) * (i + 1)
  <2>1. 2 * (L * T) \in Int /\ 2 * (p * S) - L \in Int /\ 2 * (p * S) - L <= 2 * (L * T)
    BY <1>1 DEF Takes
  <2>2. i + 1 \in Nat
    BY <1>1
  <2> QED
    BY <2>1, <2>2, MoreTimes
<1>4. L * (i + 1) < (3 * S) * p
  <2>1. L * (i + 1) <= L * p
    BY <1>1
  <2>2. L * p < (3 * S) * p
    BY <1>1, TakesBounds
  <2> QED
    BY <1>1, <2>1, <2>2
<1>5. (S * (2 * i - 1)) * p < (L * c) * p
  <2>1. 2 * (p * S * (i + 1)) - L * (i + 1) <= (L * c) * p
    BY <1>1, <1>2, <1>3
  <2> QED
    BY <1>1, <1>4, <2>1
<1>6. L * c \in Int /\ S * (2 * i - 1) \in Int
  BY <1>1
<1> HIDE DEF Takes
<1> QED
  BY <1>1, <1>5, <1>6, MoreTimes

\* What is behind an edge on the picture is behind it on the canvas, but for a
\* pixel, and in front likewise; Q and W are the edges with their padding, in
\* parts of 1 / P.
LEMMA LowReach ==
  ASSUME NEW S, NEW L, NEW p, NEW T, Takes(S, L, p, T),
         NEW P \in Nat, NEW Q \in Int, NEW i \in 0..p - 1,
         L * Q <= S * P * (2 * i + 1)
  PROVE  Q * p <= 2 * (P * (i + 2) * T)
<1>1. /\ S \in Nat /\ L \in Nat /\ L > 0 /\ p \in Nat /\ T \in Nat /\ i \in Nat
      /\ 2 * i + 1 <= 6 * T
  BY TakesBounds DEF Takes
<1>2. (2 * (L * Q)) * p <= (2 * (S * P * (2 * i + 1))) * p
  <2>1. L * Q \in Int /\ S * P * (2 * i + 1) \in Int
    BY <1>1
  <2> QED
    BY <1>1, <2>1, MoreTimes
<1>3. (2 * (p * S)) * (P * (2 * i + 1)) <= (L * (2 * T + 1)) * (P * (2 * i + 1))
  <2>1. 2 * (p * S) \in Int /\ L * (2 * T + 1) \in Int /\ 2 * (p * S) <= L * (2 * T + 1)
    BY <1>1 DEF Takes
  <2>2. P * (2 * i + 1) \in Nat
    BY <1>1
  <2> QED
    BY <2>1, <2>2, MoreTimes
<1>4. (2 * (Q * p)) * L <= ((2 * T + 1) * (2 * i + 1) * P) * L
  BY <1>1, <1>2, <1>3
<1>5. 2 * (Q * p) <= (2 * T + 1) * (2 * i + 1) * P
  <2>1. 2 * (Q * p) \in Int /\ (2 * T + 1) * (2 * i + 1) * P \in Int
    BY <1>1
  <2> QED
    BY <1>1, <1>4, <2>1, LessTimes
<1>6. (2 * T + 1) * (2 * i + 1) * P <= (4 * ((i + 2) * T)) * P
  <2>1. (2 * T + 1) * (2 * i + 1) <= 4 * ((i + 2) * T)
    BY <1>1
  <2>2. (2 * T + 1) * (2 * i + 1) \in Int /\ 4 * ((i + 2) * T) \in Int
    BY <1>1
  <2> QED
    BY <2>1, <2>2, MoreTimes
<1> HIDE DEF Takes
<1> QED
  BY <1>1, <1>5, <1>6

LEMMA HighReach ==
  ASSUME NEW S, NEW L, NEW p, NEW T, Takes(S, L, p, T),
         NEW P \in Nat, NEW W \in Int, NEW i \in 0..p - 1,
         S * P * (2 * i + 1) <= L * W
  PROVE  2 * (P * (i - 1) * T) <= W * p
<1>1. /\ S \in Nat /\ L \in Nat /\ L > 0 /\ p \in Nat /\ T \in Nat /\ i \in Nat
      /\ 2 * i + 1 <= 6 * T
  BY TakesBounds DEF Takes
<1>2. (2 * (S * P * (2 * i + 1))) * p <= (2 * (L * W)) * p
  <2>1. L * W \in Int /\ S * P * (2 * i + 1) \in Int
    BY <1>1
  <2> QED
    BY <1>1, <2>1, MoreTimes
<1>3. (L * (2 * T - 1)) * (P * (2 * i + 1)) <= (2 * (p * S)) * (P * (2 * i + 1))
  <2>1. 2 * (p * S) \in Int /\ L * (2 * T - 1) \in Int /\ L * (2 * T - 1) <= 2 * (p * S)
    BY <1>1 DEF Takes
  <2>2. P * (2 * i + 1) \in Nat
    BY <1>1
  <2> QED
    BY <2>1, <2>2, MoreTimes
<1>4. ((2 * T - 1) * (2 * i + 1) * P) * L <= (2 * (W * p)) * L
  BY <1>1, <1>2, <1>3
<1>5. (2 * T - 1) * (2 * i + 1) * P <= 2 * (W * p)
  <2>1. 2 * (W * p) \in Int /\ (2 * T - 1) * (2 * i + 1) * P \in Int
    BY <1>1
  <2> QED
    BY <1>1, <1>4, <2>1, LessTimes
<1>6. (4 * ((i - 1) * T)) * P <= (2 * T - 1) * (2 * i + 1) * P
  <2>1. 4 * ((i - 1) * T) <= (2 * T - 1) * (2 * i + 1)
    BY <1>1
  <2>2. (2 * T - 1) * (2 * i + 1) \in Int /\ 4 * ((i - 1) * T) \in Int
    BY <1>1
  <2> QED
    BY <2>1, <2>2, MoreTimes
<1> HIDE DEF Takes
<1> QED
  BY <1>1, <1>5, <1>6

\* r is n / P half pixels of the canvas on the picture, rounded.
Scaled(S, L, P, n, r) ==
  /\ 2 * (L * n) - 2 * (S * P) <= 4 * (S * P * r)
  /\ 4 * (S * P * r) <= 2 * (L * n) + 2 * (S * P)

\* The first pixel of the crop, for a pixel of the box.
LEMMA CropBegins ==
  ASSUME NEW S, NEW L, NEW p, NEW T, Takes(S, L, p, T),
         NEW P \in Nat, P > 0, NEW c \in Int, NEW pad \in Nat, NEW i \in 0..p - 1,
         NEW low \in Int, Scaled(S, L, P, P * c - pad, low),
         c * p <= 2 * (i * T)
  PROVE  low <= i + 1
<1>1. S \in Nat /\ L \in Nat /\ i \in Nat /\ p \in Nat
  BY DEF Takes
<1>2. SUFFICES ASSUME i + 2 <= low PROVE FALSE
  BY <1>1
<1>3. (i + 2) * (S * P) <= low * (S * P)
  <2>1. S * P \in Nat /\ i + 2 \in Int
    BY <1>1
  <2> QED
    BY <1>2, <2>1, MoreTimes
<1>4. (P * c - pad) * L <= (P * c) * L
  <2>1. P * c - pad <= P * c /\ P * c \in Int /\ P * c - pad \in Int
    OBVIOUS
  <2> QED
    BY <1>1, <2>1, MoreTimes
<1>5. (S * (2 * i + 3)) * P <= (L * c) * P
  <2>1. 4 * (S * P * low) <= 2 * (L * (P * c - pad)) + 2 * (S * P)
    BY DEF Scaled
  <2> HIDE DEF Takes, Scaled
  <2> QED
    BY <1>1, <1>3, <1>4, <2>1
<1>6. S * (2 * i + 3) <= L * c
  <2>1. S * (2 * i + 3) \in Int /\ L * c \in Int
    BY <1>1
  <2> QED
    BY <1>5, <2>1, LessTimes
<1>7. L * c < S * (2 * i + 3)
  BY LowEdge
<1>8. S * (2 * i + 3) \in Int /\ L * c \in Int
  BY <1>1
<1> QED
  BY <1>6, <1>7, <1>8

\* The last one.
LEMMA CropEnds ==
  ASSUME NEW S, NEW L, NEW p, NEW T, Takes(S, L, p, T),
         NEW P \in Nat, P > 0, NEW c \in Int, NEW pad \in Nat, NEW i \in 0..p - 1,
         NEW high \in Int, Scaled(S, L, P, P * c + pad, high),
         2 * ((i + 1) * T) <= c * p
  PROVE  i <= high
<1>1. S \in Nat /\ L \in Nat /\ i \in Nat /\ p \in Nat
  BY DEF Takes
<1>2. SUFFICES ASSUME high <= i - 1 PROVE FALSE
  BY <1>1
<1>3. high * (S * P) <= (i - 1) * (S * P)
  <2>1. S * P \in Nat /\ i - 1 \in Int
    BY <1>1
  <2> QED
    BY <1>2, <2>1, MoreTimes
<1>4. (P * c) * L <= (P * c + pad) * L
  <2>1. P * c <= P * c + pad /\ P * c \in Int /\ P * c + pad \in Int
    OBVIOUS
  <2> QED
    BY <1>1, <2>1, MoreTimes
<1>5. (L * c) * P <= (S * (2 * i - 1)) * P
  <2>1. 2 * (L * (P * c + pad)) - 2 * (S * P) <= 4 * (S * P * high)
    BY DEF Scaled
  <2> HIDE DEF Takes, Scaled
  <2> QED
    BY <1>1, <1>3, <1>4, <2>1
<1>6. L * c <= S * (2 * i - 1)
  <2>1. S * (2 * i - 1) \in Int /\ L * c \in Int
    BY <1>1
  <2> QED
    BY <1>5, <2>1, LessTimes
<1>7. S * (2 * i - 1) < L * c
  BY HighEdge
<1>8. S * (2 * i - 1) \in Int /\ L * c \in Int
  BY <1>1
<1> QED
  BY <1>6, <1>7, <1>8

\* The pixels of the crop.
LEMMA CropReaches ==
  ASSUME NEW S, NEW L, NEW p, NEW T, Takes(S, L, p, T),
         NEW P \in Nat, NEW Q \in Int, NEW W \in Int, NEW i \in 0..p - 1,
         NEW low \in Int, Scaled(S, L, P, Q, low), low <= i,
         NEW high \in Int, Scaled(S, L, P, W, high), i + 1 <= high
  PROVE  /\ Q * p <= 2 * (P * (i + 2) * T)
         /\ 2 * (P * (i - 1) * T) <= W * p
<1>1. S \in Nat /\ L \in Nat /\ i \in Nat /\ S * P \in Nat
  BY DEF Takes
<1>2. L * Q <= S * P * (2 * i + 1)
  <2>1. low * (S * P) <= i * (S * P)
    BY <1>1, MoreTimes
  <2>2. 2 * (L * Q) - 2 * (S * P) <= 4 * (S * P * low)
    BY DEF Scaled
  <2> HIDE DEF Takes, Scaled
  <2> QED
    BY <1>1, <2>1, <2>2
<1>3. S * P * (2 * i + 1) <= L * W
  <2>1. (i + 1) * (S * P) <= high * (S * P)
    <3>1. i + 1 \in Int
      BY <1>1
    <3> QED
      BY <1>1, <3>1, MoreTimes
  <2>2. 4 * (S * P * high) <= 2 * (L * W) + 2 * (S * P)
    BY DEF Scaled
  <2> HIDE DEF Takes, Scaled
  <2> QED
    BY <1>1, <2>1, <2>2
<1> QED
  BY <1>2, <1>3, LowReach, HighReach

-----------------------------------------------------------------------------
(* The crop of a picture.                                                  *)

PicFits == pic[1] \in Nat \ {0} /\ pic[2] \in Nat \ {0} /\ Longer(pic) <= MaxDim

LEMMA LongerTyped ==
  ASSUME PicFits, NEW a \in Axes
  PROVE  /\ Longer(pic) \in Nat /\ Longer(pic) > 0
         /\ pic[a] \in Nat /\ pic[a] > 0 /\ pic[a] <= Longer(pic)
BY DEF PicFits, Longer, Axes

LEMMA PicTakes ==
  ASSUME 2 * MaxDim <= 5 * Size, PicFits, NEW a \in Axes, Taken(a) > 0
  PROVE  Takes(Size, Longer(pic), pic[a], Taken(a))
<1> DEFINE L == Longer(pic)
           p == pic[a]
<1>1. Size \in Nat /\ Size > 0 /\ MaxDim \in Nat
  BY ImageAssumption
<1>2. L \in Nat /\ L > 0 /\ p \in Nat /\ p > 0 /\ p <= L /\ L <= MaxDim
  BY LongerTyped DEF PicFits
<1> HIDE DEF L, p
<1>3. p * Size \in Int
  BY <1>1, <1>2
<1>4. /\ Rounded(p * Size, L) \in Int
      /\ 2 * (p * Size) - L <= 2 * (L * Rounded(p * Size, L))
      /\ 2 * (L * Rounded(p * Size, L)) <= 2 * (p * Size) + L
  <2>1. L \in Int
    BY <1>2
  <2> QED
    BY <1>2, <1>3, <2>1, RoundedBounds, Zenon
<1>5. Taken(a) = Rounded(p * Size, L)
  BY Zenon DEF Taken, L, p
<1>6. Taken(a) \in Nat
  BY <1>4, <1>5
<1>7. 2 * L <= 5 * Size /\ p \in 1..L
  BY <1>1, <1>2
<1>8. Takes(Size, L, p, Taken(a))
  BY <1>1, <1>2, <1>4, <1>5, <1>6, <1>7, Zenon DEF Takes
<1> QED
  BY <1>8, Zenon DEF L, p

\* The edges of the crop are the edges of the box with the padding, scaled,
\* rounded and clipped to the picture.
LEMMA CroppedEdges ==
  ASSUME PicFits, NEW a \in Axes, NEW span \in Spans, NEW b \in Int, b = Begin(a)
  PROVE  \E low, high \in Int :
           /\ Scaled(Size, Longer(pic), PadPart,
                     PadPart * (span[1] - 2 * b) - (span[2] - span[1]), low)
           /\ Scaled(Size, Longer(pic), PadPart,
                     PadPart * (span[2] - 2 * b) + (span[2] - span[1]), high)
           /\ Cropped(a, span)[1] = (IF low > 0 THEN low ELSE 0)
           /\ Cropped(a, span)[2] = (IF high < pic[a] THEN high ELSE pic[a])
<1> DEFINE L == Longer(pic)
           S == Size
           P == PadPart
           e == span[1]
           g == span[2]
           from == (e - 2 * b) * L
           to == (g - 2 * b) * L
           m == P * from - (to - from)
           n == P * to + (to - from)
           d == 2 * S * P
<1>1. /\ S \in Nat /\ S > 0 /\ P \in Nat /\ P > 0 /\ L \in Nat /\ e \in Int /\ g \in Int
  <2>1. S \in Nat /\ S > 0 /\ P \in Nat /\ P > 0
    BY ImageAssumption
  <2>2. L \in Nat
    BY LongerTyped
  <2>3. e \in Edges /\ g \in Edges
    BY DEF Spans
  <2>4. Edges \subseteq Int
    BY ImageAssumption
  <2> QED
    BY <2>1, <2>2, <2>3, <2>4, Zenon
<1>2. from = Back(a, e) /\ to = Back(a, g)
  BY Zenon DEF Back
<1>3. /\ Cropped(a, span)[1] = (IF Rounded(m, d) > 0 THEN Rounded(m, d) ELSE 0)
      /\ Cropped(a, span)[2] = (IF Rounded(n, d) < pic[a] THEN Rounded(n, d) ELSE pic[a])
  <2> HIDE DEF from, to
  <2> QED
    BY <1>2 DEF Cropped
<1> HIDE DEF L, S, P, e, g
<1>4. from \in Int /\ to \in Int /\ m \in Int /\ n \in Int
  BY <1>1
<1>5. d \in Int /\ d > 0 /\ d = 2 * (S * P)
  BY <1>1
<1>6. m = L * (P * (e - 2 * b) - (g - e)) /\ n = L * (P * (g - 2 * b) + (g - e))
  BY <1>1
<1> HIDE DEF from, to, m, n, d
<1>7. Rounded(m, d) \in Int /\ 2 * m - d <= 2 * (d * Rounded(m, d)) /\ 2 * (d * Rounded(m, d)) <= 2 * m + d
  BY <1>4, <1>5, RoundedBounds
<1>8. Rounded(n, d) \in Int /\ 2 * n - d <= 2 * (d * Rounded(n, d)) /\ 2 * (d * Rounded(n, d)) <= 2 * n + d
  BY <1>4, <1>5, RoundedBounds
<1>9. ASSUME NEW k \in Int, NEW r \in Int, NEW q \in Int, q = L * k,
             2 * q - d <= 2 * (d * r), 2 * (d * r) <= 2 * q + d
      PROVE  Scaled(S, L, P, k, r)
  BY <1>1, <1>5, <1>9 DEF Scaled
<1>10. P * (e - 2 * b) - (g - e) \in Int /\ P * (g - 2 * b) + (g - e) \in Int
  BY <1>1
<1>11. Scaled(S, L, P, P * (e - 2 * b) - (g - e), Rounded(m, d))
  BY <1>4, <1>6, <1>7, <1>9, <1>10, Zenon
<1>12. Scaled(S, L, P, P * (g - 2 * b) + (g - e), Rounded(n, d))
  BY <1>4, <1>6, <1>8, <1>9, <1>10, Zenon
<1> QED
  BY <1>3, <1>7, <1>8, <1>11, <1>12, Zenon DEF S, L, P, e, g

\* What the crop of a box says of pixel i of the picture.
LEMMA CropOfPixel ==
  ASSUME 2 * MaxDim <= 5 * Size, PicFits, NEW a \in Axes, Taken(a) > 0, box[a] \in Spans,
         NEW i \in 0..pic[a] - 1, NEW k, k = Cropped(a, box[a])
  PROVE  /\ k[1] \in Int /\ k[2] \in Int
         /\ InBox(a, i) => k[1] <= i + 1 /\ i <= k[2]
         /\ k[1] <= i /\ i < k[2] => \E d \in {-1, 0, 1} : NearBox(a, i + d)
<1> DEFINE S == Size
           L == Longer(pic)
           p == pic[a]
           T == Taken(a)
           P == PadPart
           b == Begin(a)
           e == box[a][1]
           g == box[a][2]
           pad == g - e
           Q == P * (e - 2 * b) - pad
           W == P * (g - 2 * b) + pad
<1>1. Takes(S, L, p, T)
  BY PicTakes
<1>2. /\ T \in Nat /\ S \in Nat /\ L \in Nat /\ p \in Nat /\ p > 0 /\ i \in Nat /\ i + 1 <= p
      /\ i \in 0..p - 1
  BY <1>1 DEF Takes
<1>3. P \in Nat /\ P > 0 /\ b \in Int
  BY <1>2, ImageAssumption DEF Begin
<1>4. e \in Int /\ g \in Int /\ pad \in Nat
  <2>1. e \in Edges /\ g \in Edges /\ e <= g
    BY DEF Spans
  <2> HIDE DEF e, g
  <2> QED
    BY <2>1, ImageAssumption
<1>5. PICK low \in Int, high \in Int :
        /\ Scaled(S, L, P, Q, low) /\ Scaled(S, L, P, W, high)
        /\ k[1] = (IF low > 0 THEN low ELSE 0)
        /\ k[2] = (IF high < p THEN high ELSE p)
  BY <1>3, CroppedEdges, Zenon
<1>6. InBox(a, i) <=> e * p <= 2 * (b * p + i * T) /\ 2 * (b * p + (i + 1) * T) <= g * p
  BY DEF InBox, At
<1>7. ASSUME NEW j \in Int
      PROVE  NearBox(a, j) <=> /\ P * (2 * (b * p + (j + 1) * T)) >= (P * e - pad) * p
                               /\ P * (2 * (b * p + j * T)) <= (P * g + pad) * p
  BY DEF NearBox, At
<1> HIDE DEF S, L, p, T, P, b, e, g
<1>8. InBox(a, i) => (e - 2 * b) * p <= 2 * (i * T) /\ 2 * ((i + 1) * T) <= (g - 2 * b) * p
  <2>1. SUFFICES ASSUME e * p <= 2 * (b * p + i * T), 2 * (b * p + (i + 1) * T) <= g * p
                 PROVE  (e - 2 * b) * p <= 2 * (i * T) /\ 2 * ((i + 1) * T) <= (g - 2 * b) * p
    BY <1>6
  <2> HIDE DEF pad, Q, W
  <2> QED
    BY <1>2, <1>3, <1>4, <2>1
<1>9. ASSUME NEW j \in Int, Q * p <= 2 * (P * (j + 1) * T), 2 * (P * j * T) <= W * p
      PROVE  NearBox(a, j)
  <2>1. P * (2 * (b * p + (j + 1) * T)) >= (P * e - pad) * p
    BY <1>2, <1>3, <1>4, <1>9
  <2>2. P * (2 * (b * p + j * T)) <= (P * g + pad) * p
    BY <1>2, <1>3, <1>4, <1>9
  <2> QED
    BY <1>7, <2>1, <2>2, Zenon
<1>10. e - 2 * b \in Int /\ g - 2 * b \in Int /\ Q \in Int /\ W \in Int
  BY <1>3, <1>4
<1>11. ASSUME InBox(a, i) PROVE k[1] <= i + 1 /\ i <= k[2]
  <2>1. low <= i + 1
    BY <1>1, <1>2, <1>3, <1>4, <1>5, <1>8, <1>10, <1>11, CropBegins, Zenon
  <2>2. i <= high
    BY <1>1, <1>2, <1>3, <1>4, <1>5, <1>8, <1>10, <1>11, CropEnds, Zenon
  <2> QED
    BY <1>2, <1>5, <2>1, <2>2
<1>12. ASSUME k[1] <= i, i < k[2] PROVE \E d \in {-1, 0, 1} : NearBox(a, i + d)
  <2>1. low <= i /\ i + 1 <= high
    BY <1>2, <1>5, <1>12
  <2>2. Q * p <= 2 * (P * (i + 2) * T) /\ 2 * (P * (i - 1) * T) <= W * p
    <3> HIDE DEF Q, W
    <3> QED
      BY <1>1, <1>2, <1>3, <1>5, <1>10, <2>1, CropReaches, Zenon
  <2>3. Q * p <= W * p
    <3>1. Q <= W
      <4>1. e - 2 * b <= g - 2 * b
        BY <1>3, <1>4
      <4>2. (e - 2 * b) * P <= (g - 2 * b) * P
        BY <1>3, <1>10, <4>1, MoreTimes
      <4> HIDE DEF pad
      <4> QED
        BY <1>3, <1>4, <1>10, <4>2
    <3> HIDE DEF Q, W
    <3> QED
      BY <1>2, <1>10, <3>1, MoreTimes
  <2> HIDE DEF Q, W
  <2> DEFINE q == Q * p
             w == W * p
             x(j) == 2 * (P * j * T)
  <2>4. q \in Int /\ w \in Int /\ q <= w /\ \A j \in Int : x(j) \in Int
    BY <1>2, <1>3, <1>10, <2>3
  <2>5. q <= x(i + 2) /\ x(i - 1) <= w
    BY <2>2
  <2>6. i - 1 \in Int /\ i \in Int /\ i + 1 \in Int /\ i + 2 \in Int
    BY <1>2
  <2>7. \A j \in Int : q <= x(j + 1) /\ x(j) <= w => NearBox(a, j)
    BY <1>9
  <2>8. i - 1 + 1 = i /\ i + 1 + 1 = i + 2 /\ i + (-1) = i - 1 /\ i + 0 = i
    BY <1>2
  <2> HIDE DEF q, w, x
  <2>9. CASE q <= x(i)
    <3>1. NearBox(a, i - 1)
      BY <2>5, <2>6, <2>7, <2>8, <2>9, Zenon
    <3> QED
      BY <2>8, <3>1, Zenon
  <2>10. CASE ~(q <= x(i)) /\ q <= x(i + 1)
    <3>1. x(i) <= w
      BY <2>4, <2>6, <2>10
    <3>2. NearBox(a, i)
      BY <2>6, <2>7, <2>10, <3>1, Zenon
    <3> QED
      BY <2>8, <3>2, Zenon
  <2>11. CASE ~(q <= x(i + 1))
    <3>1. x(i + 1) <= w
      BY <2>4, <2>6, <2>11
    <3>2. NearBox(a, i + 1)
      BY <2>5, <2>6, <2>7, <2>8, <3>1, Zenon
    <3> QED
      BY <3>2, Zenon
  <2> QED
    BY <2>9, <2>10, <2>11, Zenon
<1>13. k[1] \in Int /\ k[2] \in Int
  BY <1>2, <1>5
<1> QED
  BY <1>11, <1>12, <1>13, Zenon

-----------------------------------------------------------------------------
(* The thumbnail of a photo.                                               *)

Sized(size) == size \in Sides \X Sides

LEMMA SizedTyped ==
  ASSUME NEW size, Sized(size), NEW a \in Axes
  PROVE  /\ size[a] \in Nat /\ size[a] > 0 /\ size[a] <= Longer(size)
         /\ Longer(size) \in Nat /\ Shorter(size) \in Nat /\ Shorter(size) <= size[a]
<1>1. size[1] \in Nat /\ size[1] > 0 /\ size[2] \in Nat /\ size[2] > 0
  <2>1. size[1] \in Sides /\ size[2] \in Sides
    BY DEF Sized
  <2>2. Sides \subseteq Nat \ {0}
    BY ImageAssumption
  <2> QED
    BY <2>1, <2>2, Positive, Zenon
<1> QED
  BY <1>1 DEF Axes, Longer, Shorter

LEMMA ThumbnailFits ==
  ASSUME NEW size, Sized(size), NEW t \in Thumbnails(size)
  PROVE  t[1] \in Nat \ {0} /\ t[2] \in Nat \ {0} /\ Longer(t) <= MaxDim
<1>1. CASE Longer(size) <= MaxDim
  <2>1. t = size
    BY <1>1 DEF Thumbnails
  <2>2. size[1] \in Nat /\ size[1] > 0 /\ size[2] \in Nat /\ size[2] > 0
    BY SizedTyped DEF Axes
  <2> QED
    BY <1>1, <2>1, <2>2
<1>2. CASE ~(Longer(size) <= MaxDim)
  <2>1. t \in (1..MaxDim) \X (1..MaxDim)
    BY <1>2, Zenon DEF Thumbnails
  <2>2. t[1] \in 1..MaxDim /\ t[2] \in 1..MaxDim
    BY <2>1
  <2> QED
    BY <2>2, ImageAssumption DEF Longer
<1> QED
  BY <1>1, <1>2

\* A side that takes no pixel of the canvas is that of a picture that is more
\* than Size times as long as wide.
LEMMA NothingTaken ==
  ASSUME NEW size, Sized(size), NEW t \in Thumbnails(size), NEW a \in Axes,
         Rounded(t[a] * Size, Longer(t)) = 0
  PROVE  Longer(size) > Size * Shorter(size)
<1> DEFINE u == t[a]
           s == size[a]
           L == Longer(t)
           M == Longer(size)
           m == MaxDim
<1>1. Size \in Nat /\ Size > 0 /\ m \in Nat /\ m > 0
  BY ImageAssumption
<1>2. u \in Nat /\ u > 0 /\ L \in Nat /\ L > 0 /\ L <= m
  BY ThumbnailFits DEF Axes, Longer
<1>3. s \in Nat /\ s > 0 /\ s <= M /\ M \in Nat /\ Shorter(size) \in Nat /\ Shorter(size) <= s
  BY SizedTyped
<1>4. 2 * (u * Size) <= L
  <2> HIDE DEF u, L
  <2>1. u * Size \in Int /\ L \in Int
    BY <1>1, <1>2
  <2>2. 2 * (u * Size) - L <= 2 * (L * Rounded(u * Size, L))
    BY <1>2, <2>1, RoundedBounds, Zenon
  <2>3. Rounded(u * Size, L) = 0
    BY Zenon DEF u, L
  <2> QED
    BY <1>2, <2>1, <2>2, <2>3
<1>5. Size * s < M
  <2>1. CASE M <= m
    <3>1. t = size
      BY <2>1 DEF Thumbnails
    <3>2. u = s /\ L = M
      BY <3>1
    <3> HIDE DEF u, s, L, M, m
    <3>3. u * Size \in Nat /\ u * Size > 0
      BY <1>1, <1>2
    <3> QED
      BY <1>1, <1>3, <1>4, <3>2, <3>3
  <2>2. CASE ~(M <= m)
    <3>1. IF s = M THEN u = m
          ELSE \/ u \in (m * s) \div M .. -((-m * s) \div M)
               \/ u = 1 /\ m * s < M
      BY <2>2, Zenon DEF Thumbnails
    <3> HIDE DEF u, s, L, M, m
    <3>2. s # M
      <4>1. ASSUME s = M PROVE FALSE
        <5>1. u = m
          BY <3>1, <4>1
        <5>2. m <= m * Size
          BY <1>1
        <5> QED
          BY <1>1, <1>2, <1>4, <5>1, <5>2
      <4> QED
        BY <4>1
    <3>3. m * s < M * (u + 1)
      <4>1. CASE u = 1 /\ m * s < M
        BY <1>1, <1>3, <4>1
      <4>2. CASE u \in (m * s) \div M .. -((-m * s) \div M)
        <5> DEFINE f == (m * s) \div M
                   r == (m * s) % M
        <5>1. m * s \in Int /\ M \in Int /\ M > 0
          BY <1>1, <1>3
        <5>2. f \in Int /\ r \in Int /\ m * s - M * f = r /\ r < M
          BY <5>1, Division, Zenon
        <5>3. f <= u
          <6>1. -((-m * s) \div M) \in Int
            <7>1. -m * s \in Int
              BY <1>1, <1>3
            <7>2. (-m * s) \div M \in Int
              BY <5>1, <7>1, Division, Zenon
            <7> QED
              BY <7>2
          <6> HIDE DEF f
          <6> QED
            BY <4>2, <5>2, <6>1 DEF f
        <5> HIDE DEF f, r
        <5>4. M * f <= M * u
          <6>1. f * M <= u * M
            BY <1>2, <1>3, <5>2, <5>3, MoreTimes
          <6> QED
            BY <1>2, <1>3, <5>2, <6>1
        <5> QED
          BY <1>2, <5>1, <5>2, <5>4
      <4> QED
        BY <3>1, <3>2, <4>1, <4>2
    <3>4. m * s < 2 * (u * M)
      <4>1. M <= u * M
        BY <1>2, <1>3
      <4> QED
        BY <1>1, <1>2, <1>3, <3>3, <4>1
    <3>5. (m * s) * Size < (2 * (u * M)) * Size
      <4>1. m * s \in Int /\ 2 * (u * M) \in Int
        BY <1>1, <1>2, <1>3
      <4> QED
        BY <1>1, <3>4, <4>1
    <3>6. (2 * (u * Size)) * M <= m * M
      <4>1. 2 * (u * Size) \in Int /\ m \in Int /\ 2 * (u * Size) <= m
        BY <1>1, <1>2, <1>4
      <4> QED
        BY <1>3, <4>1, MoreTimes
    <3>7. (Size * s) * m < M * m
      BY <1>1, <1>2, <1>3, <3>5, <3>6
    <3> QED
      BY <1>1, <1>3, <3>7
  <2> QED
    BY <2>1, <2>2
<1> HIDE DEF s, M
<1>6. Size * Shorter(size) <= Size * s
  BY <1>1, <1>3
<1>7. Longer(size) = M /\ Size * Shorter(size) \in Nat /\ Size * s \in Nat
  BY <1>1, <1>3 DEF M
<1> QED
  BY <1>3, <1>5, <1>6, <1>7

-----------------------------------------------------------------------------
(* The invariant of an image: a picture is the thumbnail of its photo, and *)
(* a crop is that of its box.                                              *)

Framed ==
  /\ PicFits
  /\ \A a \in Axes : Taken(a) > 0 /\ box[a] \in Spans

Keeps(a) == Cropped(a, box[a])[1] < Cropped(a, box[a])[2]

ImageInv ==
  /\ fate # "open" => stage = "done"
  /\ stage = "detect" => Sized(photo) /\ pic \in Thumbnails(photo)
  /\ OnlyThreadsVanish
  /\ fate = "cropped" => Framed /\ \A a \in Axes : crop[a] = Cropped(a, box[a])
  /\ fate = "permanent" /\ met = "box" => Framed /\ \E a \in Axes : ~Keeps(a)

LEMMA DownloadStep == ImageInv /\ Download => ImageInv'
<1> SUFFICES ASSUME ImageInv, Download PROVE ImageInv'
  OBVIOUS
<1>1. stage = "download" /\ fate = "open"
  BY Zenon DEF ImageInv, Download
<1>2. \/ stage' = "done" /\ fate' = "requeue"
      \/ stage' = "done" /\ fate' = "permanent" /\ met' # "box"
      \/ stage' = "done" /\ fate' = "uncaught"
      \/ stage' = "preprocess" /\ fate' = "open"
  BY <1>1, Zenon DEF Download, Ends, Passes, ClientErrors, Success
<1>3. met' # "thread"
  BY Zenon DEF Download, Ends, Passes, ServerErrors, ClientErrors, Redirects, Success
<1> QED
  BY <1>2, <1>3, Zenon DEF ImageInv, OnlyThreadsVanish

LEMMA PreprocessStep == ImageInv /\ Preprocess => ImageInv'
<1> SUFFICES ASSUME ImageInv, Preprocess PROVE ImageInv'
  OBVIOUS
<1>1. stage = "preprocess" /\ fate = "open"
  BY Zenon DEF ImageInv, Preprocess
<1>2. \/ /\ stage' = "detect" /\ fate' = "open"
         /\ photo' \in Sides \X Sides /\ pic' \in Thumbnails(photo')
      \/ stage' = "done" /\ fate' = "permanent" /\ met' = "junk"
      \/ stage' = "done" /\ fate' = "uncaught"
  BY <1>1, Zenon DEF Preprocess, Ends, Passes
<1>3. met' # "thread"
  BY Zenon DEF Preprocess, Ends, Passes
<1> QED
  BY <1>2, <1>3, Zenon DEF ImageInv, OnlyThreadsVanish, Sized

LEMMA DetectStep == ImageInv /\ Detect => ImageInv'
<1> SUFFICES ASSUME ImageInv, Detect PROVE ImageInv'
  OBVIOUS
<1>1. Sized(photo) /\ pic \in Thumbnails(photo) /\ photo' = photo /\ pic' = pic
  BY Zenon DEF ImageInv, Detect
<1>2. PicFits
  BY <1>1, ThumbnailFits, Zenon DEF PicFits
<1>3. CASE (\E a \in Axes : Taken(a) = 0) /\ Ends("thread", "uncaught")
  <2>1. PICK a \in Axes : Taken(a) = 0
    BY <1>3
  <2>2. Longer(photo) > Size * Shorter(photo)
    BY <1>1, <2>1, NothingTaken, Zenon DEF Taken
  <2> QED
    BY <1>1, <1>3, <2>2, Zenon DEF ImageInv, OnlyThreadsVanish, Longer, Shorter, Ends
<1>4. CASE \/ Ends("unavailable", "requeue")
           \/ \E reply \in {"no tensor", "no numbers"} : Ends(reply, "uncaught")
  BY <1>4, Zenon DEF ImageInv, OnlyThreadsVanish, Ends
<1>5. CASE \E reply \in {"other shape", "unsure"} : Ends(reply, "permanent")
  BY <1>5, Zenon DEF ImageInv, OnlyThreadsVanish, Ends
<1>6. CASE /\ \A a \in Axes : Taken(a) > 0
           /\ \E spans \in Spans \X Spans :
                LET found == [a \in Axes |-> Cropped(a, spans[a])]
                IN  /\ box' = spans
                    /\ IF \A a \in Axes : found[a][1] < found[a][2]
                       THEN crop' = found /\ Ends("box", "cropped")
                       ELSE Ends("box", "permanent") /\ UNCHANGED crop
  <2>1. PICK spans \in Spans \X Spans :
          /\ box' = spans
          /\ \/ /\ crop' = [a \in Axes |-> Cropped(a, spans[a])]
                /\ Ends("box", "cropped")
             \/ /\ ~\A a \in Axes : Cropped(a, spans[a])[1] < Cropped(a, spans[a])[2]
                /\ Ends("box", "permanent")
    BY <1>6, Zenon
  <2>2. \A a \in Axes : spans[a] \in Spans
    BY DEF Axes
  <2>3. Framed'
    BY <1>1, <1>2, <1>6, <2>1, <2>2, Zenon DEF Framed, PicFits, Taken, Longer
  <2>4. \A a \in Axes : Cropped(a, box[a])' = Cropped(a, spans[a])
    <3>1. Longer(pic)' = Longer(pic)
      BY <1>1
    <3>2. \A a \in Axes : Begin(a)' = Begin(a)
      BY <1>1 DEF Begin, Taken
    <3>3. \A a \in Axes : box'[a] = spans[a]
      BY <2>1, Zenon
    <3> QED
      BY <1>1, <3>1, <3>2, <3>3, Zenon DEF Cropped, Back
  <2>5. CASE crop' = [a \in Axes |-> Cropped(a, spans[a])] /\ Ends("box", "cropped")
    <3>1. \A a \in Axes : crop'[a] = Cropped(a, box[a])'
      BY <2>4, <2>5, Zenon
    <3> QED
      BY <2>3, <2>5, <3>1, Zenon DEF ImageInv, OnlyThreadsVanish, Ends
  <2>6. CASE /\ ~\A a \in Axes : Cropped(a, spans[a])[1] < Cropped(a, spans[a])[2]
             /\ Ends("box", "permanent")
    <3>1. \E a \in Axes : ~Keeps(a)'
      BY <2>4, <2>6, Zenon DEF Keeps
    <3> QED
      BY <2>3, <2>6, <3>1, Zenon DEF ImageInv, OnlyThreadsVanish, Ends
  <2> QED
    BY <2>1, <2>5, <2>6, Zenon
<1> QED
  BY <1>3, <1>4, <1>5, <1>6, Zenon DEF Detect

LEMMA ImageStutters == ImageInv /\ UNCHANGED image => ImageInv'
<1> SUFFICES ASSUME ImageInv, UNCHANGED image PROVE ImageInv'
  OBVIOUS
<1>1. /\ stage' = stage /\ met' = met /\ photo' = photo /\ pic' = pic
      /\ box' = box /\ crop' = crop /\ fate' = fate
  BY DEF image
<1>2. \A a \in Axes : Cropped(a, box[a])' = Cropped(a, box[a])
  <2>1. Longer(pic)' = Longer(pic)
    BY <1>1
  <2>2. \A a \in Axes : Begin(a)' = Begin(a)
    BY <1>1 DEF Begin, Taken
  <2> QED
    BY <1>1, <2>1, <2>2, Zenon DEF Cropped, Back
<1>3. Framed' <=> Framed
  BY <1>1, Zenon DEF Framed, PicFits, Taken, Longer
<1>4. OnlyThreadsVanish' <=> OnlyThreadsVanish
  BY <1>1, Zenon DEF OnlyThreadsVanish, Longer, Shorter
<1> QED
  BY <1>1, <1>2, <1>3, <1>4, Zenon DEF ImageInv, Keeps

LEMMA ImageInductive == ImageInv /\ [ImageNext]_image => ImageInv'
BY DownloadStep, PreprocessStep, DetectStep, ImageStutters, Zenon DEF ImageNext

\* The crop of a framed box.
LEMMA CropsAreRight ==
  ASSUME 2 * MaxDim <= 5 * Size, ImageInv
  PROVE  CropShowsBox
<1>1. ASSUME fate = "cropped", NEW a \in Axes, NEW i \in 0..pic[a] - 1
      PROVE  /\ InBox(a, i) => crop[a][1] - Blur <= i /\ i < crop[a][2] + Blur
             /\ crop[a][1] <= i /\ i < crop[a][2] =>
                  \E d \in -Blur..Blur : NearBox(a, i + d)
  <2>1. Framed /\ crop[a] = Cropped(a, box[a])
    BY <1>1, Zenon DEF ImageInv
  <2> DEFINE k == crop[a]
  <2>2. /\ k[1] \in Int /\ k[2] \in Int
        /\ InBox(a, i) => k[1] <= i + 1 /\ i <= k[2]
        /\ k[1] <= i /\ i < k[2] => \E d \in {-1, 0, 1} : NearBox(a, i + d)
    BY <2>1, CropOfPixel, Zenon DEF Framed
  <2> HIDE DEF k
  <2>3. i \in Int
    OBVIOUS
  <2>4. {-1, 0, 1} = -Blur..Blur
    BY DEF Blur
  <2>5. InBox(a, i) => k[1] - Blur <= i /\ i < k[2] + Blur
    <3>1. k[1] <= i + 1 /\ i <= k[2] => k[1] - Blur <= i /\ i < k[2] + Blur
      BY <2>2, <2>3 DEF Blur
    <3> QED
      BY <2>2, <3>1, Zenon
  <2> QED
    BY <2>2, <2>4, <2>5, Zenon DEF k
<1>2. ASSUME fate = "permanent", met = "box"
      PROVE  \E a \in Axes :
               ~\E i \in 0..pic[a] - 1 - 2 * Blur : InBox(a, i) /\ InBox(a, i + 2 * Blur)
  <2>1. PICK a \in Axes : ~Keeps(a)
    BY <1>2, Zenon DEF ImageInv
  <2>2. Framed
    BY <1>2, Zenon DEF ImageInv
  <2>3. ASSUME NEW i \in 0..pic[a] - 1 - 2 * Blur, InBox(a, i), InBox(a, i + 2 * Blur) PROVE FALSE
    <3> DEFINE k == Cropped(a, box[a])
               j == i + 2 * Blur
    <3>1. pic[a] \in Nat
      BY <2>2, LongerTyped DEF Framed
    <3>2. i \in 0..pic[a] - 1 /\ j \in 0..pic[a] - 1 /\ j = i + 2
      BY <3>1 DEF Blur
    <3>3. k[1] \in Int /\ k[2] \in Int /\ k[1] <= i + 1
      BY <2>2, <2>3, <3>2, CropOfPixel, Zenon DEF Framed
    <3>4. j <= k[2]
      BY <2>2, <2>3, <3>2, CropOfPixel, Zenon DEF Framed
    <3>5. ~(k[1] < k[2])
      BY <2>1, Zenon DEF Keeps
    <3> HIDE DEF k, j
    <3> QED
      BY <3>1, <3>2, <3>3, <3>4, <3>5
  <2> QED
    BY <2>3, Zenon
<1> QED
  BY <1>1, <1>2, Zenon DEF CropShowsBox

-----------------------------------------------------------------------------
(* Digits: a sequence of them says the same with zeros at its outer end.   *)

LEMMA DigitsTyped ==
  /\ Digits \subseteq Nat /\ MaxWhole \in Nat /\ MaxWhole > 0 /\ MaxFraction \in Nat
<1>1. Digits \subseteq 0..9 /\ MaxWhole \in Nat \ {0} /\ MaxFraction \in 0..4
  BY NormalizersAssumption, Zenon
<1> QED
  BY <1>1

LEMMA DigitsOf ==
  ASSUME NEW n \in Nat, NEW f \in [1..n -> Digits]
  PROVE  f \in Seq(Nat) /\ Len(f) = n
<1>1. f \in Seq(Digits) /\ Len(f) = n
  OBVIOUS
<1>2. f \in [1..n -> Nat]
  BY DigitsTyped
<1> QED
  BY <1>1, <1>2

LEMMA FractionTyped ==
  ASSUME NEW f \in Fractions
  PROVE  f \in Seq(Nat) /\ Len(f) \in Nat /\ Len(f) <= MaxFraction
<1>1. PICK n \in 0..MaxFraction : f \in [1..n -> Digits]
  BY DEF Fractions
<1>2. n \in Nat /\ n <= MaxFraction
  BY DigitsTyped
<1> QED
  BY <1>1, <1>2, DigitsOf, Zenon

LEMMA WholeTyped ==
  ASSUME NEW w \in Wholes
  PROVE  w \in Seq(Nat) /\ Len(w) \in Nat /\ Len(w) <= MaxWhole
<1>1. PICK n \in 1..MaxWhole : w \in [1..n -> Digits]
  BY DEF Wholes
<1>2. n \in Nat /\ n <= MaxWhole
  BY DigitsTyped
<1> QED
  BY <1>1, <1>2, DigitsOf, Zenon

\* t is f without the zeros at its end.
Trims(f, t) ==
  /\ t \in Seq(Nat) /\ Len(t) <= Len(f)
  /\ \A i \in 1..Len(t) : t[i] = f[i]
  /\ Len(t) > 0 => t[Len(t)] # 0
  /\ \A i \in Len(t) + 1..Len(f) : f[i] = 0

LEMMA BeginOfDigits ==
  ASSUME NEW f \in Seq(Nat), NEW n \in 0..Len(f)
  PROVE  /\ SubSeq(f, 1, n) \in Seq(Nat) /\ Len(SubSeq(f, 1, n)) = n
         /\ \A i \in 1..n : SubSeq(f, 1, n)[i] = f[i]
OBVIOUS

LEMMA TrimmedTrims ==
  ASSUME NEW f \in Seq(Nat)
  PROVE  Trims(f, Trimmed(f))
<1> DEFINE Cut(k) == /\ k > 0 => f[k] # 0
                     /\ \A i \in k + 1..Len(f) : f[i] = 0
           Ends0 == {n \in 0..Len(f) : \A i \in n + 1..Len(f) : f[i] = 0}
<1>0. Len(f) \in Nat
  OBVIOUS
<1>1. PICK n \in Ends0 : \A m \in Ends0 : n <= m
  <2>1. Ends0 \in SUBSET Nat
    OBVIOUS
  <2>2. Len(f) \in Ends0
    BY <1>0
  <2> HIDE DEF Ends0
  <2> QED
    BY <2>1, <2>2, LeastExists
<1>2. n \in 0..Len(f) /\ n \in Nat /\ \A i \in n + 1..Len(f) : f[i] = 0
  BY <1>0
<1>3. n > 0 => f[n] # 0
  <2>1. SUFFICES ASSUME n > 0, f[n] = 0 PROVE FALSE
    BY Zenon
  <2>2. n - 1 \in 0..Len(f) /\ ~(n <= n - 1) /\ \A i \in n - 1 + 1..Len(f) : i = n \/ i \in n + 1..Len(f)
    BY <1>0, <1>2, <2>1
  <2>3. n - 1 \in Ends0
    BY <1>2, <2>1, <2>2, Zenon
  <2> HIDE DEF Ends0
  <2> QED
    BY <1>1, <2>2, <2>3, Zenon
<1> DEFINE k == Significant(f)
<1>4. k \in 0..Len(f) /\ Cut(k)
  <2>1. k = CHOOSE j \in 0..Len(f) : Cut(j)
    BY Zenon DEF Significant
  <2>2. Cut(n)
    BY <1>2, <1>3, Zenon
  <2> HIDE DEF Cut, k
  <2> QED
    BY <1>2, <2>1, <2>2, Zenon
<1>5. Trimmed(f) = SubSeq(f, 1, k)
  BY Zenon DEF Trimmed
<1> HIDE DEF k
<1> DEFINE t == SubSeq(f, 1, k)
<1>6. t \in Seq(Nat) /\ Len(t) = k /\ \A i \in 1..k : t[i] = f[i]
  BY <1>4, BeginOfDigits, Zenon
<1> HIDE DEF t
<1>7. k \in Nat /\ k <= Len(f) /\ (k > 0 => k \in 1..k)
  BY <1>0, <1>4
<1>8. Trims(f, t)
  BY <1>4, <1>6, <1>7, Zenon DEF Trims
<1> QED
  BY <1>5, <1>8, Zenon DEF t

\* What trims digits pads to the same digits.
LEMMA TrimsPads ==
  ASSUME NEW f \in Seq(Nat), NEW t, Trims(f, t), NEW n \in Nat
  PROVE  Padded(t, n) = Padded(f, n)
<1>1. Len(f) \in Nat /\ Len(t) \in Nat /\ Len(t) <= Len(f)
  BY DEF Trims
<1>2. ASSUME NEW i \in 1..n
      PROVE  (IF i <= Len(t) THEN t[i] ELSE 0) = (IF i <= Len(f) THEN f[i] ELSE 0)
  <2>1. i \in Nat /\ i >= 1
    OBVIOUS
  <2>2. CASE i <= Len(t)
    <3>1. i \in 1..Len(t) /\ i <= Len(f)
      BY <1>1, <2>1, <2>2
    <3> QED
      BY <2>2, <3>1, Zenon DEF Trims
  <2>3. CASE ~(i <= Len(t)) /\ i <= Len(f)
    <3>1. i \in Len(t) + 1..Len(f)
      BY <1>1, <2>1, <2>3
    <3> QED
      BY <2>3, <3>1, Zenon DEF Trims
  <2>4. i <= Len(t) => i <= Len(f)
    BY <1>1, <2>1
  <2> QED
    BY <2>2, <2>3, <2>4, Zenon
<1> QED
  BY <1>2, Zenon DEF Padded

\* The places of digits that are padded alike.
LEMMA PaddedAlike ==
  ASSUME NEW f, NEW g, NEW n \in Nat, Padded(f, n) = Padded(g, n), NEW i \in 1..n
  PROVE  (IF i <= Len(f) THEN f[i] ELSE 0) = (IF i <= Len(g) THEN g[i] ELSE 0)
<1>1. Padded(f, n)[i] = Padded(g, n)[i]
  OBVIOUS
<1> QED
  BY <1>1, Zenon DEF Padded

\* Digits of one length that are padded alike are the same.
LEMMA PaddedOnce ==
  ASSUME NEW f \in Seq(Nat), NEW g \in Seq(Nat), NEW n \in Nat, Len(f) <= n,
         Len(f) = Len(g), Padded(f, n) = Padded(g, n)
  PROVE  f = g
<1>1. ASSUME NEW i \in 1..Len(f) PROVE f[i] = g[i]
  <2>1. i \in 1..n /\ i <= Len(f)
    OBVIOUS
  <2> QED
    BY <2>1, PaddedAlike, Zenon
<1> QED
  BY <1>1, SeqEqual, Zenon

\* Digits that are padded alike are trimmed to the same ones.
LEMMA TrimsOnce ==
  ASSUME NEW f \in Seq(Nat), NEW g \in Seq(Nat), NEW n \in Nat, Len(f) <= n, Len(g) <= n,
         Padded(f, n) = Padded(g, n), NEW t, Trims(f, t), NEW u, Trims(g, u)
  PROVE  t = u
<1>1. Padded(t, n) = Padded(u, n)
  BY TrimsPads, Zenon
<1>2. /\ Len(t) \in Nat /\ Len(t) <= n /\ Len(u) \in Nat /\ Len(u) <= n
      /\ t \in Seq(Nat) /\ u \in Seq(Nat)
  BY DEF Trims
<1>3. ASSUME NEW v, NEW w, v \in Seq(Nat), w \in Seq(Nat), Padded(v, n) = Padded(w, n), Len(w) <= n,
             Len(w) > 0 => w[Len(w)] # 0
      PROVE  ~(Len(v) < Len(w))
  <2>1. SUFFICES ASSUME Len(v) < Len(w) PROVE FALSE
    OBVIOUS
  <2>2. Len(w) > 0 /\ Len(w) \in 1..n /\ ~(Len(w) <= Len(v)) /\ Len(w) <= Len(w)
    BY <1>3, <2>1
  <2>3. w[Len(w)] = 0
    BY <1>3, <2>2, PaddedAlike, Zenon
  <2> QED
    BY <1>3, <2>2, <2>3, Zenon
<1>4. (Len(t) > 0 => t[Len(t)] # 0) /\ (Len(u) > 0 => u[Len(u)] # 0)
  BY Zenon DEF Trims
<1>5. ~(Len(t) < Len(u)) /\ ~(Len(u) < Len(t))
  BY <1>1, <1>2, <1>3, <1>4, Zenon
<1>6. Len(t) = Len(u)
  BY <1>2, <1>5
<1> QED
  BY <1>1, <1>2, <1>6, PaddedOnce, Zenon

LEMMA ZeroPads ==
  ASSUME NEW f \in Seq(Nat), NEW n \in Nat
  PROVE  /\ IsZero(f) => Padded(f, n) = [i \in 1..n |-> 0]
         /\ Len(f) <= n /\ Padded(f, n) = [i \in 1..n |-> 0] => IsZero(f)
<1>1. Len(f) \in Nat
  OBVIOUS
<1>2. ASSUME IsZero(f) PROVE Padded(f, n) = [i \in 1..n |-> 0]
  <2>1. ASSUME NEW i \in 1..n PROVE (IF i <= Len(f) THEN f[i] ELSE 0) = 0
    <3>1. i <= Len(f) => i \in 1..Len(f)
      BY <1>1
    <3> QED
      BY <1>2, <3>1, Zenon DEF IsZero
  <2> QED
    BY <2>1, Zenon DEF Padded
<1>3. ASSUME Len(f) <= n, Padded(f, n) = [i \in 1..n |-> 0] PROVE IsZero(f)
  <2>1. ASSUME NEW i \in 1..Len(f) PROVE f[i] = 0
    <3>1. i \in 1..n /\ i <= Len(f)
      BY <1>1, <1>3
    <3>2. Padded(f, n)[i] = 0
      BY <1>3, <3>1, Zenon
    <3> QED
      BY <3>1, <3>2, Zenon DEF Padded
  <2> QED
    BY <2>1, Zenon DEF IsZero
<1> QED
  BY <1>2, <1>3

LEMMA ZerosTrim ==
  ASSUME NEW f \in Seq(Nat), NEW t, Trims(f, t)
  PROVE  IsZero(t) <=> IsZero(f)
<1>1. Len(f) \in Nat /\ Len(t) \in Nat
  BY DEF Trims
<1>2. Padded(t, Len(f)) = Padded(f, Len(f)) /\ Len(t) <= Len(f) /\ t \in Seq(Nat)
  BY <1>1, TrimsPads, Zenon DEF Trims
<1>3. Len(f) <= Len(f)
  BY <1>1
<1> QED
  BY <1>1, <1>2, <1>3, ZeroPads, Zenon

\* What is shown of the digits in front of the point says the same.
LEMMA ShownWhole ==
  ASSUME NEW f \in Seq(Nat), NEW n \in Nat
  PROVE  /\ Padded(ShowWhole(f), n) = Padded(f, n)
         /\ IsZero(ShowWhole(f)) <=> IsZero(f)
<1>1. CASE IsZero(f)
  <2>1. ShowWhole(f) = <<0>>
    BY <1>1, Zenon DEF ShowWhole
  <2>2. <<0>> \in Seq(Nat)
    OBVIOUS
  <2>3. IsZero(<<0>>)
    BY DEF IsZero
  <2> QED
    BY <1>1, <2>1, <2>2, <2>3, ZeroPads, Zenon
<1>2. CASE ~IsZero(f)
  <2>1. ShowWhole(f) = Trimmed(f)
    BY <1>2, Zenon DEF ShowWhole
  <2> QED
    BY <2>1, TrimmedTrims, TrimsPads, ZerosTrim, Zenon
<1> QED
  BY <1>1, <1>2, Zenon

LEMMA SameShown ==
  ASSUME NEW f \in Seq(Nat), NEW g \in Seq(Nat), NEW n \in Nat, Len(f) <= n, Len(g) <= n,
         Padded(f, n) = Padded(g, n)
  PROVE  /\ IsZero(f) <=> IsZero(g)
         /\ Trimmed(f) = Trimmed(g)
         /\ ShowWhole(f) = ShowWhole(g)
<1>1. IsZero(f) <=> IsZero(g)
  BY ZeroPads, Zenon
<1>2. Trimmed(f) = Trimmed(g)
  BY TrimmedTrims, TrimsOnce, Zenon
<1> QED
  BY <1>1, <1>2, Zenon DEF ShowWhole

-----------------------------------------------------------------------------
(* What the normalised texts say.                                          *)

Words == {NaN, Infinity, Letters, Blank, Raises, Pending}

\* A record with another field is no word.
LEMMA NoWord ==
  ASSUME NEW r, "word" \notin DOMAIN r
  PROVE  r \notin Words
BY DEF Words, NaN, Infinity, Letters, Blank, Raises, Pending

LEMMA WordsDiffer ==
  /\ Blank # Letters /\ Blank # NaN /\ Blank # Infinity /\ Blank # Raises /\ Blank # Pending
  /\ Letters # NaN /\ Letters # Infinity /\ Letters # Raises /\ Letters # Pending
  /\ Raises # Pending /\ Raises # NaN /\ Raises # Infinity
<1>1. /\ NaN.word = "nan" /\ Infinity.word = "inf" /\ Letters.word = "letters"
      /\ Blank.word = "blank" /\ Raises.word = "raises" /\ Pending.word = "pending"
  BY DEF NaN, Infinity, Letters, Blank, Raises, Pending
<1> QED
  BY <1>1

LEMMA NumberTyped ==
  ASSUME NEW q \in Numbers
  PROVE  /\ q.whole \in Wholes /\ q.fraction \in Fractions /\ q.unit \in BOOLEAN
         /\ q.sign \in {"none", "minus"} /\ q.sep \in {"none", "dot", "comma"}
         /\ q.sep = "none" <=> q.fraction = <<>>
         /\ q \notin Words
<1>1. q \in [sign : {"none", "minus"}, whole : Wholes, sep : {"none", "dot", "comma"},
             fraction : Fractions, unit : BOOLEAN]
  BY DEF Numbers
<1>2. "word" \notin DOMAIN q
  BY <1>1
<1> QED
  BY <1>1, <1>2, NoWord DEF Numbers

LEMMA MoneyTyped ==
  ASSUME NEW m \in Money
  PROVE  m.sign \in Signs /\ m.whole \in Wholes /\ m \notin Words
<1>1. "word" \notin DOMAIN m
  BY DEF Money
<1> QED
  BY <1>1, NoWord DEF Money

LEMMA DateTyped ==
  ASSUME NEW d \in Dates
  PROVE  d.form \in DateForms /\ d \notin Words
<1>1. "word" \notin DOMAIN d
  BY DEF Dates
<1> QED
  BY <1>1, NoWord DEF Dates

\* What a text of each kind says.
LEMMA WordsSay ==
  ASSUME NEW f, NEW t, t = Blank \/ (t = Letters /\ f # "date")
  PROVE  Amount(f, t) = <<>> /\ ~Negative(f, t)
<1>1. t \in {Blank, Letters} /\ (f = "date" => t = Blank)
  BY Zenon
<1>2. Amount(f, t) = <<>>
  BY <1>1 DEF Amount
<1>3. ~Negative(f, t)
  BY <1>1, Zenon DEF Negative
<1> QED
  BY <1>2, <1>3

LEMMA NumberSays ==
  ASSUME NEW t, t \notin Words
  PROVE  /\ Amount("quantity", t) = <<Padded(t.whole, MaxWhole), Padded(t.fraction, MaxFraction)>>
         /\ Negative("quantity", t) <=> t.sign # "none" /\ ~(IsZero(t.whole) /\ IsZero(t.fraction))
<1>1. t \notin {Blank, Letters} /\ t # Blank
  BY Zenon DEF Words
<1> DEFINE a == Padded(t.whole, MaxWhole)  b == Padded(t.fraction, MaxFraction)
<1>2. Amount("quantity", t) = <<a, b>>
  <2> HIDE DEF a, b
  <2>1. Amount("quantity", t) =
          CASE t \in {Blank, Letters} -> <<>>
            [] "quantity" = "quantity" /\ t \notin {Blank, Letters} -> <<a, b>>
            [] "quantity" = "money" /\ t \notin {Blank, Letters} -> <<a>>
            [] "quantity" = "date" /\ t # Blank /\ t.form = "other" -> <<t>>
            [] "quantity" = "date" /\ t # Blank /\ t.form = "iso" ->
                 <<t.parts[3], t.parts[2], t.parts[1]>>
            [] "quantity" = "date" /\ t # Blank /\ t.form \notin {"other", "iso"} ->
                 <<t.parts[1], t.parts[2], t.parts[3]>>
    BY DEF Amount, a, b
  <2> QED
    BY <1>1, <2>1
<1>3. Negative("quantity", t) <=> t.sign # "none" /\ ~(IsZero(t.whole) /\ IsZero(t.fraction))
  <2>1. "quantity" # "date"
    OBVIOUS
  <2> QED
    BY <1>1, <2>1, Zenon DEF Negative
<1> QED
  BY <1>2, <1>3, Zenon

LEMMA MoneySays ==
  ASSUME NEW t, t \notin Words
  PROVE  /\ Amount("money", t) = <<Padded(t.whole, MaxWhole)>>
         /\ Negative("money", t) <=> t.sign # "none" /\ ~IsZero(t.whole)
<1>1. t \notin {Blank, Letters} /\ t # Blank
  BY Zenon DEF Words
<1> DEFINE a == Padded(t.whole, MaxWhole)  b == Padded(t.fraction, MaxFraction)
<1>2. Amount("money", t) = <<a>>
  <2> HIDE DEF a, b
  <2>1. Amount("money", t) =
          CASE t \in {Blank, Letters} -> <<>>
            [] "money" = "quantity" /\ t \notin {Blank, Letters} -> <<a, b>>
            [] "money" = "money" /\ t \notin {Blank, Letters} -> <<a>>
            [] "money" = "date" /\ t # Blank /\ t.form = "other" -> <<t>>
            [] "money" = "date" /\ t # Blank /\ t.form = "iso" ->
                 <<t.parts[3], t.parts[2], t.parts[1]>>
            [] "money" = "date" /\ t # Blank /\ t.form \notin {"other", "iso"} ->
                 <<t.parts[1], t.parts[2], t.parts[3]>>
    BY DEF Amount, a, b
  <2> QED
    BY <1>1, <2>1
<1>3. Negative("money", t) <=> t.sign # "none" /\ ~IsZero(t.whole)
  <2>1. "money" # "date" /\ "money" # "quantity"
    OBVIOUS
  <2> QED
    BY <1>1, <2>1, Zenon DEF Negative
<1> QED
  BY <1>2, <1>3, Zenon

\* Only amounts show more than they say.
LEMMA ShowsNothing ==
  ASSUME NEW f, NEW t, f # "money" \/ t \in Words
  PROVE  Shown(f, t) = <<>>
<1>1. t \in Words => t \notin Money
  BY MoneyTyped, Zenon
<1> QED
  BY <1>1, Zenon DEF Shown

\* Fields are normalised each by its own function.
LEMMA NormalizedIs ==
  /\ \A t : Normalized("quantity", t) = _normalize_quantity(t)
  /\ \A t : Normalized("money", t) = _normalize_money(t)
  /\ \A t : Normalized("date", t) = _normalize_date(t)
  /\ Printed("quantity") = Numbers \union {NaN, Infinity, Letters}
  /\ Printed("money") = Money \union {Letters}
  /\ Printed("date") = Dates
<1>1. \A t : Normalized("quantity", t) = _normalize_quantity(t)
  BY DEF Normalized
<1>2. \A t : Normalized("money", t) = _normalize_money(t)
  BY DEF Normalized
<1>3. \A t : Normalized("date", t) = _normalize_date(t)
  BY DEF Normalized
<1>4. Printed("quantity") = Numbers \union {NaN, Infinity, Letters}
  BY DEF Printed
<1>5. Printed("money") = Money \union {Letters}
  BY DEF Printed
<1>6. Printed("date") = Dates
  BY DEF Printed
<1> QED
  BY <1>1, <1>2, <1>3, <1>4, <1>5, <1>6, Zenon

-----------------------------------------------------------------------------
(* Quantities.                                                             *)

LEMMA QuantityBecomes ==
  /\ _normalize_quantity(Blank) = Blank /\ _normalize_quantity(Letters) = Blank
  /\ _normalize_quantity(NaN) = Raises /\ _normalize_quantity(Infinity) = Raises
  /\ \A q \in Numbers :
       _normalize_quantity(q) = IF q.unit THEN Stripped(q) ELSE ShowFloat(q)
<1>1. \A q \in Numbers : q \notin {Blank, Letters, NaN, Infinity} /\ q.unit \in BOOLEAN
  BY NumberTyped, Zenon DEF Words
<1>2. Blank \notin Numbers /\ Letters \notin Numbers /\ NaN \notin Numbers /\ Infinity \notin Numbers
  BY <1>1, Zenon
<1>3. \A q \in Numbers :
        _normalize_quantity(q) = IF q.unit THEN Stripped(q) ELSE ShowFloat(q)
  BY <1>1 DEF _normalize_quantity
<1>4. _normalize_quantity(Blank) = Blank /\ _normalize_quantity(Letters) = Blank
  BY <1>2, WordsDiffer DEF _normalize_quantity
<1>5. _normalize_quantity(NaN) = Raises /\ _normalize_quantity(Infinity) = Raises
  BY <1>2, WordsDiffer DEF _normalize_quantity
<1> QED
  BY <1>3, <1>4, <1>5, Zenon

\* What a number text is built of.
LEMMA Built0 ==
  ASSUME NEW s, NEW w, NEW f
  PROVE  /\ Number(s, w, f).sign = s /\ Number(s, w, f).whole = w
         /\ Number(s, w, f).fraction = f /\ Number(s, w, f) \notin Words
<1>1. "word" \notin DOMAIN Number(s, w, f)
  BY DEF Number
<1>2. Number(s, w, f).sign = s /\ Number(s, w, f).whole = w /\ Number(s, w, f).fraction = f
  BY DEF Number
<1> QED
  BY <1>1, <1>2, NoWord, Zenon

SignShown(q) == IF IsZero(q.whole) /\ IsZero(q.fraction) THEN "none" ELSE q.sign

LEMMA DigitsOfNumber ==
  ASSUME NEW q \in Numbers
  PROVE  /\ q.whole \in Seq(Nat) /\ Len(q.whole) <= MaxWhole
         /\ q.fraction \in Seq(Nat) /\ Len(q.fraction) <= MaxFraction
         /\ MaxWhole \in Nat /\ MaxFraction \in Nat
BY NumberTyped, WholeTyped, FractionTyped, DigitsTyped, Zenon

\* A float says what its text said.
LEMMA ShownDigits ==
  ASSUME NEW q \in Numbers
  PROVE  /\ ShowFloat(q) \notin Words
         /\ Amount("quantity", ShowFloat(q)) = Amount("quantity", q)
         /\ Negative("quantity", ShowFloat(q)) <=> Negative("quantity", q)
<1> DEFINE s == ShowFloat(q)
<1>1. /\ s.sign = SignShown(q) /\ s.whole = ShowWhole(q.whole)
      /\ s.fraction = Trimmed(q.fraction) /\ s \notin Words
  <2>1. s = Number(SignShown(q), ShowWhole(q.whole), Trimmed(q.fraction))
    BY DEF ShowFloat, SignShown
  <2> HIDE DEF s
  <2> QED
    BY <2>1, Built0
<1> HIDE DEF s
<1>2. /\ Padded(s.whole, MaxWhole) = Padded(q.whole, MaxWhole)
      /\ IsZero(s.whole) <=> IsZero(q.whole)
  <2>1. q.whole \in Seq(Nat) /\ MaxWhole \in Nat
    BY DigitsOfNumber, Zenon
  <2>2. /\ Padded(ShowWhole(q.whole), MaxWhole) = Padded(q.whole, MaxWhole)
        /\ IsZero(ShowWhole(q.whole)) <=> IsZero(q.whole)
    BY <2>1, ShownWhole
  <2> QED
    BY <1>1, <2>2, Zenon
<1>3. /\ Padded(s.fraction, MaxFraction) = Padded(q.fraction, MaxFraction)
      /\ IsZero(s.fraction) <=> IsZero(q.fraction)
  BY <1>1, DigitsOfNumber, TrimmedTrims, TrimsPads, ZerosTrim, Zenon
<1>4. q \notin Words
  BY NumberTyped, Zenon
<1>5. Amount("quantity", s) = Amount("quantity", q)
  BY <1>1, <1>2, <1>3, <1>4, NumberSays, Zenon
<1>6. Negative("quantity", s) <=> Negative("quantity", q)
  BY <1>1, <1>2, <1>3, <1>4, NumberSays, Zenon DEF SignShown
<1> QED
  BY <1>1, <1>5, <1>6, Zenon DEF s

\* Floats are shown alike exactly if they are the same number.
LEMMA ShownAlike ==
  ASSUME NEW q \in Numbers, NEW r \in Numbers
  PROVE  ShowFloat(q) = ShowFloat(r) <=>
           /\ Amount("quantity", q) = Amount("quantity", r)
           /\ Negative("quantity", q) <=> Negative("quantity", r)
<1>1. ASSUME ShowFloat(q) = ShowFloat(r)
      PROVE  /\ Amount("quantity", q) = Amount("quantity", r)
             /\ Negative("quantity", q) <=> Negative("quantity", r)
  BY <1>1, ShownDigits, Zenon
<1>2. ASSUME Amount("quantity", q) = Amount("quantity", r),
             Negative("quantity", q) <=> Negative("quantity", r)
      PROVE  ShowFloat(q) = ShowFloat(r)
  <2>1. q \notin Words /\ r \notin Words
    BY NumberTyped, Zenon
  <2>2. /\ Padded(q.whole, MaxWhole) = Padded(r.whole, MaxWhole)
        /\ Padded(q.fraction, MaxFraction) = Padded(r.fraction, MaxFraction)
    <3> DEFINE a == Padded(q.whole, MaxWhole)  b == Padded(q.fraction, MaxFraction)
               c == Padded(r.whole, MaxWhole)  d == Padded(r.fraction, MaxFraction)
    <3>1. <<a, b>> = <<c, d>>
      BY <1>2, <2>1, NumberSays, Zenon
    <3> HIDE DEF a, b, c, d
    <3>2. a = c /\ b = d
      BY <3>1
    <3> QED
      BY <3>2, Zenon DEF a, b, c, d
  <2>3. /\ IsZero(q.whole) <=> IsZero(r.whole)
        /\ ShowWhole(q.whole) = ShowWhole(r.whole)
    BY <2>2, DigitsOfNumber, SameShown, Zenon
  <2>4. /\ IsZero(q.fraction) <=> IsZero(r.fraction)
        /\ Trimmed(q.fraction) = Trimmed(r.fraction)
    BY <2>2, DigitsOfNumber, SameShown, Zenon
  <2>5. SignShown(q) = SignShown(r)
    <3>1. q.sign \in {"none", "minus"} /\ r.sign \in {"none", "minus"}
      BY NumberTyped, Zenon
    <3>2. CASE IsZero(q.whole) /\ IsZero(q.fraction)
      BY <2>3, <2>4, <3>2, Zenon DEF SignShown
    <3>3. CASE ~(IsZero(q.whole) /\ IsZero(q.fraction))
      <4>1. q.sign # "none" <=> r.sign # "none"
        BY <1>2, <2>1, <2>3, <2>4, <3>3, NumberSays, Zenon
      <4> QED
        BY <2>3, <2>4, <3>1, <3>3, <4>1, Zenon DEF SignShown
    <3> QED
      BY <3>2, <3>3
  <2> QED
    BY <2>3, <2>4, <2>5, Zenon DEF ShowFloat, SignShown
<1> QED
  BY <1>1, <1>2, Zenon

\* A quantity of a weighed product keeps its digits, unless it has a comma, and
\* loses its sign.
LEMMA StrippedMeans ==
  ASSUME NEW q \in Numbers, q.sep # "comma"
  PROVE  /\ Stripped(q) \notin Words
         /\ Amount("quantity", Stripped(q)) = Amount("quantity", q)
         /\ q.sign = "none" => (Negative("quantity", Stripped(q)) <=> Negative("quantity", q))
<1>1. Stripped(q) = Number("none", q.whole, q.fraction)
  <2>1. CASE q.sep = "dot"
    BY <2>1, Zenon DEF Stripped
  <2>2. CASE q.sep = "none"
    <3>1. q.sep # "dot" /\ q.fraction = <<>>
      BY <2>2, NumberTyped
    <3>2. q.whole \in Seq(Nat)
      BY DigitsOfNumber, Zenon
    <3>3. Reverse(<<>>) = <<>>
      BY DEF Reverse
    <3>4. Reverse(<<>>) \o q.whole = q.whole
      BY <3>2, <3>3, ConcatEmptySeq
    <3> QED
      BY <3>1, <3>4, Zenon DEF Stripped
  <2> QED
    BY <2>1, <2>2, NumberTyped, Zenon
<1> DEFINE s == Stripped(q)
<1>2. s.sign = "none" /\ s.whole = q.whole /\ s.fraction = q.fraction /\ s \notin Words
  BY <1>1, Built0
<1> HIDE DEF s
<1>3. q \notin Words
  BY NumberTyped, Zenon
<1>4. Amount("quantity", s) = Amount("quantity", q)
  BY <1>2, <1>3, NumberSays, Zenon
<1>5. q.sign = "none" => (Negative("quantity", s) <=> Negative("quantity", q))
  BY <1>2, <1>3, NumberSays, Zenon
<1> QED
  BY <1>2, <1>4, <1>5, Zenon DEF s

LEMMA QuantityMeans ==
  ASSUME NEW t \in {Blank} \union Printed("quantity"), Normalized("quantity", t) # Raises,
         ~PointIsLost("quantity", t)
  PROVE  /\ Amount("quantity", Normalized("quantity", t)) = Amount("quantity", t)
         /\ ~SignIsLost("quantity", t) =>
              (Negative("quantity", Normalized("quantity", t)) <=> Negative("quantity", t))
<1> DEFINE n == _normalize_quantity(t)
<1>1. Normalized("quantity", t) = n
  BY NormalizedIs, Zenon
<1>2. CASE t \in {Blank, Letters}
  <2>1. n = Blank
    BY <1>2, QuantityBecomes
  <2>2. "quantity" # "date"
    OBVIOUS
  <2> QED
    BY <1>1, <1>2, <2>1, <2>2, WordsSay, Zenon
<1>3. CASE t \in Numbers /\ ~t.unit
  <2>1. n = ShowFloat(t)
    BY <1>3, QuantityBecomes, Zenon
  <2> QED
    BY <1>1, <1>3, <2>1, ShownDigits, Zenon
<1>4. CASE t \in Numbers /\ t.unit
  <2>1. n = Stripped(t)
    BY <1>4, QuantityBecomes, Zenon
  <2>2. t.sep # "comma"
    BY <1>4, Zenon DEF PointIsLost, Weighed
  <2>3. ~SignIsLost("quantity", t) => t.sign = "none"
    BY <1>4, NumberTyped, Zenon DEF SignIsLost, Weighed
  <2> QED
    BY <1>1, <1>4, <2>1, <2>2, <2>3, StrippedMeans, Zenon
<1>5. CASE t \in {NaN, Infinity}
  BY <1>1, <1>5, QuantityBecomes, Zenon
<1> QED
  BY <1>2, <1>3, <1>4, <1>5, NormalizedIs, Zenon

\* Texts of a field are alike if they say and show the same.
Alike(f, t, r) ==
  /\ Amount(f, t) = Amount(f, r)
  /\ Negative(f, t) <=> Negative(f, r)
  /\ Shown(f, t) = Shown(f, r)

\* Quantities without a unit: a text is nothing, or a number.
LEMMA QuantitySame ==
  ASSUME NEW r \in {Blank, Letters} \union Numbers, r \in Numbers => ~r.unit,
         NEW t \in {Letters} \union Numbers, t \in Numbers => ~t.unit
  PROVE  Normalized("quantity", t) = Normalized("quantity", r) <=> Alike("quantity", t, r)
<1>0. /\ "quantity" # "date" /\ "quantity" # "money"
      /\ \A s : Shown("quantity", s) = <<>>
  BY ShowsNothing
<1>1. ASSUME NEW s \in {Blank, Letters}
      PROVE  /\ Amount("quantity", s) = <<>> /\ ~Negative("quantity", s)
             /\ Normalized("quantity", s) = Blank
  BY <1>0, WordsSay, NormalizedIs, QuantityBecomes, Zenon
<1>2. ASSUME NEW s \in Numbers, ~s.unit
      PROVE  /\ Amount("quantity", s) # <<>>
             /\ Normalized("quantity", s) = ShowFloat(s) /\ Normalized("quantity", s) # Blank
  <2>1. Amount("quantity", s) = <<Padded(s.whole, MaxWhole), Padded(s.fraction, MaxFraction)>>
    BY NumberTyped, NumberSays, Zenon
  <2>2. \A a, b : <<a, b>> # <<>>
    OBVIOUS
  <2>3. Normalized("quantity", s) = ShowFloat(s)
    BY <1>2, NormalizedIs, QuantityBecomes, Zenon
  <2>4. ShowFloat(s) # Blank
    BY ShownDigits, Zenon DEF Words
  <2> QED
    BY <2>1, <2>2, <2>3, <2>4, Zenon
<1>3. CASE r \in Numbers /\ t \in Numbers
  BY <1>0, <1>2, <1>3, ShownAlike, Zenon DEF Alike
<1>4. CASE r \in {Blank, Letters} /\ t \in {Blank, Letters}
  BY <1>0, <1>1, <1>4, Zenon DEF Alike
<1>5. CASE r \in {Blank, Letters} /\ t \in Numbers
  BY <1>1, <1>2, <1>5, Zenon DEF Alike
<1>6. CASE r \in Numbers /\ t \in {Blank, Letters}
  BY <1>1, <1>2, <1>6, Zenon DEF Alike
<1> QED
  BY <1>3, <1>4, <1>5, <1>6, Zenon

-----------------------------------------------------------------------------
(* Amounts.                                                                *)

LEMMA MoneyBecomes ==
  /\ _normalize_money(Blank) = Blank /\ _normalize_money(Letters) = Blank
  /\ \A m \in Money :
       /\ _normalize_money(m) \notin Words
       /\ _normalize_money(m) =
            [sign |-> IF IsNegative(m) THEN "minus" ELSE "none", whole |-> m.whole,
             sep |-> "none", currency |-> FALSE]
<1>1. _normalize_money(Blank) = Blank /\ _normalize_money(Letters) = Blank
  BY DEF _normalize_money
<1>2. ASSUME NEW m \in Money
      PROVE  /\ _normalize_money(m) \notin Words
             /\ _normalize_money(m) =
                  [sign |-> IF IsNegative(m) THEN "minus" ELSE "none", whole |-> m.whole,
                   sep |-> "none", currency |-> FALSE]
  <2>1. m \notin {Blank, Letters}
    BY MoneyTyped, Zenon DEF Words
  <2>2. _normalize_money(m) =
          [sign |-> IF IsNegative(m) THEN "minus" ELSE "none", whole |-> m.whole,
           sep |-> "none", currency |-> FALSE]
    BY <2>1, Zenon DEF _normalize_money
  <2>3. "word" \notin DOMAIN _normalize_money(m)
    BY <2>2
  <2> QED
    BY <2>2, <2>3, NoWord, Zenon
<1> QED
  BY <1>1, <1>2, Zenon

\* A sign that is seen is one in front, or brackets.
LEMMA SignIsSeen ==
  ASSUME NEW m \in Money, ~SignIsLost("money", m)
  PROVE  IsNegative(m) <=> m.sign # "none"
<1>1. m.sign \in {"none", "minus", "paren", "trailing", "inner"}
  BY MoneyTyped, Zenon DEF Signs
<1>2. m.sign \notin {"trailing", "inner"}
  BY Zenon DEF SignIsLost
<1> QED
  BY <1>1, <1>2 DEF IsNegative

LEMMA MoneyMeans ==
  ASSUME NEW t \in {Blank} \union Printed("money")
  PROVE  /\ Amount("money", Normalized("money", t)) = Amount("money", t)
         /\ ~SignIsLost("money", t) =>
              (Negative("money", Normalized("money", t)) <=> Negative("money", t))
<1> DEFINE n == _normalize_money(t)
<1>1. Normalized("money", t) = n
  BY NormalizedIs, Zenon
<1>2. CASE t \in {Blank, Letters}
  <2>1. n = Blank
    BY <1>2, MoneyBecomes, Zenon
  <2>2. "money" # "date"
    OBVIOUS
  <2> QED
    BY <1>1, <1>2, <2>1, <2>2, WordsSay, Zenon
<1>3. CASE t \in Money
  <2>1. n \notin Words /\ n = [sign |-> IF IsNegative(t) THEN "minus" ELSE "none",
                               whole |-> t.whole, sep |-> "none", currency |-> FALSE]
    BY <1>3, MoneyBecomes, Zenon
  <2>2. n.whole = t.whole /\ (n.sign # "none" <=> IsNegative(t))
    <3> HIDE DEF n
    <3> QED
      BY <2>1
  <2>3. t \notin Words
    BY <1>3, MoneyTyped, Zenon
  <2> HIDE DEF n
  <2>4. Amount("money", n) = Amount("money", t)
    BY <2>1, <2>2, <2>3, MoneySays, Zenon
  <2>5. ASSUME ~SignIsLost("money", t) PROVE Negative("money", n) <=> Negative("money", t)
    <3>1. IsNegative(t) <=> t.sign # "none"
      BY <1>3, <2>5, SignIsSeen, Zenon
    <3> QED
      BY <2>1, <2>2, <2>3, <3>1, MoneySays, Zenon
  <2> QED
    BY <1>1, <2>4, <2>5, Zenon DEF n
<1> QED
  BY <1>2, <1>3, NormalizedIs, Zenon

\* Two amounts become one text exactly if they are alike.
LEMMA AmountsSame ==
  ASSUME NEW r \in Money, ~SignIsLost("money", r), NEW t \in Money, ~SignIsLost("money", t)
  PROVE  _normalize_money(t) = _normalize_money(r) <=> Alike("money", t, r)
<1> DEFINE v == r.whole  w == t.whole
           c == IF IsNegative(r) THEN "minus" ELSE "none"
           d == IF IsNegative(t) THEN "minus" ELSE "none"
           x == _normalize_money(r)  y == _normalize_money(t)
<1>1. /\ x = [sign |-> c, whole |-> v, sep |-> "none", currency |-> FALSE]
      /\ y = [sign |-> d, whole |-> w, sep |-> "none", currency |-> FALSE]
  BY MoneyBecomes, Zenon
<1>2. /\ v \in Seq(Nat) /\ Len(v) <= MaxWhole /\ w \in Seq(Nat) /\ Len(w) <= MaxWhole
      /\ MaxWhole \in Nat
  BY MoneyTyped, WholeTyped, DigitsTyped, Zenon
<1>3. r \notin Words /\ t \notin Words
  BY MoneyTyped, Zenon
<1>4. /\ Amount("money", r) = <<Padded(v, MaxWhole)>> /\ Amount("money", t) = <<Padded(w, MaxWhole)>>
      /\ Negative("money", r) <=> r.sign # "none" /\ ~IsZero(v)
      /\ Negative("money", t) <=> t.sign # "none" /\ ~IsZero(w)
  BY <1>3, MoneySays, Zenon
<1>5. /\ IsNegative(r) <=> r.sign # "none"
      /\ IsNegative(t) <=> t.sign # "none"
  BY SignIsSeen, Zenon
<1>6. /\ Shown("money", r) = <<Len(v), IsNegative(r)>>
      /\ Shown("money", t) = <<Len(w), IsNegative(t)>>
  BY DEF Shown
<1>7. ASSUME y = x PROVE Alike("money", t, r)
  <2>1. w = v /\ (IsNegative(t) <=> IsNegative(r))
    <3>1. w = v /\ d = c
      <4> HIDE DEF c, d, v, w, x, y
      <4> QED
        BY <1>1, <1>7
    <3>2. d = c => (IsNegative(t) <=> IsNegative(r))
      OBVIOUS
    <3> QED
      BY <3>1, <3>2
  <2>2. Negative("money", t) <=> Negative("money", r)
    BY <1>4, <1>5, <2>1, Zenon
  <2>3. Shown("money", t) = Shown("money", r)
    <3> DEFINE a == IsNegative(t)  b == IsNegative(r)
    <3>1. a = b
      BY <2>1 DEF IsNegative
    <3> HIDE DEF a, b
    <3> QED
      BY <1>6, <2>1, <3>1, Zenon DEF a, b
  <2> QED
    BY <1>4, <2>1, <2>2, <2>3, Zenon DEF Alike
<1>8. ASSUME Alike("money", t, r) PROVE y = x
  <2>1. Padded(w, MaxWhole) = Padded(v, MaxWhole)
    <3> DEFINE a == Padded(w, MaxWhole)  b == Padded(v, MaxWhole)
    <3>1. <<a>> = <<b>>
      BY <1>4, <1>8, Zenon DEF Alike
    <3> HIDE DEF a, b
    <3>2. a = b
      BY <3>1
    <3> QED
      BY <3>2, Zenon DEF a, b
  <2>2. Len(w) = Len(v) /\ (IsNegative(t) <=> IsNegative(r))
    <3> DEFINE a == IsNegative(t)  b == IsNegative(r)  k == Len(w)  l == Len(v)
    <3>1. <<k, a>> = <<l, b>>
      BY <1>6, <1>8, Zenon DEF Alike
    <3> HIDE DEF a, b, k, l
    <3>2. a = b /\ k = l
      BY <3>1
    <3> QED
      BY <3>2, Zenon DEF a, b, k, l
  <2>3. w = v
    BY <1>2, <2>1, <2>2, PaddedOnce, Zenon
  <2>4. d = c
    BY <2>2, Zenon
  <2> HIDE DEF c, d, v, w, x, y
  <2> QED
    BY <1>1, <2>3, <2>4, Zenon
<1> QED
  BY <1>7, <1>8, Zenon

LEMMA MoneySame ==
  ASSUME NEW r \in {Blank, Letters} \union Money, ~SignIsLost("money", r),
         NEW t \in {Letters} \union Money, ~SignIsLost("money", t)
  PROVE  Normalized("money", t) = Normalized("money", r) <=> Alike("money", t, r)
<1>0. "money" # "date"
  OBVIOUS
<1>1. ASSUME NEW s \in {Blank, Letters}
      PROVE  /\ Amount("money", s) = <<>> /\ ~Negative("money", s) /\ Shown("money", s) = <<>>
             /\ Normalized("money", s) = Blank
  <2>1. s \in Words
    BY Zenon DEF Words
  <2> QED
    BY <1>0, <2>1, WordsSay, ShowsNothing, NormalizedIs, MoneyBecomes, Zenon
<1>2. ASSUME NEW s \in Money
      PROVE  /\ Amount("money", s) # <<>>
             /\ Normalized("money", s) = _normalize_money(s) /\ Normalized("money", s) # Blank
  <2>1. Amount("money", s) = <<Padded(s.whole, MaxWhole)>>
    BY MoneyTyped, MoneySays, Zenon
  <2>2. \A a : <<a>> # <<>>
    OBVIOUS
  <2>3. Normalized("money", s) = _normalize_money(s)
    BY NormalizedIs, Zenon
  <2>4. _normalize_money(s) # Blank
    BY MoneyBecomes, Zenon DEF Words
  <2> QED
    BY <2>1, <2>2, <2>3, <2>4, Zenon
<1>3. CASE r \in Money /\ t \in Money
  BY <1>2, <1>3, AmountsSame, Zenon
<1>4. CASE r \in {Blank, Letters} /\ t \in {Blank, Letters}
  BY <1>1, <1>4, Zenon DEF Alike
<1>5. CASE r \in {Blank, Letters} /\ t \in Money
  BY <1>1, <1>2, <1>5, Zenon DEF Alike
<1>6. CASE r \in Money /\ t \in {Blank, Letters}
  BY <1>1, <1>2, <1>6, Zenon DEF Alike
<1> QED
  BY <1>3, <1>4, <1>5, <1>6, Zenon

-----------------------------------------------------------------------------
(* Dates.                                                                  *)

\* Its day, month and year.
Day(d) == IF d.form = "iso" THEN <<d.parts[3], d.parts[2], d.parts[1]>>
            ELSE <<d.parts[1], d.parts[2], d.parts[3]>>

DateOf(day) == [form |-> "slash", parts |-> day]

LEMMA DatesSay ==
  ASSUME NEW d, d \notin Words
  PROVE  /\ d.form = "other" => Amount("date", d) = <<d>>
         /\ d.form # "other" => Amount("date", d) = Day(d)
<1>1. d # Blank /\ d \notin {Blank, Letters}
  BY Zenon DEF Words
<1>2. ASSUME d.form = "other" PROVE Amount("date", d) = <<d>>
  BY <1>1, <1>2 DEF Amount
<1>3. ASSUME d.form = "iso" PROVE Amount("date", d) = Day(d)
  BY <1>1, <1>3 DEF Amount, Day
<1>4. ASSUME d.form \notin {"other", "iso"} PROVE Amount("date", d) = Day(d)
  BY <1>1, <1>4 DEF Amount, Day
<1> QED
  BY <1>2, <1>3, <1>4

LEMMA DateBecomes ==
  ASSUME NEW d \in Dates
  PROVE  /\ d.form = "other" => _normalize_date(d) = d
         /\ d.form # "other" => _normalize_date(d) = DateOf(Day(d))
<1>1. d # Blank
  BY DateTyped, Zenon DEF Words
<1>2. d.form = "other" => _normalize_date(d) = d
  BY DEF _normalize_date
<1> DEFINE p == d.parts
<1>3. p \in (1..2) \X (1..2) \X (1..2) /\ d = [form |-> d.form, parts |-> p]
  BY DEF Dates
<1>4. p = <<p[1], p[2], p[3]>>
  <2> HIDE DEF p
  <2> QED
    BY <1>3
<1>5. d.form # "iso" => Day(d) = p
  BY <1>4, Zenon DEF Day
<1>6. ASSUME d.form = "slash" PROVE _normalize_date(d) = DateOf(Day(d))
  <2>1. _normalize_date(d) = d
    BY <1>6 DEF _normalize_date
  <2>2. d = [form |-> "slash", parts |-> Day(d)]
    BY <1>3, <1>5, <1>6
  <2> QED
    BY <2>1, <2>2, Zenon DEF DateOf
<1>7. ASSUME d.form \notin {"slash", "other"} PROVE _normalize_date(d) = DateOf(Day(d))
  <2>1. _normalize_date(d) = Slashed(d)
    BY <1>1, <1>7, Zenon DEF _normalize_date
  <2>2. CASE d.form = "iso"
    BY <2>1, <2>2, Zenon DEF Slashed, DateOf, Day
  <2>3. CASE d.form # "iso"
    BY <1>5, <2>1, <2>3, Zenon DEF Slashed, DateOf
  <2> QED
    BY <2>2, <2>3
<1> QED
  BY <1>2, <1>6, <1>7

\* No date is negative, or shows more than it says.
LEMMA DateIsDate == \A t : ~Negative("date", t) /\ Shown("date", t) = <<>>
<1>1. \A t : ~Negative("date", t)
  BY Zenon DEF Negative
<1>2. "date" # "money"
  OBVIOUS
<1> QED
  BY <1>1, <1>2, ShowsNothing, Zenon

\* A date says its day, or itself.
LEMMA DateSays ==
  ASSUME NEW d \in Dates
  PROVE  /\ d.form = "other" => Amount("date", d) = <<d>> /\ Normalized("date", d) = d
         /\ d.form # "other" =>
              Amount("date", d) = Day(d) /\ Normalized("date", d) = DateOf(Day(d))
         /\ Amount("date", d) # <<>> /\ Normalized("date", d) \notin Words
<1>1. d \notin Words
  BY DateTyped
<1>2. CASE d.form = "other"
  <2>1. Amount("date", d) = <<d>> /\ Normalized("date", d) = d
    BY <1>1, <1>2, DatesSay, DateBecomes, NormalizedIs, Zenon
  <2>2. <<d>> # <<>>
    OBVIOUS
  <2> QED
    BY <1>1, <1>2, <2>1, <2>2, Zenon
<1>3. CASE d.form # "other"
  <2>1. Amount("date", d) = Day(d) /\ Normalized("date", d) = DateOf(Day(d))
    BY <1>1, <1>3, DatesSay, DateBecomes, NormalizedIs, Zenon
  <2>2. Day(d) # <<>>
    BY DEF Day
  <2>3. "word" \notin DOMAIN DateOf(Day(d))
    BY DEF DateOf
  <2>4. DateOf(Day(d)) \notin Words
    BY <2>3, NoWord, Zenon
  <2> QED
    BY <1>3, <2>1, <2>2, <2>4, Zenon
<1> QED
  BY <1>2, <1>3, Zenon

LEMMA BlankDate == Amount("date", Blank) = <<>> /\ Normalized("date", Blank) = Blank
<1>1. Normalized("date", Blank) = Blank
  BY NormalizedIs, Zenon DEF _normalize_date
<1> QED
  BY <1>1, WordsSay, Zenon

LEMMA DateMeans ==
  ASSUME NEW t \in {Blank} \union Printed("date")
  PROVE  /\ Amount("date", Normalized("date", t)) = Amount("date", t)
         /\ Negative("date", Normalized("date", t)) <=> Negative("date", t)
<1>1. CASE t = Blank
  BY <1>1, BlankDate, DateIsDate, Zenon
<1>2. CASE t \in Dates /\ t.form = "other"
  BY <1>2, DateSays, DateIsDate, Zenon
<1>3. CASE t \in Dates /\ t.form # "other"
  <2>1. /\ Amount("date", t) = Day(t)
        /\ Normalized("date", t) = DateOf(Day(t)) /\ DateOf(Day(t)) \notin Words
    BY <1>3, DateSays, Zenon
  <2>2. DateOf(Day(t)).form # "other" /\ Day(DateOf(Day(t))) = Day(t)
    BY DEF DateOf, Day
  <2>3. Amount("date", DateOf(Day(t))) = Day(t)
    BY <2>1, <2>2, DatesSay, Zenon
  <2> QED
    BY <2>1, <2>3, DateIsDate, Zenon
<1> QED
  BY <1>1, <1>2, <1>3, NormalizedIs, Zenon

LEMMA DateSame ==
  ASSUME NEW r \in {Blank} \union Dates, NEW t \in Dates
  PROVE  Normalized("date", t) = Normalized("date", r) <=> Alike("date", t, r)
<1>0. Alike("date", t, r) <=> Amount("date", t) = Amount("date", r)
  BY DateIsDate, Zenon DEF Alike
<1>1. CASE r = Blank
  BY <1>0, <1>1, BlankDate, DateSays, Zenon DEF Words
<1>2. CASE r \in Dates /\ r.form = "other" /\ t.form = "other"
  <2>1. <<t>> = <<r>> <=> t = r
    OBVIOUS
  <2> QED
    BY <1>0, <1>2, <2>1, DateSays, Zenon
<1>3. ASSUME NEW a \in Dates, NEW b \in Dates, a.form = "other", b.form # "other"
      PROVE  Amount("date", a) # Amount("date", b) /\ Normalized("date", a) # Normalized("date", b)
  <2>1. /\ Amount("date", b) = Day(b) /\ Normalized("date", b) = DateOf(Day(b))
        /\ Amount("date", a) = <<a>> /\ Normalized("date", a) = a
    BY <1>3, DateSays, Zenon
  <2>2. <<a>> # Day(b)
    BY DEF Day
  <2>3. DateOf(Day(b)).form = "slash"
    BY DEF DateOf
  <2> QED
    BY <1>3, <2>1, <2>2, <2>3
<1>4. CASE r \in Dates /\ r.form # "other" /\ t.form # "other"
  <2>1. /\ Amount("date", r) = Day(r) /\ Normalized("date", r) = DateOf(Day(r))
        /\ Amount("date", t) = Day(t) /\ Normalized("date", t) = DateOf(Day(t))
    BY <1>4, DateSays, Zenon
  <2>2. DateOf(Day(t)).parts = Day(t) /\ DateOf(Day(r)).parts = Day(r)
    BY DEF DateOf
  <2>3. DateOf(Day(t)) = DateOf(Day(r)) => Day(t) = Day(r)
    <3>1. DateOf(Day(t)) = DateOf(Day(r)) => DateOf(Day(t)).parts = DateOf(Day(r)).parts
      OBVIOUS
    <3> QED
      BY <2>2, <3>1, Zenon
  <2>4. Day(t) = Day(r) => DateOf(Day(t)) = DateOf(Day(r))
    BY Zenon
  <2> QED
    BY <1>0, <2>1, <2>3, <2>4, Zenon
<1> QED
  BY <1>0, <1>1, <1>2, <1>3, <1>4, Zenon

-----------------------------------------------------------------------------
(* The pipeline.                                                           *)

\* A field has what it was extracted with, and becomes what the normaliser of
\* its kind makes of that.
ValueInv ==
  /\ field \in {"image", "name"} \union NumberFields
  /\ field \notin NumberFields => raw = Blank /\ out = Pending
  /\ field \in NumberFields =>
       raw \in {Blank} \union Printed(field) /\ out \in {Pending, Normalized(field, raw)}

PipeInv == IndexInv /\ ImageInv /\ ValueInv

LEMMA FieldsDiffer ==
  /\ "image" \notin NumberFields /\ "name" \notin NumberFields
  /\ \A f \in NumberFields : f \in {"quantity", "money", "date"}
BY DEF NumberFields

LEMMA PipeInitial == PipeInit => PipeInv
<1> SUFFICES ASSUME PipeInit PROVE PipeInv
  OBVIOUS
<1>1. IndexInv
  BY IndexInit, Zenon DEF PipeInit, PostInit
<1>2. fate = "open" /\ met = "none" /\ stage \in {"extracted", "download"}
  BY Zenon DEF PipeInit, ImageInit
<1>3. ImageInv
  BY <1>2 DEF ImageInv, OnlyThreadsVanish
<1>4. ValueInv
  <2>1. CASE field = "name" /\ raw = Blank /\ out = Pending
    BY <2>1, FieldsDiffer, Zenon DEF ValueInv
  <2>2. CASE field \in NumberFields /\ raw \in {Blank} \union Printed(field) /\ out = Pending
    BY <2>2, Zenon DEF ValueInv
  <2>3. CASE field = "image" /\ raw = Blank /\ out = Pending
    BY <2>3, FieldsDiffer, Zenon DEF ValueInv
  <2> QED
    BY <2>1, <2>2, <2>3, Zenon DEF PipeInit, PostInit
<1> QED
  BY <1>1, <1>3, <1>4, Zenon DEF PipeInv

\* Every step is one of the index, of the image or of a value, or none.
LEMMA PipeSteps ==
  ASSUME [PipeNext]_<<vars, field, raw, out, image>>
  PROVE  /\ [Next]_vars /\ [ImageNext]_image
         /\ \/ UNCHANGED <<field, raw, out>>
            \/ /\ field \notin {"image", "name"} /\ out = Pending
               /\ out' = Normalized(field, raw) /\ UNCHANGED <<field, raw>>
<1>1. CASE ImageNext /\ UNCHANGED <<vars, field, raw, out>>
  BY <1>1, Zenon
<1>2. CASE MatchName /\ UNCHANGED image
  BY <1>2, Zenon DEF MatchName
<1>3. CASE field # "image" /\ Normalize /\ UNCHANGED image
  BY <1>3, Zenon DEF Normalize
<1>4. CASE UNCHANGED <<vars, field, raw, out, image>>
  BY <1>4, Zenon
<1> QED
  BY <1>1, <1>2, <1>3, <1>4, Zenon DEF PipeNext, PostNext

LEMMA PipeInductive == PipeInv /\ [PipeNext]_<<vars, field, raw, out, image>> => PipeInv'
<1> SUFFICES ASSUME PipeInv, [PipeNext]_<<vars, field, raw, out, image>> PROVE PipeInv'
  OBVIOUS
<1>1. IndexInv'
  BY IndexInductive, PipeSteps, Zenon DEF PipeInv
<1>2. ImageInv'
  BY ImageInductive, PipeSteps, Zenon DEF PipeInv
<1>3. ValueInv'
  <2>1. CASE UNCHANGED <<field, raw, out>>
    BY <2>1, Zenon DEF PipeInv, ValueInv
  <2>2. CASE /\ field \notin {"image", "name"} /\ out = Pending
             /\ out' = Normalized(field, raw) /\ UNCHANGED <<field, raw>>
    BY <2>2, Zenon DEF PipeInv, ValueInv
  <2> QED
    BY <2>1, <2>2, PipeSteps, Zenon
<1> QED
  BY <1>1, <1>2, <1>3, Zenon DEF PipeInv

\* What is understood was normalised, and is a number, an amount or a date.
LEMMA UnderstoodIs ==
  ASSUME PipeInv, Understood
  PROVE  /\ field \in {"quantity", "money", "date"}
         /\ raw \in {Blank} \union Printed(field)
         /\ out = Normalized(field, raw) /\ out # Raises
<1>1. out # Pending /\ out # Raises
  BY Zenon DEF Understood
<1>2. field \in NumberFields
  BY <1>1, Zenon DEF PipeInv, ValueInv
<1> QED
  BY <1>1, <1>2, FieldsDiffer, Zenon DEF PipeInv, ValueInv

LEMMA MeaningStays == PipeInv => MeaningKept
<1> SUFFICES ASSUME PipeInv, Understood, ~PointIsLost(field, raw)
             PROVE  /\ Amount(field, out) = Amount(field, raw)
                    /\ ~SignIsLost(field, raw) => (Negative(field, out) <=> Negative(field, raw))
  BY Zenon DEF MeaningKept
<1>1. /\ field \in {"quantity", "money", "date"}
      /\ raw \in {Blank} \union Printed(field)
      /\ out = Normalized(field, raw) /\ out # Raises
  BY UnderstoodIs, Zenon
<1>2. CASE field = "quantity"
  BY <1>1, <1>2, QuantityMeans, Zenon
<1>3. CASE field = "money"
  BY <1>1, <1>3, MoneyMeans, Zenon
<1>4. CASE field = "date"
  BY <1>1, <1>4, DateMeans, Zenon
<1> QED
  BY <1>1, <1>2, <1>3, <1>4, Zenon

LEMMA SameTexts == PipeInv => EqualTextsSayTheSame
<1> SUFFICES ASSUME PipeInv, Understood, ~Weighed(field, raw), ~SignIsLost(field, raw),
                    NEW t \in Printed(field) \ {NaN, Infinity},
                    ~Weighed(field, t), ~SignIsLost(field, t)
             PROVE  Normalized(field, t) = out <=> Alike(field, t, raw)
  BY Zenon DEF EqualTextsSayTheSame, Alike
<1>1. /\ field \in {"quantity", "money", "date"}
      /\ raw \in {Blank} \union Printed(field)
      /\ out = Normalized(field, raw) /\ out # Raises
  BY UnderstoodIs, Zenon
<1>2. CASE field = "quantity"
  <2>1. raw \notin {NaN, Infinity}
    BY <1>1, <1>2, NormalizedIs, QuantityBecomes, Zenon
  <2>2. /\ raw \in {Blank, Letters} \union Numbers /\ (raw \in Numbers => ~raw.unit)
        /\ t \in {Letters} \union Numbers /\ (t \in Numbers => ~t.unit)
    BY <1>1, <1>2, <2>1, NormalizedIs, Zenon DEF Weighed
  <2> QED
    BY <1>1, <1>2, <2>2, QuantitySame, Zenon
<1>3. CASE field = "money"
  <2>1. raw \in {Blank, Letters} \union Money /\ t \in {Letters} \union Money
    BY <1>1, <1>3, NormalizedIs, Zenon
  <2> QED
    BY <1>1, <1>3, <2>1, MoneySame, Zenon
<1>4. CASE field = "date"
  <2>1. raw \in {Blank} \union Dates /\ t \in Dates
    BY <1>1, <1>4, NormalizedIs, Zenon
  <2> QED
    BY <1>1, <1>4, <2>1, DateSame, Zenon
<1> QED
  BY <1>1, <1>2, <1>3, <1>4, Zenon

LEMMA PipeInvariant == PipeSpec => []PipeInv
BY PipeInitial, PipeInductive, PTL DEF PipeSpec

\* What the pipeline does with names is a behaviour of the index: postprocess
\* changes no list and reads no result back. So the results above are results
\* of the worker. (postprocess over WhitelistIndex)
THEOREM PipelineMatchesNames == PipeSpec => Spec
<1>1. PipeInit => Init
  BY Zenon DEF PipeInit, PostInit
<1>2. [PipeNext]_<<vars, field, raw, out, image>> => [Next]_vars
  BY PipeSteps, Zenon
<1> QED
  BY <1>1, <1>2, PTL DEF PipeSpec, Spec

\* For any digits and any number of them, a normalised text says what the raw
\* one said, but for a sign that is not in front, the sign of a weighed quantity
\* and its comma. (_normalize_quantity, _normalize_money, _normalize_date)
THEOREM NormalisersKeepMeaning == PipeSpec => []MeaningKept
BY PipeInvariant, MeaningStays, PTL

\* Two texts of a field become one exactly if they say the same and, if they are
\* amounts, are printed with as many digits: no number has two shortest forms.
\* (the fan-in of the normalisers)
THEOREM TextsAreCanonical == PipeSpec => []EqualTextsSayTheSame
BY PipeInvariant, SameTexts, PTL

\* For every size of canvas and of pictures, the two roundings of a side lose
\* only photos that are more than Size times as long as wide: for those the
\* resize of the letterbox raises. (thumbnail in preprocess_image, _letterbox)
THEOREM ThreadsOnlyVanish == PipeSpec => []OnlyThreadsVanish
<1>1. PipeInv => OnlyThreadsVanish
  BY Zenon DEF PipeInv, ImageInv
<1> QED
  BY <1>1, PipeInvariant, PTL

\* The crop shows what the detector has framed, for every canvas, padding, size
\* of photo and box, if a picture is at most two and a half times as long as
\* the canvas: 1600 and 640 in the settings. (_letterbox and detect_invoice)
THEOREM CropsShowBoxes == 2 * MaxDim <= 5 * Size => (PipeSpec => []CropShowsBox)
<1> SUFFICES ASSUME 2 * MaxDim <= 5 * Size PROVE PipeSpec => []CropShowsBox
  OBVIOUS
<1>1. PipeInv => CropShowsBox
  BY CropsAreRight, Zenon DEF PipeInv
<1> QED
  BY <1>1, PipeInvariant, PTL
=============================================================================

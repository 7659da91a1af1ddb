-------------------------- MODULE Experiments_proofs --------------------------
(***************************************************************************)
(* Proofs about Experiments, for any shells and versions and any budget:   *)
(* what is counted or locked is in the table, the table shows no older     *)
(* report than it should, and only interrupted invocations evaluate        *)
(* outside the budget.                                                     *)
(***************************************************************************)
EXTENDS Experiments, FiniteSetTheorems, TLAPS

Steps == {"evaluating", "evaluated", "copied", "logged"}
Splits == {"dev", "test"}
Calls == [at : Steps, split : Splits, run : Nat, psv : Versions, own : Nat]
Report == [split : Splits, psv : Versions]
Row == [run : Nat, own : Nat, report : Nat]

TypeOK ==
  /\ count \in Nat /\ count <= MaxRuns
  /\ locked \in BOOLEAN
  /\ reports \in Seq(Report)
  /\ copies \in [(1..MaxRuns) \X Versions -> Nat]
  /\ final \in Nat
  /\ table \in Seq(Row)
  /\ session \in [Sessions -> Calls \union {NoCommand}]
  /\ alone \in BOOLEAN /\ faults \in Nat

\* A tuning run has a number of the budget, the final evaluation has none.
RunsInBudget ==
  \A s \in Sessions : session[s] # NoCommand =>
    IF session[s].split = "dev" THEN session[s].run \in 1..MaxRuns
                                ELSE session[s].run = FinalRow

\* The reports among rs that Matching finds among all.
Matches(rs, split, psv) == {i \in 1..Len(rs) : rs[i] = [split |-> split, psv |-> psv]}

\* What an invocation knows of its report: it is one of its version and split, the
\* copy of a tuning run is no older, and without another shell it is the newest
\* and the copy is that one.
Knows(c, rs, cs, f, undisturbed) ==
  /\ c.at # "evaluating" => c.own \in Matches(rs, c.split, c.psv)
  /\ c.at = "evaluated" /\ undisturbed => c.own = Len(rs)
  /\ c.at = "copied" /\ c.split = "dev" => cs[<<c.run, c.psv>>] >= c.own
  /\ c.at = "copied" /\ undisturbed =>
       c.own = IF c.split = "dev" THEN cs[<<c.run, c.psv>>] ELSE f

SessionsKnowReports ==
  \A s \in Sessions :
    session[s] \in Calls => Knows(session[s], reports, copies, final, alone)

OneAtATime ==
  alone => \A s, t \in Sessions : session[s] # NoCommand /\ session[t] # NoCommand => s = t

ReportsInv ==
  /\ TypeOK /\ RunsInBudget
  /\ OneAtATime /\ SessionsKnowReports /\ RowsShowOwnReport

\* A run is started when all before it are counted, and comes to be counted when
\* its row is written.
Follows(c, rows) ==
  /\ c.split = "dev" => \A n \in 1..(c.run - 1) : \E i \in 1..Len(rows) : rows[i].run = n
  /\ c.at = "logged" => \E i \in 1..Len(rows) : rows[i].run = c.run

SessionsFollowTable ==
  \A s \in Sessions : session[s] \in Calls => Follows(session[s], table)

LoggedInv == SessionsFollowTable /\ CountedIsLogged

\* An evaluation is owed between its report and the counter or the lock.
Owes(s, split) ==
  session[s] \in Calls /\ session[s].split = split /\ session[s].at # "evaluating"

Done(split) == IF split = "dev" THEN count ELSE IF locked THEN 1 ELSE 0

BudgetInv ==
  alone =>
    /\ \A s \in Sessions : session[s] \in Calls =>
         /\ session[s].split = "dev" => session[s].run = count + 1 /\ count < MaxRuns
         /\ session[s].split = "test" => locked = FALSE
    /\ \A split \in Splits :
         \/ Written(split) <= Done(split) + faults
         \/ /\ \E s \in Sessions : Owes(s, split)
            /\ Written(split) <= Done(split) + 1 + faults

-----------------------------------------------------------------------------
(* The newest report.                                                      *)

\* A nonempty set of naturals has a least element.
LEMMA LeastExists ==
  ASSUME NEW T \in SUBSET Nat, T # {}
  PROVE  \E x \in T : \A y \in T : x <= y
<1>1. PICK x \in T : \A y \in T : <<y, x>> \notin OpToRel(<, Nat)
  BY WFMin, NatLessThanWellFounded, Zenon
<1>2. \A y \in T : ~ (y < x)
  BY <1>1, Zenon DEF OpToRel
<1> QED BY <1>2

\* A nonempty set of naturals below a bound has a greatest element.
LEMMA GreatestExists ==
  ASSUME NEW T \in SUBSET Nat, T # {}, NEW n \in Nat, \A x \in T : x <= n
  PROVE  \E x \in T : \A y \in T : y <= x
<1> DEFINE U == {m \in Nat : n - m \in T}
<1>1. U # {}
  <2>1. PICK x \in T : TRUE OBVIOUS
  <2>2. n - x \in Nat /\ n - (n - x) = x BY <2>1
  <2>3. n - x \in U BY <2>1, <2>2
  <2> QED BY <2>3
<1>2. PICK m \in U : \A k \in U : m <= k
  <2>1. U \in SUBSET Nat OBVIOUS
  <2> HIDE DEF U
  <2> QED BY <1>1, <2>1, LeastExists
<1>3. n - m \in T /\ m \in Nat OBVIOUS
<1>4. ASSUME NEW y \in T PROVE y <= n - m
  <2>1. n - y \in Nat /\ n - (n - y) = y BY <1>4
  <2>2. n - y \in U BY <1>4, <2>1
  <2>3. m <= n - y BY <1>2, <2>2
  <2> QED BY <1>3, <2>1, <2>3
<1> QED BY <1>3, <1>4

\* The report that is taken for that of an evaluation is one of its version and
\* split, and no other of them is newer. (_run_eval)
LEMMA NewestIsNewest ==
  ASSUME TypeOK, NEW split \in Splits, NEW psv \in Versions,
         NEW own \in Matches(reports, split, psv)
  PROVE  /\ Newest(split, psv) \in Matches(reports, split, psv)
         /\ Newest(split, psv) \in Nat
         /\ own <= Newest(split, psv) /\ Newest(split, psv) <= Len(reports)
<1> DEFINE M == Matches(reports, split, psv)
<1>0. M = Matching(split, psv) BY DEF Matches, Matching
<1>1. Len(reports) \in Nat BY DEF TypeOK
<1>2. \A i \in M : i \in Nat /\ i <= Len(reports) BY <1>1 DEF Matches
<1>3. \E i \in M : \A j \in M : j <= i
  <2>1. M \in SUBSET Nat /\ M # {} BY <1>2
  <2> HIDE DEF M
  <2> QED BY <1>1, <1>2, <2>1, GreatestExists
<1>4. Newest(split, psv) \in M /\ \A j \in M : j <= Newest(split, psv)
  BY <1>0, <1>3 DEF Newest
<1> QED BY <1>2, <1>4

-----------------------------------------------------------------------------
(* What a step does to the invocation of its shell.                        *)

\* Of all the shells only s goes on.
OnlyOne(s) ==
  /\ session' \in [Sessions -> Calls \union {NoCommand}]
  /\ \A t \in Sessions : t # s => session'[t] = session[t]

\* The invocation in s comes to a step, its report being own.
Advances(s, step, own) ==
  /\ OnlyOne(s)
  /\ session[s] \in Calls /\ session'[s] \in Calls
  /\ session'[s].at = step /\ session'[s].own = own
  /\ session'[s].split = session[s].split
  /\ session'[s].run = session[s].run /\ session'[s].psv = session[s].psv

Enters(s, split, run) ==
  /\ OnlyOne(s)
  /\ session[s] = NoCommand /\ session'[s] \in Calls
  /\ session'[s].at = "evaluating" /\ session'[s].split = split /\ session'[s].run = run

Leaves(s) == OnlyOne(s) /\ session[s] # NoCommand /\ session'[s] = NoCommand

LEMMA IdleIsNoCall == NoCommand \notin Calls /\ NoCommand.at \notin Steps
<1>1. NoCommand.at \notin Steps BY DEF NoCommand, Steps
<1> QED BY <1>1 DEF Calls

LEMMA Entered ==
  ASSUME TypeOK, NEW s \in Sessions, session[s] = NoCommand,
         NEW split \in Splits, NEW run \in Nat, NEW psv \in Versions,
         Starts(s, split, run, psv)
  PROVE  /\ Enters(s, split, run)
         /\ alone' => \A t \in Sessions : session[t] = NoCommand
<1> DEFINE c == [at |-> "evaluating", split |-> split, run |-> run, psv |-> psv,
                 own |-> NoReport]
<1>1. session' = [session EXCEPT ![s] = c] BY DEF Starts
<1>2. /\ c \in Calls
      /\ c.at = "evaluating" /\ c.split = split /\ c.run = run
  BY DEF Calls, Steps, NoReport
<1>3. session \in [Sessions -> Calls \union {NoCommand}] BY DEF TypeOK
<1> HIDE DEF c
<1>4. Enters(s, split, run) BY <1>1, <1>2, <1>3 DEF Enters, OnlyOne
<1> QED BY <1>4 DEF Starts

LEMMA Advanced ==
  ASSUME TypeOK, NEW s \in Sessions, session[s].at \in Steps, NEW step \in Steps
  PROVE  /\ session' = [session EXCEPT ![s].at = step] =>
              Advances(s, step, session[s].own)
         /\ \A own \in Nat :
              session' = [session EXCEPT ![s].at = step, ![s].own = own] =>
                Advances(s, step, own)
<1>1. session \in [Sessions -> Calls \union {NoCommand}] BY DEF TypeOK
<1>2. session[s] \in Calls BY <1>1, IdleIsNoCall
<1> DEFINE c(own) == [session[s] EXCEPT !.at = step, !.own = own]
           d == [session[s] EXCEPT !.at = step]
<1>3. \A own \in Nat :
        /\ c(own) \in Calls /\ c(own).at = step /\ c(own).own = own
        /\ c(own).split = session[s].split /\ c(own).run = session[s].run
        /\ c(own).psv = session[s].psv
  BY <1>2 DEF Calls
<1>4. /\ d \in Calls /\ d.at = step /\ d.own = session[s].own
      /\ d.split = session[s].split /\ d.run = session[s].run
      /\ d.psv = session[s].psv
  BY <1>2 DEF Calls
<1>5. ASSUME session' = [session EXCEPT ![s].at = step]
      PROVE  Advances(s, step, session[s].own)
  <2>1. session' = [session EXCEPT ![s] = d] BY <1>5
  <2> HIDE DEF d
  <2> QED BY <1>1, <1>2, <1>4, <2>1 DEF Advances, OnlyOne
<1>6. ASSUME NEW own \in Nat,
             session' = [session EXCEPT ![s].at = step, ![s].own = own]
      PROVE  Advances(s, step, own)
  <2> DEFINE e == c(own)
  <2>1. session' = [session EXCEPT ![s] = e]
    <3>1. [session EXCEPT ![s].at = step] = [session EXCEPT ![s] = d] OBVIOUS
    <3>2. session' = [[session EXCEPT ![s].at = step] EXCEPT ![s].own = own] BY <1>6
    <3>3. [session EXCEPT ![s] = d][s] = d BY <1>1
    <3>4. session' = [[session EXCEPT ![s] = d] EXCEPT ![s] = [d EXCEPT !.own = own]]
      BY <3>1, <3>2, <3>3
    <3>5. [d EXCEPT !.own = own] = e BY <1>2 DEF Calls
    <3> HIDE DEF d, e
    <3> QED BY <1>1, <3>4, <3>5
  <2>2. /\ e \in Calls /\ e.at = step /\ e.own = own
        /\ e.split = session[s].split /\ e.run = session[s].run
        /\ e.psv = session[s].psv
    <3> HIDE DEF c
    <3> QED BY <1>3
  <2> HIDE DEF e
  <2> QED BY <1>1, <1>2, <2>1, <2>2 DEF Advances, OnlyOne
<1> QED BY <1>5, <1>6

LEMMA Left ==
  ASSUME TypeOK, NEW s \in Sessions, session[s] # NoCommand,
         session' = [session EXCEPT ![s] = NoCommand]
  PROVE  Leaves(s) /\ session[s] \in Calls
  BY DEF TypeOK, Leaves, OnlyOne

-----------------------------------------------------------------------------
(* The table shows no older report than it should.                         *)

\* A report that matches goes on doing so.
LEMMA MatchingGrows ==
  ASSUME reports \in Seq(Report), NEW r \in Report, reports' = Append(reports, r),
         NEW split, NEW psv
  PROVE  /\ reports' \in Seq(Report) /\ Len(reports') = Len(reports) + 1
         /\ Matches(reports, split, psv) \in SUBSET Matches(reports', split, psv)
         /\ r = [split |-> split, psv |-> psv] => Len(reports) + 1 \in Matches(reports', split, psv)
<1>1. /\ reports' \in Seq(Report) /\ Len(reports') = Len(reports) + 1
      /\ Len(reports) \in Nat /\ reports'[Len(reports) + 1] = r
      /\ \A i \in 1..Len(reports) : reports'[i] = reports[i]
  OBVIOUS
<1> QED BY <1>1 DEF Matches

\* A new invocation knows no report. (cmd_run, cmd_final)
LEMMA EnterKeepsReports ==
  ASSUME ReportsInv, NEW s \in Sessions, NEW split, NEW run, Enters(s, split, run),
         alone' \in BOOLEAN, alone' => alone,
         alone' => \A t \in Sessions : session[t] = NoCommand,
         IF split = "dev" THEN run \in 1..MaxRuns ELSE run = FinalRow,
         UNCHANGED <<files, faults>>
  PROVE  ReportsInv'
<1>1. TypeOK' BY DEF ReportsInv, TypeOK, Enters, OnlyOne, files
<1>2. RunsInBudget' BY DEF ReportsInv, RunsInBudget, Enters, OnlyOne
<1>3. OneAtATime' BY DEF OneAtATime, Enters, OnlyOne
<1>4. SessionsKnowReports'
  <2> SUFFICES ASSUME NEW t \in Sessions, session'[t] \in Calls
               PROVE  Knows(session'[t], reports', copies', final', alone')
    BY DEF SessionsKnowReports
  <2>1. CASE t = s BY <2>1 DEF Enters, Knows
  <2>2. CASE t # s
    <3>1. session'[t] = session[t] BY <2>2 DEF Enters, OnlyOne
    <3>2. UNCHANGED <<reports, copies, final>> BY DEF files
    <3> QED BY <3>1, <3>2 DEF ReportsInv, SessionsKnowReports, Knows
  <2> QED BY <2>1, <2>2
<1>5. RowsShowOwnReport' BY DEF ReportsInv, RowsShowOwnReport, files
<1> QED BY <1>1, <1>2, <1>3, <1>4, <1>5 DEF ReportsInv

\* Nor does one that ends leave anything to be known. (cmd_run, cmd_final)
LEMMA LeaveKeepsReports ==
  ASSUME ReportsInv, NEW s \in Sessions, Leaves(s),
         count' \in Nat, count' <= MaxRuns, locked' \in BOOLEAN, faults' \in Nat,
         UNCHANGED <<reports, copies, final, table, alone>>
  PROVE  ReportsInv'
<1>1. TypeOK' BY DEF ReportsInv, TypeOK, Leaves, OnlyOne
<1>2. RunsInBudget' BY DEF ReportsInv, RunsInBudget, Leaves, OnlyOne
<1>3. OneAtATime' BY DEF ReportsInv, OneAtATime, Leaves, OnlyOne
<1>4. SessionsKnowReports'
  <2>1. \A t \in Sessions : session'[t] \in Calls => session'[t] = session[t]
    BY IdleIsNoCall DEF Leaves, OnlyOne
  <2> QED BY <2>1 DEF ReportsInv, SessionsKnowReports
<1>5. RowsShowOwnReport' BY DEF ReportsInv, RowsShowOwnReport
<1> QED BY <1>1, <1>2, <1>3, <1>4, <1>5 DEF ReportsInv

\* An invocation that goes on is the same one.
LEMMA AdvanceKeepsOrder ==
  ASSUME ReportsInv, NEW s \in Sessions, NEW step, NEW own, Advances(s, step, own),
         UNCHANGED alone
  PROVE  RunsInBudget' /\ OneAtATime'
<1>1. \A t \in Sessions :
        /\ session'[t] # NoCommand => session[t] # NoCommand
        /\ session'[t].split = session[t].split /\ session'[t].run = session[t].run
  BY IdleIsNoCall DEF Advances, OnlyOne
<1> QED BY <1>1 DEF ReportsInv, RunsInBudget, OneAtATime

\* Without another shell every other one is idle.
LEMMA OthersIdle ==
  ASSUME TypeOK, OneAtATime, alone, NEW s \in Sessions, session[s] \in Calls,
         NEW t \in Sessions, session[t] \in Calls
  PROVE  t = s
  BY IdleIsNoCall DEF OneAtATime

\* The report of an evaluation is the newest there is. (_run_eval)
LEMMA EvaluateKeepsReports ==
  ASSUME ReportsInv, NEW s \in Sessions, Evaluate(s)
  PROVE  ReportsInv'
<1> DEFINE n == Len(reports) + 1
           r == [split |-> session[s].split, psv |-> session[s].psv]
<1>1. Advances(s, "evaluated", n)
  <2>1. n \in Nat BY DEF ReportsInv, TypeOK
  <2> HIDE DEF n
  <2>2. session' = [session EXCEPT ![s].at = "evaluated", ![s].own = n]
    BY DEF Evaluate, n
  <2>3. session[s].at \in Steps BY DEF Evaluate, Steps
  <2> QED BY <2>1, <2>2, <2>3, Advanced DEF ReportsInv, Steps
<1>2. session[s] \in Calls /\ r \in Report
  BY <1>1 DEF Advances, Calls, Report
<1>3. /\ reports' = Append(reports, r)
      /\ UNCHANGED <<count, locked, copies, final, table, alone, faults>>
  BY DEF Evaluate
<1>4. reports \in Seq(Report) BY DEF ReportsInv, TypeOK
<1> HIDE DEF r
<1>5. /\ reports' \in Seq(Report) /\ Len(reports') = n
      /\ \A p, q : Matches(reports, p, q) \in SUBSET Matches(reports', p, q)
      /\ n \in Matches(reports', session[s].split, session[s].psv)
  BY <1>2, <1>3, <1>4, MatchingGrows DEF r
<1> HIDE DEF n
<1>6. TypeOK'
  BY <1>1, <1>3, <1>5 DEF ReportsInv, TypeOK, Advances, OnlyOne
<1>7. RunsInBudget' /\ OneAtATime' BY <1>1, <1>3, AdvanceKeepsOrder
<1>8. SessionsKnowReports'
  <2> SUFFICES ASSUME NEW t \in Sessions, session'[t] \in Calls
               PROVE  Knows(session'[t], reports', copies', final', alone')
    BY DEF SessionsKnowReports
  <2>1. CASE t = s BY <1>1, <1>5, <2>1 DEF Advances, Knows
  <2>2. CASE t # s
    <3>1. session'[t] = session[t] BY <1>1, <2>2 DEF Advances, OnlyOne
    <3>2. ~ alone
      BY <1>1, <2>2, <3>1, OthersIdle DEF ReportsInv, Advances
    <3>3. Knows(session[t], reports, copies, final, alone)
      BY <3>1 DEF ReportsInv, SessionsKnowReports
    <3> QED BY <1>3, <1>5, <3>1, <3>2, <3>3 DEF Knows
  <2> QED BY <2>1, <2>2
<1>9. RowsShowOwnReport' BY <1>3 DEF ReportsInv, RowsShowOwnReport
<1> QED BY <1>6, <1>7, <1>8, <1>9 DEF ReportsInv

\* The newest report of the version and split is no older than the session's own,
\* and is its own if nobody else evaluates. (_run_eval, cmd_run, cmd_final)
LEMMA CopyKeepsReports ==
  ASSUME ReportsInv, NEW s \in Sessions, Copy(s)
  PROVE  ReportsInv'
<1> DEFINE c == session[s]
           n == Newest(c.split, c.psv)
           k == <<c.run, c.psv>>
<1>1. Advances(s, "copied", c.own)
  <2>1. session' = [session EXCEPT ![s].at = "copied"] /\ session[s].at \in Steps
    BY DEF Copy, Steps
  <2> QED BY <2>1, Advanced DEF ReportsInv, Steps
<1>2. /\ c \in Calls /\ c.at = "evaluated"
      /\ c.split \in Splits /\ c.psv \in Versions /\ c.own \in Nat
  BY <1>1 DEF Copy, Advances, Calls
<1>3. /\ c.own \in Matches(reports, c.split, c.psv)
      /\ alone => c.own = Len(reports)
  BY <1>2 DEF ReportsInv, SessionsKnowReports, Knows
<1>4. /\ n \in Nat /\ n >= c.own
      /\ alone => n = c.own
  BY <1>2, <1>3, NewestIsNewest DEF ReportsInv, TypeOK
<1>5. c.split = "dev" => k \in (1..MaxRuns) \X Versions
  <2>1. session[s] # NoCommand BY <1>2, IdleIsNoCall
  <2> QED BY <1>2, <2>1 DEF ReportsInv, RunsInBudget
<1>6. /\ UNCHANGED <<count, locked, reports, table, alone, faults>>
      /\ c.split = "dev" => copies' = [copies EXCEPT ![k] = n] /\ final' = final
      /\ c.split # "dev" => final' = n /\ copies' = copies
  BY DEF Copy
<1>7. copies \in [(1..MaxRuns) \X Versions -> Nat] /\ final \in Nat
  BY DEF ReportsInv, TypeOK
<1> HIDE DEF c, n, k
<1>8. /\ copies' \in [(1..MaxRuns) \X Versions -> Nat] /\ final' \in Nat
      /\ \A x \in (1..MaxRuns) \X Versions :
           copies'[x] = IF c.split = "dev" /\ x = k THEN n ELSE copies[x]
      /\ final' = IF c.split = "dev" THEN final ELSE n
  BY <1>4, <1>5, <1>6, <1>7
<1>9. TypeOK' BY <1>1, <1>6, <1>8 DEF ReportsInv, TypeOK, Advances, OnlyOne
<1>10. RunsInBudget' /\ OneAtATime' BY <1>1, <1>6, AdvanceKeepsOrder
<1>11. SessionsKnowReports'
  <2> SUFFICES ASSUME NEW t \in Sessions, session'[t] \in Calls
               PROVE  Knows(session'[t], reports', copies', final', alone')
    BY DEF SessionsKnowReports
  <2>1. reports' = reports BY <1>6
  <2>2. CASE t = s
    <3>1. /\ session'[t].at = "copied" /\ session'[t].own = c.own
          /\ session'[t].split = c.split /\ <<session'[t].run, session'[t].psv>> = k
      BY <1>1, <2>2 DEF Advances, c, k
    <3>2. session'[t].psv = c.psv BY <1>1, <2>2 DEF Advances, c
    <3>3. c.split = "dev" => copies'[k] = n BY <1>5, <1>8
    <3>4. c.split # "dev" => final' = n BY <1>8
    <3> QED BY <1>3, <1>4, <1>6, <2>1, <3>1, <3>2, <3>3, <3>4 DEF Knows
  <2>3. CASE t # s
    <3>1. session'[t] = session[t] BY <1>1, <2>3 DEF Advances, OnlyOne
    <3>2. ~ alone
      BY <1>1, <2>3, <3>1, OthersIdle DEF ReportsInv, Advances
    <3> DEFINE d == session[t]
    <3>3. /\ d.at # "evaluating" => d.own \in Matches(reports, d.split, d.psv)
          /\ d.at = "copied" /\ d.split = "dev" => copies[<<d.run, d.psv>>] >= d.own
      BY <3>1 DEF ReportsInv, SessionsKnowReports, Knows
    <3>4. d \in Calls BY <3>1
    <3>5. d.split = "dev" => <<d.run, d.psv>> \in (1..MaxRuns) \X Versions
      BY <3>4, IdleIsNoCall DEF ReportsInv, RunsInBudget, Calls
    <3>6. d.at = "copied" /\ d.split = "dev" => copies'[<<d.run, d.psv>>] >= d.own
      <4> SUFFICES ASSUME d.at = "copied", d.split = "dev"
                   PROVE  copies'[<<d.run, d.psv>>] >= d.own
        OBVIOUS
      <4>1. CASE c.split = "dev" /\ <<d.run, d.psv>> = k
        <5>1. d.run = c.run /\ d.psv = c.psv BY <4>1 DEF k
        <5>2. d.own \in Matches(reports, c.split, c.psv) BY <3>3, <4>1, <5>1
        <5>3. d.own <= n BY <1>2, <5>2, NewestIsNewest DEF ReportsInv, n
        <5>4. copies'[<<d.run, d.psv>>] = n BY <1>5, <1>8, <4>1
        <5>5. d.own \in Nat BY <3>4 DEF Calls
        <5> QED BY <1>4, <5>3, <5>4, <5>5
      <4>2. CASE ~ (c.split = "dev" /\ <<d.run, d.psv>> = k)
        <5>1. copies'[<<d.run, d.psv>>] = copies[<<d.run, d.psv>>]
          BY <1>8, <3>5, <4>2
        <5> QED BY <3>3, <5>1
      <4> QED BY <4>1, <4>2
    <3> QED BY <1>6, <2>1, <3>1, <3>2, <3>3, <3>6 DEF Knows
  <2> QED BY <2>2, <2>3
<1>12. RowsShowOwnReport' BY <1>6 DEF ReportsInv, RowsShowOwnReport
<1> QED BY <1>9, <1>10, <1>11, <1>12 DEF ReportsInv

\* The row is made of the copy. (_append_comparison_row)
LEMMA LogKeepsReports ==
  ASSUME ReportsInv, NEW s \in Sessions, Log(s)
  PROVE  ReportsInv'
<1> DEFINE c == session[s]
           shown == IF c.split = "dev" THEN copies[<<c.run, c.psv>>] ELSE final
           row == [run |-> c.run, own |-> c.own, report |-> shown]
<1>1. Advances(s, "logged", c.own)
  <2>1. session' = [session EXCEPT ![s].at = "logged"] /\ session[s].at \in Steps
    BY DEF Log, Steps
  <2> QED BY <2>1, Advanced DEF ReportsInv, Steps
<1>2. /\ c \in Calls /\ c.at = "copied" /\ c # NoCommand
      /\ c.split \in Splits /\ c.psv \in Versions /\ c.own \in Nat /\ c.run \in Nat
  BY <1>1, IdleIsNoCall DEF Log, Advances, Calls
<1>3. /\ c.split = "dev" => shown >= c.own
      /\ alone => shown = c.own
  BY <1>2 DEF ReportsInv, SessionsKnowReports, Knows
<1>4. shown \in Nat
  <2>1. CASE c.split = "dev"
    <3>1. <<c.run, c.psv>> \in (1..MaxRuns) \X Versions
      BY <1>2, <2>1 DEF ReportsInv, RunsInBudget
    <3> QED BY <2>1, <3>1 DEF ReportsInv, TypeOK
  <2>2. CASE c.split # "dev" BY <2>2 DEF ReportsInv, TypeOK
  <2> QED BY <2>1, <2>2
<1>5. c.split # "dev" => c.run = FinalRow
  BY <1>2 DEF ReportsInv, RunsInBudget
<1>6. /\ table' = Append(table, row)
      /\ UNCHANGED <<count, locked, reports, copies, final, alone, faults>>
  BY DEF Log
<1>7. row \in Row /\ row.run = c.run /\ row.own = c.own /\ row.report = shown
  BY <1>2, <1>4 DEF Row
<1>8. table \in Seq(Row) BY DEF ReportsInv, TypeOK
<1> HIDE DEF c, row, shown
<1>9. /\ table' \in Seq(Row) /\ Len(table) \in Nat /\ Len(table') = Len(table) + 1
      /\ table'[Len(table) + 1] = row
      /\ \A i \in 1..Len(table) : table'[i] = table[i]
  BY <1>6, <1>7, <1>8
<1>10. TypeOK' BY <1>1, <1>6, <1>9 DEF ReportsInv, TypeOK, Advances, OnlyOne
<1>11. RunsInBudget' /\ OneAtATime' BY <1>1, <1>6, AdvanceKeepsOrder
<1>12. SessionsKnowReports'
  <2>1. reports' = reports BY <1>6
  <2>2. \A t \in Sessions : t # s => session'[t] = session[t]
    BY <1>1 DEF Advances, OnlyOne
  <2>3. /\ session'[s].at = "logged" /\ session'[s].own = session[s].own
        /\ session'[s].split = session[s].split /\ session'[s].psv = session[s].psv
        /\ session[s] \in Calls /\ session[s].at # "evaluating"
    BY <1>1, <1>2 DEF Advances, c
  <2>4. session[s].own \in Matches(reports, session[s].split, session[s].psv)
    BY <2>3 DEF ReportsInv, SessionsKnowReports, Knows
  <2> SUFFICES ASSUME NEW t \in Sessions, session'[t] \in Calls
               PROVE  Knows(session'[t], reports', copies', final', alone')
    BY DEF SessionsKnowReports
  <2>5. CASE t = s BY <2>1, <2>3, <2>4, <2>5 DEF Knows
  <2>6. CASE t # s
    BY <1>6, <2>1, <2>2, <2>6 DEF ReportsInv, SessionsKnowReports
  <2> QED BY <2>5, <2>6
<1>13. RowsShowOwnReport'
  <2> SUFFICES ASSUME NEW i \in 1..Len(table')
               PROVE  /\ alone' => table'[i].report = table'[i].own
                      /\ table'[i].run # FinalRow => table'[i].report >= table'[i].own
    BY DEF RowsShowOwnReport
  <2>1. CASE i = Len(table) + 1
    BY <1>2, <1>3, <1>5, <1>6, <1>7, <1>9, <2>1 DEF Splits
  <2>2. CASE i \in 1..Len(table)
    BY <1>6, <1>9, <2>2 DEF ReportsInv, RowsShowOwnReport
  <2> QED BY <1>9, <2>1, <2>2
<1> QED BY <1>10, <1>11, <1>12, <1>13 DEF ReportsInv

\* No shell starts with a report or a row.
LEMMA ReportsInvStarts == Init => ReportsInv
<1> SUFFICES ASSUME Init PROVE ReportsInv OBVIOUS
<1>1. TypeOK
  <2>1. <<>> \in Seq(Report) /\ <<>> \in Seq(Row) OBVIOUS
  <2>2. session \in [Sessions -> Calls \union {NoCommand}] BY DEF Init
  <2>3. copies \in [(1..MaxRuns) \X Versions -> Nat] BY DEF Init, NoReport
  <2>4. count \in Nat /\ count <= MaxRuns BY ExperimentsAssumption DEF Init
  <2> QED BY <2>1, <2>2, <2>3, <2>4 DEF Init, TypeOK, NoReport
<1>2. \A s \in Sessions : session[s] = NoCommand BY DEF Init
<1>3. Len(table) = 0 BY DEF Init
<1>4. RunsInBudget /\ OneAtATime BY <1>2 DEF RunsInBudget, OneAtATime
<1>5. SessionsKnowReports BY <1>2, IdleIsNoCall DEF SessionsKnowReports
<1>6. RowsShowOwnReport BY <1>3 DEF RowsShowOwnReport
<1> QED BY <1>1, <1>4, <1>5, <1>6 DEF ReportsInv

\* How an invocation begins: alone or not, with a run of the budget.
LEMMA BeginEnters ==
  ASSUME TypeOK, NEW s \in Sessions, BeginRun(s) \/ BeginFinal(s)
  PROVE  \E split \in Splits, run \in Nat :
           /\ Enters(s, split, run)
           /\ split = "dev" => run = count + 1 /\ run \in 1..MaxRuns
           /\ split = "test" => run = FinalRow /\ locked = FALSE
           /\ alone' \in BOOLEAN /\ (alone' => alone)
           /\ alone' => \A t \in Sessions : session[t] = NoCommand
           /\ UNCHANGED <<files, faults>>
<1>1. CASE BeginRun(s)
  <2>1. PICK psv \in Versions : Starts(s, "dev", NextRun(count), psv)
    BY <1>1 DEF BeginRun
  <2>2. count + 1 \in 1..MaxRuns /\ NextRun(count) = count + 1 /\ count + 1 \in Nat
    BY <1>1, ExperimentsAssumption DEF TypeOK, BeginRun, MayRun, NextRun
  <2>3. /\ Enters(s, "dev", count + 1)
        /\ alone' => \A t \in Sessions : session[t] = NoCommand
    BY <1>1, <2>1, <2>2, Entered DEF BeginRun, Splits
  <2>4. alone' \in BOOLEAN /\ (alone' => alone) BY <2>1 DEF Starts, TypeOK
  <2> QED BY <1>1, <2>2, <2>3, <2>4 DEF BeginRun, Splits
<1>2. CASE BeginFinal(s)
  <2>1. PICK psv \in Versions : Starts(s, "test", FinalRow, psv)
    BY <1>2 DEF BeginFinal
  <2>2. FinalRow \in Nat BY DEF FinalRow
  <2>3. /\ Enters(s, "test", FinalRow)
        /\ alone' => \A t \in Sessions : session[t] = NoCommand
    BY <1>2, <2>1, <2>2, Entered DEF BeginFinal, Splits
  <2>4. alone' \in BOOLEAN /\ (alone' => alone) BY <2>1 DEF Starts, TypeOK
  <2>5. locked = FALSE BY <1>2 DEF BeginFinal, TypeOK
  <2> QED BY <1>2, <2>2, <2>3, <2>4, <2>5 DEF BeginFinal, Splits
<1> QED BY <1>1, <1>2

\* How one ends: its run is counted or the lock is set, or it is interrupted.
LEMMA EndLeaves ==
  ASSUME TypeOK, RunsInBudget, NEW s \in Sessions, Finish(s) \/ Interrupt(s)
  PROVE  /\ Leaves(s) /\ session[s] \in Calls
         /\ count' \in Nat /\ count' <= MaxRuns /\ locked' \in BOOLEAN /\ faults' \in Nat
         /\ UNCHANGED <<reports, copies, final, table, alone>>
<1>1. CASE Finish(s)
  <2>1. session[s].at \in Steps BY <1>1 DEF Finish, Recorded, Steps
  <2>2. session[s] # NoCommand BY <2>1, IdleIsNoCall
  <2>3. Leaves(s) /\ session[s] \in Calls BY <1>1, <2>2, Left DEF Finish
  <2>4. session[s].split = "dev" => session[s].run \in 1..MaxRuns
    BY <2>2 DEF RunsInBudget
  <2>5. count' \in Nat /\ count' <= MaxRuns /\ locked' \in BOOLEAN
    <3>1. CASE session[s].split = "dev"
      <4>1. count' = session[s].run /\ locked' = locked BY <1>1, <3>1 DEF Finish
      <4> QED BY <2>4, <3>1, <4>1, ExperimentsAssumption DEF TypeOK
    <3>2. CASE session[s].split # "dev"
      <4>1. count' = count /\ locked' = TRUE BY <1>1, <3>2 DEF Finish
      <4> QED BY <4>1 DEF TypeOK
    <3> QED BY <3>1, <3>2
  <2> QED BY <1>1, <2>3, <2>5 DEF Finish, TypeOK
<1>2. CASE Interrupt(s)
  <2>1. Leaves(s) /\ session[s] \in Calls BY <1>2, Left DEF Interrupt
  <2> QED BY <1>2, <2>1 DEF Interrupt, files, TypeOK
<1> QED BY <1>1, <1>2

\* Every step keeps what the sessions and the table show.
LEMMA ReportsInvStays == ReportsInv /\ [Next]_vars => ReportsInv'
<1> SUFFICES ASSUME ReportsInv, [Next]_vars PROVE ReportsInv' OBVIOUS
<1>1. ASSUME NEW s \in Sessions, BeginRun(s) \/ BeginFinal(s) PROVE ReportsInv'
  <2>1. PICK split \in Splits, run \in Nat :
           /\ Enters(s, split, run)
           /\ split = "dev" => run = count + 1 /\ run \in 1..MaxRuns
           /\ split = "test" => run = FinalRow /\ locked = FALSE
           /\ alone' \in BOOLEAN /\ (alone' => alone)
           /\ alone' => \A t \in Sessions : session[t] = NoCommand
           /\ UNCHANGED <<files, faults>>
    BY <1>1, BeginEnters DEF ReportsInv
  <2> QED BY <2>1, EnterKeepsReports DEF Splits
<1>2. ASSUME NEW s \in Sessions, Finish(s) \/ Interrupt(s) PROVE ReportsInv'
  BY <1>2, EndLeaves, LeaveKeepsReports DEF ReportsInv
<1>3. CASE UNCHANGED vars
  <2>1. TypeOK' /\ RunsInBudget' /\ OneAtATime'
    BY <1>3 DEF ReportsInv, TypeOK, RunsInBudget, OneAtATime, vars, files
  <2>2. SessionsKnowReports' /\ RowsShowOwnReport'
    BY <1>3 DEF ReportsInv, SessionsKnowReports, RowsShowOwnReport, vars, files
  <2> QED BY <2>1, <2>2 DEF ReportsInv
<1> QED
  BY <1>1, <1>2, <1>3, EvaluateKeepsReports, CopyKeepsReports, LogKeepsReports
  DEF Next, cmd_run, cmd_final

LEMMA ReportsInvHolds == Spec => []ReportsInv
  BY ReportsInvStarts, ReportsInvStays, PTL DEF Spec

\* Whatever the interleaving of the shells, a tuning run is never shown with a
\* report older than its own, and where the shells take turns every row shows
\* exactly the report of its evaluation. (_run_eval)
THEOREM RowsShowReports == Spec => []RowsShowOwnReport
<1>1. ReportsInv => RowsShowOwnReport BY DEF ReportsInv
<1> QED BY <1>1, ReportsInvHolds, PTL

-----------------------------------------------------------------------------
(* What is counted is in the table.                                        *)

\* Every step keeps the counted runs in the table.
LEMMA LoggedInvStays == TypeOK /\ RunsInBudget /\ LoggedInv /\ [Next]_vars => LoggedInv'
<1> SUFFICES ASSUME TypeOK, RunsInBudget, LoggedInv, [Next]_vars PROVE LoggedInv'
  OBVIOUS
<1>1. ASSUME NEW s \in Sessions, BeginRun(s) \/ BeginFinal(s) PROVE LoggedInv'
  <2>1. PICK split \in Splits, run \in Nat :
           /\ Enters(s, split, run)
           /\ split = "dev" => run = count + 1 /\ run \in 1..MaxRuns
           /\ split = "test" => run = FinalRow /\ locked = FALSE
           /\ alone' \in BOOLEAN /\ (alone' => alone)
           /\ alone' => \A t \in Sessions : session[t] = NoCommand
           /\ UNCHANGED <<files, faults>>
    BY <1>1, BeginEnters
  <2>2. table' = table /\ count' = count /\ locked' = locked BY <2>1 DEF files
  <2>3. CountedIsLogged' BY <2>2 DEF LoggedInv, CountedIsLogged
  <2>4. split = "dev" => 1..(run - 1) = 1..count BY <2>1 DEF TypeOK
  <2>5. \A n \in 1..count : \E i \in 1..Len(table) : table[i].run = n
    BY DEF LoggedInv, CountedIsLogged
  <2>6. Follows(session'[s], table)
    BY <2>1, <2>4, <2>5 DEF Follows, Enters
  <2>7. SessionsFollowTable'
    BY <2>1, <2>2, <2>6 DEF LoggedInv, SessionsFollowTable, Enters, OnlyOne
  <2> QED BY <2>3, <2>7 DEF LoggedInv
<1>2. ASSUME NEW s \in Sessions, NEW step \in Steps, NEW own, Advances(s, step, own),
             step # "logged", UNCHANGED <<table, count, locked>>
      PROVE  LoggedInv'
  <2>1. CountedIsLogged' BY <1>2 DEF LoggedInv, CountedIsLogged
  <2>2. session[s] \in Calls => Follows(session[s], table)
    BY DEF LoggedInv, SessionsFollowTable
  <2>3. Follows(session'[s], table) BY <1>2, <2>2 DEF Follows, Advances
  <2>4. SessionsFollowTable'
    BY <1>2, <2>3 DEF LoggedInv, SessionsFollowTable, Advances, OnlyOne
  <2> QED BY <2>1, <2>4 DEF LoggedInv
<1>3. ASSUME NEW s \in Sessions, Evaluate(s) PROVE LoggedInv'
  <2> DEFINE n == Len(reports) + 1
  <2>1. n \in Nat BY DEF TypeOK
  <2>2. session' = [session EXCEPT ![s].at = "evaluated", ![s].own = n]
    BY <1>3 DEF Evaluate
  <2> HIDE DEF n
  <2>3. session[s].at \in Steps BY <1>3 DEF Evaluate, Steps
  <2>4. Advances(s, "evaluated", n) BY <2>1, <2>2, <2>3, Advanced DEF Steps
  <2> QED BY <1>2, <1>3, <2>4 DEF Evaluate, Steps
<1>4. ASSUME NEW s \in Sessions, Copy(s) PROVE LoggedInv'
  <2>1. session' = [session EXCEPT ![s].at = "copied"] /\ session[s].at \in Steps
    BY <1>4 DEF Copy, Steps
  <2>2. Advances(s, "copied", session[s].own) BY <2>1, Advanced DEF Steps
  <2> QED BY <1>2, <1>4, <2>2 DEF Copy, Steps
<1>5. ASSUME NEW s \in Sessions, Log(s) PROVE LoggedInv'
  <2>1. session' = [session EXCEPT ![s].at = "logged"] /\ session[s].at \in Steps
    BY <1>5 DEF Log, Steps
  <2>2. Advances(s, "logged", session[s].own) BY <2>1, Advanced DEF Steps
  <2>3. count' = count /\ locked' = locked BY <1>5 DEF Log
  <2>4. PICK shown : table' = Append(table, [run |-> session[s].run,
                                             own |-> session[s].own, report |-> shown])
    BY <1>5 DEF Log
  <2>5. table \in Seq(Row) BY DEF TypeOK
  <2>6. /\ Len(table) \in Nat /\ Len(table') = Len(table) + 1
        /\ \A i \in 1..Len(table) : table'[i] = table[i]
        /\ table'[Len(table) + 1].run = session[s].run
    BY <2>4, <2>5
  <2>7. \A n : (\E i \in 1..Len(table) : table[i].run = n) =>
               (\E i \in 1..Len(table') : table'[i].run = n)
    BY <2>6
  <2>8. \E i \in 1..Len(table') : table'[i].run = session[s].run BY <2>6
  <2>9. CountedIsLogged' BY <2>3, <2>7 DEF LoggedInv, CountedIsLogged
  <2>10. \A c : Follows(c, table) => Follows(c, table')
    BY <2>7 DEF Follows
  <2>11. Follows(session'[s], table')
    <3>1. Follows(session[s], table)
      BY <2>2 DEF LoggedInv, SessionsFollowTable, Advances
    <3>2. Follows(session[s], table') BY <2>10, <3>1
    <3> QED BY <2>2, <2>8, <3>2 DEF Follows, Advances
  <2>12. SessionsFollowTable'
    BY <2>2, <2>10, <2>11 DEF LoggedInv, SessionsFollowTable, Advances, OnlyOne
  <2> QED BY <2>9, <2>12 DEF LoggedInv
<1>6. ASSUME NEW s \in Sessions, Finish(s) \/ Interrupt(s) PROVE LoggedInv'
  <2>1. Leaves(s) /\ session[s] \in Calls /\ table' = table BY <1>6, EndLeaves
  <2>2. SessionsFollowTable'
    BY <2>1, IdleIsNoCall DEF LoggedInv, SessionsFollowTable, Leaves, OnlyOne
  <2>3. CASE Finish(s)
    <3>1. session[s].at = "logged" BY <2>3 DEF Finish, Recorded
    <3>2. \E i \in 1..Len(table) : table[i].run = session[s].run
      BY <2>1, <3>1 DEF LoggedInv, SessionsFollowTable, Follows
    <3>3. CASE session[s].split = "dev"
      <4>1. count' = session[s].run /\ locked' = locked BY <2>3, <3>3 DEF Finish
      <4>2. session[s].run \in Nat BY <2>1 DEF Calls
      <4>3. \A n \in 1..count' : n = count' \/ n \in 1..(session[s].run - 1)
        BY <4>1, <4>2
      <4>4. \A n \in 1..count' : \E i \in 1..Len(table) : table[i].run = n
        BY <2>1, <3>2, <3>3, <4>1, <4>3 DEF LoggedInv, SessionsFollowTable, Follows
      <4> QED BY <2>1, <2>2, <4>1, <4>4 DEF LoggedInv, CountedIsLogged
    <3>4. CASE session[s].split # "dev"
      <4>1. count' = count /\ locked' = TRUE BY <2>3, <3>4 DEF Finish
      <4>2. session[s].run = FinalRow BY <2>1, <3>4, IdleIsNoCall DEF RunsInBudget
      <4> QED BY <2>1, <2>2, <3>2, <4>1, <4>2 DEF LoggedInv, CountedIsLogged
    <3> QED BY <3>3, <3>4
  <2>4. CASE Interrupt(s)
    <3>1. count' = count /\ locked' = locked BY <2>4 DEF Interrupt, files
    <3> QED BY <2>1, <2>2, <3>1 DEF LoggedInv, CountedIsLogged
  <2> QED BY <1>6, <2>3, <2>4
<1>7. CASE UNCHANGED vars
  BY <1>7 DEF LoggedInv, SessionsFollowTable, CountedIsLogged, vars, files
<1> QED
  BY <1>1, <1>3, <1>4, <1>5, <1>6, <1>7 DEF Next, cmd_run, cmd_final

\* However the shells interleave and whatever is interrupted, each counted run has
\* its row in the table, and the lock follows that of the final evaluation.
\* (cmd_run, cmd_final)
THEOREM CountedRunsAreLogged == Spec => []CountedIsLogged
<1>1. Init => LoggedInv
  <2> SUFFICES ASSUME Init PROVE LoggedInv OBVIOUS
  <2>1. count = 0 /\ locked = FALSE BY DEF Init
  <2>2. \A s \in Sessions : session[s] = NoCommand BY DEF Init
  <2> QED BY <2>1, <2>2, IdleIsNoCall
          DEF LoggedInv, SessionsFollowTable, CountedIsLogged
<1>2. ReportsInv => TypeOK /\ RunsInBudget BY DEF ReportsInv
<1>3. LoggedInv => CountedIsLogged BY DEF LoggedInv
<1> QED BY <1>1, <1>2, <1>3, LoggedInvStays, ReportsInvHolds, PTL DEF Spec

-----------------------------------------------------------------------------
(* The budget.                                                             *)

\* The evaluations of a split are finitely many.
LEMMA WrittenType ==
  ASSUME NEW split
  PROVE  /\ IsFiniteSet({i \in 1..Len(reports) : reports[i].split = split})
         /\ Written(split) \in Nat
<1>1. IsFiniteSet(1..Len(reports)) BY FS_Interval
<1>2. {i \in 1..Len(reports) : reports[i].split = split} \in SUBSET (1..Len(reports))
  OBVIOUS
<1> QED BY <1>1, <1>2, FS_Subset, FS_CardinalityType DEF Written

\* A report more is one evaluation more of its split, and none of the other.
LEMMA WrittenGrows ==
  ASSUME reports \in Seq(Report), NEW r \in Report, NEW split
  PROVE  reports' = Append(reports, r) =>
           Written(split)' = IF r.split = split THEN Written(split) + 1 ELSE Written(split)
<1> DEFINE S == {i \in 1..Len(reports) : reports[i].split = split}
           T == {i \in 1..Len(reports') : reports'[i].split = split}
           n == Len(reports) + 1
<1>1. IsFiniteSet(S) /\ Cardinality(S) \in Nat BY WrittenType DEF Written
<1>2. Written(split) = Cardinality(S) /\ Written(split)' = Cardinality(T)
  BY DEF Written
<1>3. ASSUME reports' = Append(reports, r)
      PROVE  Cardinality(T) = IF r.split = split THEN Cardinality(S) + 1 ELSE Cardinality(S)
  <2>1. /\ Len(reports) \in Nat /\ Len(reports') = n /\ reports'[n] = r
        /\ \A i \in 1..Len(reports) : reports'[i] = reports[i]
    BY <1>3
  <2>2. T = IF r.split = split THEN S \union {n} ELSE S BY <2>1
  <2>3. n \notin S BY <2>1
  <2> HIDE DEF S, T
  <2> QED BY <1>1, <2>2, <2>3, FS_AddElement
<1> HIDE DEF S, T
<1> QED BY <1>1, <1>2, <1>3

\* While the shells take turns, only the invocation of one of them owes anything.
LEMMA OnlyOneOwes ==
  ASSUME TypeOK, OneAtATime, alone, NEW s \in Sessions, session[s] \in Calls,
         NEW t \in Sessions, NEW split, Owes(t, split)
  PROVE  t = s
  BY OthersIdle DEF Owes

\* The invocation that begins has the next run of the budget and owes nothing.
LEMMA BeginKeepsBudget ==
  ASSUME TypeOK, OneAtATime, BudgetInv, NEW s \in Sessions, BeginRun(s) \/ BeginFinal(s)
  PROVE  BudgetInv'
<1> SUFFICES ASSUME alone' PROVE BudgetInv' BY DEF BudgetInv
<1>1. PICK split \in Splits, run \in Nat :
         /\ Enters(s, split, run)
         /\ split = "dev" => run = count + 1 /\ run \in 1..MaxRuns
         /\ split = "test" => run = FinalRow /\ locked = FALSE
         /\ alone' \in BOOLEAN /\ (alone' => alone)
         /\ alone' => \A t \in Sessions : session[t] = NoCommand
         /\ UNCHANGED <<files, faults>>
  BY BeginEnters
<1>2. /\ alone /\ \A t \in Sessions : session[t] = NoCommand
      /\ UNCHANGED <<count, locked, reports, faults>>
  BY <1>1 DEF files
<1>3. \A t \in Sessions : t # s => session'[t] \notin Calls
  BY <1>1, <1>2, IdleIsNoCall DEF Enters, OnlyOne
<1>4. \A t \in Sessions : session'[t] \in Calls =>
        /\ session'[t].split = "dev" => session'[t].run = count' + 1 /\ count' < MaxRuns
        /\ session'[t].split = "test" => locked' = FALSE
  <2>1. count \in Nat BY DEF TypeOK
  <2>2. split = "dev" => count < MaxRuns BY <1>1, <2>1, ExperimentsAssumption
  <2>3. session'[s].split = split /\ session'[s].run = run BY <1>1 DEF Enters
  <2> QED BY <1>1, <1>2, <1>3, <2>2, <2>3
<1>5. \A x \in Splits : Written(x)' <= Done(x)' + faults'
  <2> SUFFICES ASSUME NEW x \in Splits PROVE Written(x)' <= Done(x)' + faults' OBVIOUS
  <2>1. \A t \in Sessions : ~ Owes(t, x) BY <1>2, IdleIsNoCall DEF Owes
  <2>2. Written(x) <= Done(x) + faults BY <1>2, <2>1 DEF BudgetInv
  <2>3. Written(x)' = Written(x) /\ Done(x)' = Done(x)
    BY <1>2 DEF Written, Done
  <2> QED BY <1>2, <2>2, <2>3
<1> QED BY <1>4, <1>5 DEF BudgetInv

\* The report of an evaluation is what its invocation comes to owe.
LEMMA EvaluateKeepsBudget ==
  ASSUME TypeOK, OneAtATime, BudgetInv, NEW s \in Sessions, Evaluate(s)
  PROVE  BudgetInv'
<1> SUFFICES ASSUME alone' PROVE BudgetInv' BY DEF BudgetInv
<1> DEFINE r == [split |-> session[s].split, psv |-> session[s].psv]
           n == Len(reports) + 1
<1>1. /\ alone /\ session[s].at = "evaluating" /\ reports' = Append(reports, r)
      /\ UNCHANGED <<count, locked, faults>>
  BY DEF Evaluate
<1>2. Advances(s, "evaluated", n)
  <2>1. n \in Nat BY DEF TypeOK
  <2>2. session' = [session EXCEPT ![s].at = "evaluated", ![s].own = n] BY DEF Evaluate
  <2> HIDE DEF n
  <2> QED BY <1>1, <2>1, <2>2, Advanced DEF Steps
<1>3. r \in Report /\ r.split = session[s].split
  BY <1>2 DEF Advances, Calls, Report
<1> HIDE DEF r, n
<1>4. \A t \in Sessions : session'[t] \in Calls => t = s
  BY <1>1, <1>2, OthersIdle DEF Advances, OnlyOne
<1>5. \A t \in Sessions : session'[t] \in Calls =>
        /\ session'[t].split = "dev" => session'[t].run = count' + 1 /\ count' < MaxRuns
        /\ session'[t].split = "test" => locked' = FALSE
  BY <1>1, <1>2, <1>4 DEF BudgetInv, Advances
<1>6. \A x \in Splits :
         \/ Written(x)' <= Done(x)' + faults'
         \/ /\ \E t \in Sessions : Owes(t, x)'
            /\ Written(x)' <= Done(x)' + 1 + faults'
  <2> SUFFICES ASSUME NEW x \in Splits
               PROVE  \/ Written(x)' <= Done(x)' + faults'
                      \/ /\ \E t \in Sessions : Owes(t, x)'
                         /\ Written(x)' <= Done(x)' + 1 + faults'
    OBVIOUS
  <2>1. \A t \in Sessions : ~ Owes(t, x)
    BY <1>1, <1>2, OnlyOneOwes DEF Owes, Advances
  <2>2. Written(x) <= Done(x) + faults BY <1>1, <2>1 DEF BudgetInv
  <2>3. Done(x)' = Done(x) /\ Done(x) \in Nat /\ faults' = faults /\ faults \in Nat
    BY <1>1 DEF Done, TypeOK
  <2>4. /\ Written(x) \in Nat
        /\ Written(x)' = IF session[s].split = x THEN Written(x) + 1 ELSE Written(x)
    BY <1>1, <1>3, WrittenGrows, WrittenType DEF TypeOK
  <2>5. session[s].split = x => Owes(s, x)' BY <1>2 DEF Owes, Advances
  <2> QED BY <2>2, <2>3, <2>4, <2>5
<1> QED BY <1>5, <1>6 DEF BudgetInv

\* An invocation that copies or logs goes on owing.
LEMMA AdvanceKeepsBudget ==
  ASSUME TypeOK, OneAtATime, BudgetInv, NEW s \in Sessions, NEW step, NEW own,
         Advances(s, step, own), session[s].at # "evaluating", step # "evaluating",
         UNCHANGED <<count, locked, reports, alone, faults>>
  PROVE  BudgetInv'
<1> SUFFICES ASSUME alone' PROVE BudgetInv' BY DEF BudgetInv
<1>1. \A t \in Sessions : session[t] \in Calls => t = s
  BY OthersIdle DEF Advances
<1>2. \A t \in Sessions : session'[t] \in Calls => t = s
  BY <1>1 DEF Advances, OnlyOne
<1>3. \A t \in Sessions : session'[t] \in Calls =>
        /\ session'[t].split = "dev" => session'[t].run = count' + 1 /\ count' < MaxRuns
        /\ session'[t].split = "test" => locked' = FALSE
  BY <1>2 DEF BudgetInv, Advances
<1>4. \A x \in Splits, t \in Sessions : Owes(t, x) => Owes(t, x)'
  BY <1>1 DEF Owes, Advances
<1>5. \A x : Written(x)' = Written(x) /\ Done(x)' = Done(x) BY DEF Written, Done
<1>6. \A x \in Splits :
         \/ Written(x)' <= Done(x)' + faults'
         \/ /\ \E t \in Sessions : Owes(t, x)'
            /\ Written(x)' <= Done(x)' + 1 + faults'
  BY <1>4, <1>5 DEF BudgetInv
<1> QED BY <1>3, <1>6 DEF BudgetInv

\* One that ends pays what it owes: by counting its run or setting the lock, or as
\* a fault.
LEMMA EndKeepsBudget ==
  ASSUME TypeOK, RunsInBudget, OneAtATime, BudgetInv,
         NEW s \in Sessions, Finish(s) \/ Interrupt(s)
  PROVE  BudgetInv'
<1> SUFFICES ASSUME alone' PROVE BudgetInv' BY DEF BudgetInv
<1>1. /\ Leaves(s) /\ session[s] \in Calls /\ alone /\ reports' = reports
  BY EndLeaves
<1>2. \A t \in Sessions : session'[t] \notin Calls
  BY <1>1, OthersIdle, IdleIsNoCall DEF Leaves, OnlyOne
<1>3. /\ session[s].split = "dev" => session[s].run = count + 1
      /\ session[s].split = "test" => locked = FALSE
      /\ session[s].split \in Splits
  BY <1>1 DEF BudgetInv, Calls
<1>4. \A x \in Splits : Written(x)' <= Done(x)' + faults'
  <2> SUFFICES ASSUME NEW x \in Splits PROVE Written(x)' <= Done(x)' + faults' OBVIOUS
  <2>1. Written(x)' = Written(x) /\ Written(x) \in Nat
    BY <1>1, WrittenType DEF Written
  <2>2. Done(x) \in Nat /\ faults \in Nat BY DEF Done, TypeOK
  <2>3. /\ x # session[s].split => Written(x) <= Done(x) + faults
        /\ Written(x) <= Done(x) + 1 + faults
    <3>1. \A t \in Sessions : Owes(t, x) => x = session[s].split
      BY <1>1, OnlyOneOwes DEF Owes
    <3>2. \/ Written(x) <= Done(x) + faults
          \/ /\ \E t \in Sessions : Owes(t, x)
             /\ Written(x) <= Done(x) + 1 + faults
      BY <1>1 DEF BudgetInv
    <3> QED BY <2>1, <2>2, <3>1, <3>2
  <2>4. CASE Finish(s)
    <3>1. faults' = faults BY <2>4 DEF Finish
    <3>2. CASE session[s].split = "dev"
      <4>1. count' = count + 1 /\ locked' = locked BY <1>3, <2>4, <3>2 DEF Finish
      <4>2. Done(x)' = IF x = "dev" THEN Done(x) + 1 ELSE Done(x) BY <4>1 DEF Done
      <4> QED BY <2>1, <2>2, <2>3, <3>1, <3>2, <4>2
    <3>3. CASE session[s].split = "test"
      <4>1. count' = count /\ locked' = TRUE /\ locked = FALSE
        BY <1>3, <2>4, <3>3 DEF Finish
      <4>2. Done(x)' = IF x = "test" THEN Done(x) + 1 ELSE Done(x)
        BY <4>1 DEF Done, Splits
      <4> QED BY <2>1, <2>2, <2>3, <3>1, <3>3, <4>2
    <3> QED BY <1>3, <3>2, <3>3 DEF Splits
  <2>5. CASE Interrupt(s)
    <3>1. faults' = faults + 1 /\ Done(x)' = Done(x)
      BY <2>5 DEF Interrupt, files, Done
    <3> QED BY <2>1, <2>2, <2>3, <3>1
  <2> QED BY <2>4, <2>5
<1> QED BY <1>2, <1>4 DEF BudgetInv

LEMMA BudgetInvStays ==
  TypeOK /\ RunsInBudget /\ OneAtATime /\ BudgetInv /\ [Next]_vars => BudgetInv'
<1> SUFFICES ASSUME TypeOK, RunsInBudget, OneAtATime, BudgetInv, [Next]_vars
             PROVE  BudgetInv'
  OBVIOUS
<1>1. ASSUME NEW s \in Sessions, Copy(s) PROVE BudgetInv'
  <2>1. /\ session' = [session EXCEPT ![s].at = "copied"]
        /\ session[s].at \in Steps /\ session[s].at # "evaluating"
        /\ UNCHANGED <<count, locked, reports, alone, faults>>
    BY <1>1 DEF Copy, Steps
  <2>2. Advances(s, "copied", session[s].own) BY <2>1, Advanced DEF Steps
  <2> QED BY <2>1, <2>2, AdvanceKeepsBudget
<1>2. ASSUME NEW s \in Sessions, Log(s) PROVE BudgetInv'
  <2>1. /\ session' = [session EXCEPT ![s].at = "logged"]
        /\ session[s].at \in Steps /\ session[s].at # "evaluating"
        /\ UNCHANGED <<count, locked, reports, alone, faults>>
    BY <1>2 DEF Log, Steps
  <2>2. Advances(s, "logged", session[s].own) BY <2>1, Advanced DEF Steps
  <2> QED BY <2>1, <2>2, AdvanceKeepsBudget
<1>3. CASE UNCHANGED vars
  <2>1. \A x : Written(x)' = Written(x) /\ Done(x)' = Done(x)
    BY <1>3 DEF Written, Done, vars, files
  <2>2. UNCHANGED <<count, locked, session, alone, faults>> BY <1>3 DEF vars, files
  <2>3. \A t, x : Owes(t, x)' = Owes(t, x) BY <2>2 DEF Owes
  <2> QED BY <2>1, <2>2, <2>3 DEF BudgetInv
<1> QED
  BY <1>1, <1>2, <1>3, BeginKeepsBudget, EvaluateKeepsBudget, EndKeepsBudget
  DEF Next, cmd_run, cmd_final

\* Where the shells take turns, the budget of evaluations is exceeded by no more
\* than the invocations that were interrupted or failed. (cmd_run, cmd_final)
THEOREM BudgetHolds == Spec => []BudgetUpToFaults
<1>1. Init => BudgetInv
  <2> SUFFICES ASSUME Init PROVE BudgetInv OBVIOUS
  <2>1. \A s \in Sessions : session[s] \notin Calls BY IdleIsNoCall DEF Init
  <2>2. \A x : Written(x) = 0
    <3>1. \A x : {i \in 1..Len(reports) : reports[i].split = x} = {} BY DEF Init
    <3>2. Cardinality({}) = 0 BY FS_EmptySet
    <3> QED BY <3>1, <3>2 DEF Written
  <2>3. \A x : Done(x) = 0 BY DEF Init, Done
  <2> QED BY <2>1, <2>2, <2>3 DEF Init, BudgetInv
<1>2. ReportsInv => TypeOK /\ RunsInBudget /\ OneAtATime BY DEF ReportsInv
<1>3. TypeOK /\ BudgetInv => BudgetUpToFaults
  <2> SUFFICES ASSUME TypeOK, BudgetInv, alone
               PROVE  Written("dev") <= MaxRuns + faults /\ Written("test") <= 1 + faults
    BY DEF BudgetUpToFaults
  <2>1. \A x : Written(x) \in Nat BY WrittenType
  <2>2. faults \in Nat /\ count \in Nat /\ count <= MaxRuns /\ MaxRuns \in Nat
    BY ExperimentsAssumption DEF TypeOK
  <2>3. Written("dev") <= MaxRuns + faults
    <3>1. CASE Written("dev") <= count + faults BY <2>1, <2>2, <3>1
    <3>2. CASE /\ \E s \in Sessions : Owes(s, "dev")
               /\ Written("dev") <= count + 1 + faults
      <4>1. count < MaxRuns BY <3>2 DEF BudgetInv, Owes
      <4> QED BY <2>1, <2>2, <3>2, <4>1
    <3> QED BY <3>1, <3>2 DEF BudgetInv, Done, Splits
  <2>4. Written("test") <= 1 + faults
    <3>1. CASE Written("test") <= Done("test") + faults
      <4>1. Done("test") \in {0, 1} BY DEF Done
      <4> QED BY <2>1, <2>2, <3>1, <4>1
    <3>2. CASE /\ \E s \in Sessions : Owes(s, "test")
               /\ Written("test") <= Done("test") + 1 + faults
      <4>1. locked = FALSE BY <3>2 DEF BudgetInv, Owes
      <4>2. Done("test") = 0 BY <4>1 DEF Done
      <4> QED BY <2>1, <2>2, <3>2, <4>2
    <3> QED BY <3>1, <3>2 DEF BudgetInv, Splits
  <2> QED BY <2>3, <2>4
<1> QED BY <1>1, <1>2, <1>3, BudgetInvStays, ReportsInvHolds, PTL DEF Spec
=============================================================================

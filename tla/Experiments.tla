----------------------------- MODULE Experiments -----------------------------
(***************************************************************************)
(* The prompt-tuning harness scripts/run_experiment.py: its state is a set *)
(* of files (a run counter, a lock, the copied reports and a comparison    *)
(* table), read and written by separate invocations of --run and --final,  *)
(* each of which may be interrupted.  The evaluation itself is a step that *)
(* writes a report.                                                        *)
(*                                                                         *)
(* A name with _Bad is a wrong variant of the definition that follows it.  *)
(***************************************************************************)
EXTENDS Naturals, Sequences, FiniteSets

CONSTANTS
  Sessions,    \* the shells from which the harness is started
  Versions,    \* the prompt versions, --psv
  MaxRuns,     \* MAX_RUNS
  MaxReports,  \* bound of the runs: reports ever written
  MaxFaults    \* bound of the runs: invocations that are interrupted or fail

ASSUME ExperimentsAssumption == MaxRuns \in Nat /\ MaxReports \in Nat /\ MaxFaults \in Nat

VARIABLES
  count,    \* run_count.txt, 0 when there is none
  locked,   \* the file experiments/locked
  reports,  \* eval_reports/ in the order of their times
  copies,   \* experiments/runs/: the report copied for a run and a version
  final,    \* final_result.json
  table,    \* the rows of comparison.md
  session,  \* the invocation in each shell
  alone,    \* history: no two invocations have overlapped so far
  faults    \* history: the invocations that were interrupted or failed

files == <<count, locked, reports, copies, final, table>>
vars == <<files, session, alone, faults>>

NoReport == 0
FinalRow == 0
NoCommand == [at |-> "idle"]

Init ==
  /\ count = 0 /\ locked = FALSE
  /\ reports = <<>> /\ final = NoReport /\ table = <<>>
  /\ copies = [rv \in (1..MaxRuns) \X Versions |-> NoReport]
  /\ session = [s \in Sessions |-> NoCommand]
  /\ alone = TRUE /\ faults = 0

-----------------------------------------------------------------------------

\* The run that starts counts as the one before it.
NextRun_BadSame(n) == IF n = 0 THEN 1 ELSE n
NextRun(n) == n + 1

Starts(s, split, run, psv) ==
  /\ session' = [session EXCEPT ![s] =
       [at |-> "evaluating", split |-> split, run |-> run, psv |-> psv, own |-> NoReport]]
  /\ alone' = (alone /\ \A t \in Sessions : session[t] = NoCommand)

MayRun == ~locked /\ count < MaxRuns

\* cmd_run up to the evaluation. A refused one changes nothing.
BeginRun(s) ==
  /\ session[s] = NoCommand
  /\ MayRun
  /\ \E psv \in Versions : Starts(s, "dev", NextRun(count), psv)
  /\ UNCHANGED <<files, faults>>

\* cmd_final, confirmed by the operator or by --yes.
BeginFinal(s) ==
  /\ session[s] = NoCommand
  /\ ~locked
  /\ \E psv \in Versions : Starts(s, "test", FinalRow, psv)
  /\ UNCHANGED <<files, faults>>

\* run_eval.py writes its report.
Evaluate(s) ==
  /\ session[s].at = "evaluating" /\ Len(reports) < MaxReports
  /\ reports' = Append(reports, [split |-> session[s].split, psv |-> session[s].psv])
  /\ session' = [session EXCEPT ![s].at = "evaluated", ![s].own = Len(reports) + 1]
  /\ UNCHANGED <<count, locked, copies, final, table, alone, faults>>

\* The report that is taken for that of the evaluation: the newest one of its
\* version and split.
Matching(split, psv) == {i \in 1..Len(reports) : reports[i] = [split |-> split, psv |-> psv]}
\* The oldest one is taken.
Newest_BadOldest(split, psv) ==
  CHOOSE i \in Matching(split, psv) : \A j \in Matching(split, psv) : i <= j
Newest(split, psv) ==
  CHOOSE i \in Matching(split, psv) : \A j \in Matching(split, psv) : j <= i

Copy(s) ==
  LET c == session[s] IN
  /\ c.at = "evaluated"
  /\ IF c.split = "dev"
       THEN /\ copies' = [copies EXCEPT ![<<c.run, c.psv>>] = Newest(c.split, c.psv)]
            /\ UNCHANGED final
       ELSE final' = Newest(c.split, c.psv) /\ UNCHANGED copies
  /\ session' = [session EXCEPT ![s].at = "copied"]
  /\ UNCHANGED <<count, locked, reports, table, alone, faults>>

\* _parse_report of the copy and _append_comparison_row.
Log(s) ==
  LET c == session[s] IN
  /\ c.at = "copied"
  /\ table' = Append(table,
       [run |-> c.run, own |-> c.own,
        report |-> IF c.split = "dev" THEN copies[<<c.run, c.psv>>] ELSE final])
  /\ session' = [session EXCEPT ![s].at = "logged"]
  /\ UNCHANGED <<count, locked, reports, copies, final, alone, faults>>

\* The counter or the lock is written once the row is in the table.
\* It is written as soon as the report is copied.
Recorded_BadEarly(at) == at \in {"copied", "logged"}
Recorded(at) == at = "logged"

Finish(s) ==
  LET c == session[s] IN
  /\ Recorded(c.at)
  /\ IF c.split = "dev" THEN count' = c.run /\ UNCHANGED locked
                        ELSE locked' = TRUE /\ UNCHANGED count
  /\ session' = [session EXCEPT ![s] = NoCommand]
  /\ UNCHANGED <<reports, copies, final, table, alone, faults>>

\* An exception, a failing subprocess (check=True) or a keyboard interrupt.
Interrupt(s) ==
  /\ session[s] # NoCommand
  /\ faults < MaxFaults /\ faults' = faults + 1
  /\ session' = [session EXCEPT ![s] = NoCommand]
  /\ UNCHANGED <<files, alone>>

-----------------------------------------------------------------------------

cmd_run(s) == BeginRun(s)
cmd_final(s) == BeginFinal(s)

Next ==
  \E s \in Sessions :
    \/ cmd_run(s) \/ cmd_final(s)
    \/ Evaluate(s) \/ Copy(s) \/ Log(s) \/ Finish(s) \/ Interrupt(s)

Spec == Init /\ [][Next]_vars

-----------------------------------------------------------------------------
(* Properties.                                                             *)

Written(split) == Cardinality({i \in 1..Len(reports) : reports[i].split = split})

\* Every counted run has a row in the table, and a lock is set only once the
\* row of the final evaluation is there, also when two shells run the harness
\* at the same time. (the order of the writes)
CountedIsLogged ==
  /\ \A n \in 1..count : \E i \in 1..Len(table) : table[i].run = n
  /\ locked => \E i \in 1..Len(table) : table[i].run = FinalRow

\* The row of an evaluation never shows an older report than its own: exactly
\* its own if no other shell was at work, and for a tuning run no older one
\* even so. (_run_eval guesses the report by its time)
RowsShowOwnReport ==
  \A i \in 1..Len(table) :
    /\ alone => table[i].report = table[i].own
    /\ table[i].run # FinalRow => table[i].report >= table[i].own

\* Whoever runs one invocation at a time evaluates outside the budget only by
\* interrupting some. (cmd_run, cmd_final)
BudgetUpToFaults ==
  alone => Written("dev") <= MaxRuns + faults /\ Written("test") <= 1 + faults
=============================================================================

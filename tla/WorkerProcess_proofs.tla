------------------------ MODULE WorkerProcess_proofs ------------------------
(***************************************************************************)
(* Proofs about WorkerProcess, for any number of processes and tasks.      *)
(***************************************************************************)
EXTENDS WorkerProcess, TLAPS

\* Where _run stands says which stores are open and who has ended.
PhaseInv ==
  \A p \in Processes :
    /\ phase[p] = "boot" =>
         /\ \A i \in Tasks : task[p][i] = "none"
         /\ \A d \in Daemons : daemon[p][d] = "none"
    /\ phase[p] \in {"serving", "draining", "cancelling"} => open[p] = Stores
    /\ phase[p] \in {"cancelling", "closing", "exited"} =>
         \A i \in Tasks : task[p][i] \in EndedTask
    /\ phase[p] \in {"closing", "exited"} =>
         \A d \in Daemons : daemon[p][d] = "stopped"

\* A task that took a message after the signal is never back at its pop.
LateInv ==
  \A p \in Processes, i \in Tasks :
    /\ late[p][i] <= 1
    /\ late[p][i] = 1 => shutdown[p] /\ task[p][i] # "popping"

ProcessInv == TypeOK /\ PhaseInv /\ LateInv

\* Boot starts nothing, and everything it starts starts at once. (_run)
LEMMA InitProcess == Init => ProcessInv
<1> SUFFICES ASSUME Init PROVE ProcessInv
  OBVIOUS
<1>1. TypeOK
  BY DEF Init, TypeOK, Phases, TaskStates, DaemonStates, Stores
<1>2. PhaseInv
  <2>1. ASSUME NEW p \in Processes
        PROVE  /\ phase[p] = "boot"
               /\ \A i \in Tasks : task[p][i] = "none"
               /\ \A d \in Daemons : daemon[p][d] = "none"
    BY DEF Init
  <2>2. ASSUME NEW p \in Processes
        PROVE  phase[p] \notin {"serving", "draining", "cancelling", "closing", "exited"}
    BY <2>1
  <2> QED BY <2>1, <2>2, Zenon DEF PhaseInv
<1>3. LateInv
  BY DEF Init, LateInv
<1> QED BY <1>1, <1>2, <1>3 DEF ProcessInv

\* One entry of a table of processes changes. (task, late and daemon)
LEMMA OneEntry ==
  ASSUME NEW A, NEW B, NEW S, NEW f \in [A -> [B -> S]], NEW a \in A, NEW b \in B,
         NEW v \in S, NEW g, g = [f EXCEPT ![a][b] = v]
  PROVE  /\ g \in [A -> [B -> S]]
         /\ \A x \in A, y \in B : g[x][y] = IF x = a /\ y = b THEN v ELSE f[x][y]
<1>1. [f[a] EXCEPT ![b] = v] \in [B -> S] OBVIOUS
<1>2. g = [f EXCEPT ![a] = [f[a] EXCEPT ![b] = v]] OBVIOUS
<1> QED BY <1>1, <1>2

\* The steps of _run keep ProcessInv.
LEMMA RunStep ==
  ASSUME ProcessInv, NEW p \in Processes, Run(p)
  PROVE  ProcessInv'
<1>0. TypeOK /\ PhaseInv /\ LateInv BY DEF ProcessInv
<1>1. CASE OpenPostgres(p)
  <2>1. TypeOK'
    <3>1. phase' \in [Processes -> Phases] BY <1>0, <1>1 DEF OpenPostgres, TypeOK, Phases
    <3>2. open' \in [Processes -> SUBSET Stores] BY <1>0, <1>1 DEF OpenPostgres, TypeOK, Stores
    <3> QED BY <1>0, <1>1, <3>1, <3>2 DEF OpenPostgres, TypeOK
  <2>2. PhaseInv'
    BY <1>0, <1>1 DEF OpenPostgres, TypeOK, PhaseInv, EndedTask
  <2>3. LateInv'
    BY <1>0, <1>1 DEF OpenPostgres, TypeOK, LateInv
  <2> QED BY <2>1, <2>2, <2>3 DEF ProcessInv
<1>2. CASE Start(p)
  <2>0. /\ UNCHANGED <<shutdown, late>>
        /\ phase' \in [Processes -> Phases]
    BY <1>0, <1>2 DEF Start, TypeOK, Phases
  <2>1. CASE phase' = [phase EXCEPT ![p] = "failed"] /\ UNCHANGED <<open, task, daemon>>
    <3>1. TypeOK' BY <1>0, <2>0, <2>1 DEF TypeOK
    <3>2. PhaseInv' BY <1>0, <2>1 DEF TypeOK, PhaseInv
    <3>3. LateInv' BY <1>0, <2>0, <2>1 DEF LateInv
    <3> QED BY <3>1, <3>2, <3>3 DEF ProcessInv
  <2>2. CASE /\ phase' = [phase EXCEPT ![p] = "serving"]
             /\ open' = [open EXCEPT ![p] = Stores]
             /\ task' = [task EXCEPT ![p] = [i \in Tasks |-> "loop"]]
             /\ daemon' = [daemon EXCEPT ![p] = [d \in Daemons |-> "ready"]]
    <3>1. task' \in [Processes -> [Tasks -> TaskStates]]
      BY <1>0, <2>2 DEF TypeOK, TaskStates
    <3>2. daemon' \in [Processes -> [Daemons -> DaemonStates]]
      BY <1>0, <2>2 DEF TypeOK, DaemonStates
    <3>3. open' \in [Processes -> SUBSET Stores]
      BY <1>0, <2>2 DEF TypeOK
    <3>4. TypeOK' BY <1>0, <2>0, <3>1, <3>2, <3>3 DEF TypeOK
    <3>5. \A q \in Processes : q # p => /\ phase'[q] = phase[q] /\ open'[q] = open[q]
                                        /\ task'[q] = task[q] /\ daemon'[q] = daemon[q]
      BY <1>0, <2>2 DEF TypeOK
    <3>6. phase'[p] = "serving" /\ open'[p] = Stores /\ \A i \in Tasks : task'[p][i] = "loop"
      BY <1>0, <2>2 DEF TypeOK
    <3>7. PhaseInv' BY <1>0, <3>5, <3>6 DEF PhaseInv
    <3>8. LateInv' BY <1>0, <2>0, <3>5, <3>6 DEF LateInv
    <3> QED BY <3>4, <3>7, <3>8 DEF ProcessInv
  <2> QED BY <1>2, <2>1, <2>2 DEF Start
<1>3. CASE BeginDrain(p)
  <2>1. TypeOK'
    BY <1>0, <1>3 DEF BeginDrain, TypeOK, Phases, TaskStates, DaemonStates, Stores
  <2>2. PhaseInv'
    BY <1>0, <1>3 DEF BeginDrain, TypeOK, PhaseInv, EndedTask
  <2>3. LateInv'
    BY <1>0, <1>3 DEF BeginDrain, TypeOK, LateInv
  <2> QED BY <2>1, <2>2, <2>3 DEF ProcessInv
<1>4. CASE CancelDaemons(p)
  <2>1. TypeOK'
    BY <1>0, <1>4 DEF CancelDaemons, TypeOK, Phases, TaskStates, DaemonStates, Stores
  <2>2. PhaseInv'
    BY <1>0, <1>4 DEF CancelDaemons, Drained, TypeOK, PhaseInv, EndedTask
  <2>3. LateInv'
    BY <1>0, <1>4 DEF CancelDaemons, TypeOK, LateInv
  <2> QED BY <2>1, <2>2, <2>3 DEF ProcessInv
<1>5. CASE ClosePostgres(p)
  <2>1. TypeOK'
    BY <1>0, <1>5 DEF ClosePostgres, TypeOK, Phases, TaskStates, DaemonStates, Stores
  <2>2. PhaseInv'
    BY <1>0, <1>5 DEF ClosePostgres, DaemonsEnded, TypeOK, PhaseInv, EndedTask
  <2>3. LateInv'
    BY <1>0, <1>5 DEF ClosePostgres, TypeOK, LateInv
  <2> QED BY <2>1, <2>2, <2>3 DEF ProcessInv
<1>6. CASE CloseRedis(p)
  <2>1. TypeOK'
    BY <1>0, <1>6 DEF CloseRedis, TypeOK, Phases, TaskStates, DaemonStates, Stores
  <2>2. PhaseInv'
    BY <1>0, <1>6 DEF CloseRedis, TypeOK, PhaseInv, EndedTask
  <2>3. LateInv'
    BY <1>0, <1>6 DEF CloseRedis, TypeOK, LateInv
  <2> QED BY <2>1, <2>2, <2>3 DEF ProcessInv
<1> QED BY <1>1, <1>2, <1>3, <1>4, <1>5, <1>6 DEF Run

\* So do a signal and the death of the process.
LEMMA SignalStep ==
  ASSUME ProcessInv, NEW p \in Processes, Signal(p) \/ Kill(p)
  PROVE  ProcessInv'
<1>0. TypeOK /\ PhaseInv /\ LateInv BY DEF ProcessInv
<1>1. CASE Signal(p)
  <2>1. TypeOK'
    BY <1>0, <1>1 DEF Signal, TypeOK, Phases, TaskStates, DaemonStates, Stores
  <2>2. PhaseInv'
    BY <1>0, <1>1 DEF Signal, TypeOK, PhaseInv, EndedTask
  <2>3. LateInv'
    BY <1>0, <1>1 DEF Signal, TypeOK, LateInv
  <2> QED BY <2>1, <2>2, <2>3 DEF ProcessInv
<1>2. CASE Kill(p)
  <2>1. TypeOK'
    BY <1>0, <1>2 DEF Kill, TypeOK, Phases, TaskStates, DaemonStates, Stores
  <2>2. PhaseInv'
    BY <1>0, <1>2 DEF Kill, TypeOK, PhaseInv, EndedTask
  <2>3. LateInv'
    BY <1>0, <1>2 DEF Kill, TypeOK, LateInv
  <2> QED BY <2>1, <2>2, <2>3 DEF ProcessInv
<1> QED BY <1>1, <1>2

\* So do the steps of a task: once stopped it stays so, and a task that took a
\* message after the signal stops when it comes back. (_worker_task)
LEMMA TaskStep ==
  ASSUME ProcessInv, NEW p \in Processes, NEW i \in Tasks, WorkerTask(p, i)
  PROVE  ProcessInv'
<1>0. TypeOK /\ PhaseInv /\ LateInv BY DEF ProcessInv
<1>1. PICK s \in {"loop", "popping", "running", "stopped", "dead"} :
        task' = [task EXCEPT ![p][i] = s]
  BY DEF WorkerTask, TestFlag, Pop, FinishJob
<1>2. /\ UNCHANGED <<phase, shutdown, daemon, open>>
      /\ Alive(p) /\ task[p][i] \in {"loop", "popping", "running"}
  BY DEF WorkerTask, TestFlag, Pop, FinishJob
<1>3. /\ task' \in [Processes -> [Tasks -> TaskStates]]
      /\ \A q \in Processes, j \in Tasks :
           task'[q][j] = IF q = p /\ j = i THEN s ELSE task[q][j]
  <2>1. s \in TaskStates BY DEF TaskStates
  <2>2. task \in [Processes -> [Tasks -> TaskStates]] BY <1>0 DEF TypeOK
  <2> HIDE DEF TaskStates
  <2> QED BY <1>1, <2>1, <2>2, OneEntry
<1>4. PhaseInv' BY <1>0, <1>2, <1>3 DEF PhaseInv, EndedTask
<1>5. CASE late' = late /\ (s = "popping" => ~shutdown[p])
  <2>1. TypeOK' BY <1>0, <1>2, <1>3, <1>5 DEF TypeOK
  <2>2. LateInv' BY <1>0, <1>2, <1>3, <1>5 DEF LateInv
  <2> QED BY <1>4, <2>1, <2>2 DEF ProcessInv
<1>6. CASE /\ task[p][i] = "popping" /\ s = "running" /\ shutdown[p]
           /\ late' = [late EXCEPT ![p][i] = @ + 1]
  <2>1. late[p][i] = 0 /\ late \in [Processes -> [Tasks -> Nat]]
    <3>1. late \in [Processes -> [Tasks -> Nat]] BY <1>0 DEF TypeOK
    <3>2. late[p][i] \in Nat BY <3>1
    <3>3. late[p][i] <= 1 /\ late[p][i] # 1 BY <1>0, <1>6 DEF LateInv
    <3> QED BY <3>1, <3>2, <3>3
  <2>2. late' = [late EXCEPT ![p][i] = 1] BY <1>6, <2>1
  <2>3. /\ late' \in [Processes -> [Tasks -> Nat]]
        /\ \A q \in Processes, j \in Tasks :
             late'[q][j] = IF q = p /\ j = i THEN 1 ELSE late[q][j]
    BY <2>1, <2>2, OneEntry
  <2>4. TypeOK' BY <1>0, <1>2, <1>3, <2>3 DEF TypeOK
  <2>5. LateInv' BY <1>0, <1>2, <1>3, <1>6, <2>3 DEF LateInv
  <2> QED BY <1>4, <2>4, <2>5 DEF ProcessInv
<1>7. \/ late' = late /\ (s = "popping" => ~shutdown[p])
      \/ /\ task[p][i] = "popping" /\ s = "running" /\ shutdown[p]
         /\ late' = [late EXCEPT ![p][i] = @ + 1]
  <2>0. task'[p][i] = s BY <1>3
  <2>1. CASE TestFlag(p, i) BY <1>0, <2>0, <2>1 DEF TestFlag, MayContinue, TypeOK
  <2>2. CASE Pop(p, i)
    <3>1. late' = late \/ (shutdown[p] /\ late' = [late EXCEPT ![p][i] = @ + 1])
      <4>1. late \in [Processes -> [Tasks -> Nat]] BY <1>0 DEF TypeOK
      <4>2. [late EXCEPT ![p][i] = @] = late BY <4>1
      <4> QED BY <2>2, <4>2 DEF Pop
    <3>2. late' # late => task' = [task EXCEPT ![p][i] = "running"]
      BY <2>2 DEF Pop
    <3>3. [task EXCEPT ![p][i] = "running"][p][i] = "running" BY <1>0 DEF TypeOK
    <3>4. s # "popping"
      <4>1. \A v : [task EXCEPT ![p][i] = v][p][i] = v BY <1>0 DEF TypeOK
      <4> QED BY <2>0, <2>2, <4>1 DEF Pop
    <3> QED BY <2>0, <2>2, <3>1, <3>2, <3>3, <3>4 DEF Pop
  <2>3. CASE FinishJob(p, i) BY <1>0, <2>0, <2>3 DEF FinishJob, TypeOK
  <2> QED BY <2>1, <2>2, <2>3 DEF WorkerTask
<1> QED BY <1>5, <1>6, <1>7

\* So do the steps of a daemon: once stopped it stays so.
LEMMA DaemonStep ==
  ASSUME ProcessInv, NEW p \in Processes, NEW d \in Daemons, Daemon(p, d)
  PROVE  ProcessInv'
<1>0. TypeOK /\ PhaseInv /\ LateInv BY DEF ProcessInv
<1>1. PICK s \in {"working", "sleeping", "stopped"} :
        daemon' = [daemon EXCEPT ![p][d] = s]
  BY DEF Daemon, DaemonPass, DaemonRest, DaemonCancelled
<1>2. /\ UNCHANGED <<phase, shutdown, task, late, open>>
      /\ daemon[p][d] \in {"ready", "working", "sleeping"}
  BY DEF Daemon, DaemonPass, DaemonRest, DaemonCancelled
<1>3. /\ daemon' \in [Processes -> [Daemons -> DaemonStates]]
      /\ \A q \in Processes, e \in Daemons :
           daemon'[q][e] = IF q = p /\ e = d THEN s ELSE daemon[q][e]
  <2>1. s \in DaemonStates BY DEF DaemonStates
  <2>2. daemon \in [Processes -> [Daemons -> DaemonStates]] BY <1>0 DEF TypeOK
  <2> HIDE DEF DaemonStates
  <2> QED BY <1>1, <2>1, <2>2, OneEntry
<1>4. TypeOK' BY <1>0, <1>2, <1>3 DEF TypeOK
<1>5. PhaseInv' BY <1>0, <1>2, <1>3 DEF PhaseInv
<1>6. LateInv' BY <1>0, <1>2 DEF LateInv
<1> QED BY <1>4, <1>5, <1>6 DEF ProcessInv

\* ProcessInv is an invariant of every worker process.
LEMMA ProcessInvHolds == Spec => []ProcessInv
<1>1. Init => ProcessInv BY InitProcess
<1>2. ProcessInv /\ [Next]_vars => ProcessInv'
  <2> SUFFICES ASSUME ProcessInv, [Next]_vars PROVE ProcessInv'
    OBVIOUS
  <2>1. CASE UNCHANGED vars
    BY <2>1 DEF vars, ProcessInv, TypeOK, PhaseInv, LateInv
  <2>2. CASE Next
    BY <2>2, RunStep, SignalStep, TaskStep, DaemonStep DEF Next
  <2> QED BY <2>1, <2>2
<1> QED BY <1>1, <1>2, PTL DEF Spec

\* The stores are closed only when every task has ended and no daemon works:
\* the tasks are gathered and the daemons awaited first. (_run)
THEOREM StoresClosedLast == Spec => []StoresOutliveTheirUsers
<1>1. ProcessInv => StoresOutliveTheirUsers
  BY DEF ProcessInv, TypeOK, Phases, PhaseInv, StoresOutliveTheirUsers, Alive, EndedTask,
         Daemons
<1> QED BY <1>1, ProcessInvHolds, PTL

\* A process that is told to stop takes at most one more message per task.
THEOREM AtMostOneLastJob == Spec => []OneLastJob
<1>1. ProcessInv => OneLastJob
  BY DEF ProcessInv, LateInv, OneLastJob
<1> QED BY <1>1, ProcessInvHolds, PTL

\* Only a leader is ever in the middle of a purge.
PurgeInv ==
  \A p \in Processes : daemon[p]["nightly_purge"] = "working" => Leads(p)

\* A purge starts at a leader, and no other step puts one to work.
LEMMA PurgeStep ==
  ASSUME TypeOK, PurgeInv, [Next]_vars
  PROVE  PurgeInv'
<1>0. daemon \in [Processes -> [Daemons -> DaemonStates]] BY DEF TypeOK
<1>1. CASE UNCHANGED daemon BY <1>1 DEF PurgeInv, Leads
<1>2. CASE \E p \in Processes : Start(p)
  <2>1. PICK p \in Processes : Start(p) BY <1>2
  <2>2. CASE daemon' = [daemon EXCEPT ![p] = [d \in Daemons |-> "ready"]]
    <3>1. \A q \in Processes : daemon'[q]["nightly_purge"] =
            IF q = p THEN "ready" ELSE daemon[q]["nightly_purge"]
      BY <1>0, <2>2 DEF Daemons
    <3> QED BY <3>1 DEF PurgeInv, Leads
  <2> QED BY <1>1, <2>1, <2>2 DEF Start
<1>3. CASE \E p \in Processes, d \in Daemons : Daemon(p, d)
  <2>1. PICK p \in Processes, d \in Daemons : Daemon(p, d) BY <1>3
  <2>2. PICK s \in {"working", "sleeping", "stopped"} :
          /\ daemon' = [daemon EXCEPT ![p][d] = s]
          /\ d = "nightly_purge" /\ s = "working" => Leads(p)
    BY <2>1 DEF Daemon, DaemonPass, DaemonRest, DaemonCancelled
  <2>3. s \in DaemonStates BY DEF DaemonStates
  <2>4. \A q \in Processes, e \in Daemons :
          daemon'[q][e] = IF q = p /\ e = d THEN s ELSE daemon[q][e]
    <3> HIDE DEF DaemonStates
    <3> QED BY <1>0, <2>2, <2>3, OneEntry
  <2>5. "nightly_purge" \in Daemons BY DEF Daemons
  <2> QED BY <2>2, <2>4, <2>5 DEF PurgeInv, Leads
<1> QED
  BY <1>1, <1>2, <1>3 DEF Next, vars, Run, OpenPostgres, BeginDrain, CancelDaemons,
     ClosePostgres, CloseRedis, Signal, Kill, WorkerTask, TestFlag, Pop, FinishJob

\* When the worker ids single out one leader, no two processes purge at once.
\* (the guard of nightly_purge_loop is enough, given distinct ids)
THEOREM OneLeaderPurgesOnce ==
  ASSUME \A p, q \in Processes : Leads(p) /\ Leads(q) => p = q
  PROVE  Spec => []PurgesOnce
<1>1. Init => PurgeInv
  BY DEF Init, PurgeInv, Daemons
<1>2. ProcessInv /\ PurgeInv /\ [Next]_vars => PurgeInv'
  BY PurgeStep DEF ProcessInv
<1>3. PurgeInv => PurgesOnce
  BY DEF PurgeInv, PurgesOnce
<1> QED BY <1>1, <1>2, <1>3, ProcessInvHolds, PTL DEF Spec
=============================================================================

--------------------------- MODULE WorkerProcess ----------------------------
(***************************************************************************)
(* A worker process from boot to exit: src.worker.main.  _run opens the    *)
(* stores, starts WORKER_CONCURRENCY tasks and three daemons on one event  *)
(* loop, waits for a signal, lets the tasks finish, cancels the daemons    *)
(* and closes the stores.  What a task does with a job is JobLifecycle's   *)
(* subject: here it is "running" until it ends.                            *)
(*                                                                         *)
(* A name with _Bad is a wrong variant of the definition that follows it,  *)
(* which no specification uses.                                            *)
(***************************************************************************)
EXTENDS Naturals

CONSTANTS
  Processes,      \* the replicas of the worker service
  Tasks,          \* the task names w0, w1, ...: WORKER_CONCURRENCY of them
  WorkerId,       \* settings.WORKER_ID of each process
  PurgeWorkerId   \* settings.PURGE_WORKER_ID

ASSUME WorkerAssumption == DOMAIN WorkerId = Processes

Daemons == {"sweeper", "rate_refresh", "nightly_purge"}

VARIABLES
  phase,     \* where _run of each process stands
  shutdown,  \* the event _shutdown of each process
  task,      \* where each task of each process stands
  late,      \* how many messages a task took after its process was told to stop
  daemon,    \* where each daemon of each process stands
  open       \* the stores each process has open

vars == <<phase, shutdown, task, late, daemon, open>>

-----------------------------------------------------------------------------

Phases == {"boot", "serving", "draining", "cancelling", "closing", "exited",
           "failed", "killed"}
TaskStates == {"none", "loop", "popping", "running", "stopped", "dead"}
DaemonStates == {"none", "ready", "working", "sleeping", "stopped"}
Stores == {"pg", "redis"}

\* `late' is a count; a task takes one message at a time.
TypeOK ==
  /\ phase \in [Processes -> Phases]
  /\ shutdown \in [Processes -> BOOLEAN]
  /\ task \in [Processes -> [Tasks -> TaskStates]]
  /\ late \in [Processes -> [Tasks -> Nat]]
  /\ daemon \in [Processes -> [Daemons -> DaemonStates]]
  /\ open \in [Processes -> SUBSET Stores]

Init ==
  /\ phase = [p \in Processes |-> "boot"]
  /\ shutdown = [p \in Processes |-> FALSE]
  /\ task = [p \in Processes |-> [i \in Tasks |-> "none"]]
  /\ late = [p \in Processes |-> [i \in Tasks |-> 0]]
  /\ daemon = [p \in Processes |-> [d \in Daemons |-> "none"]]
  /\ open = [p \in Processes |-> {}]

Alive(p) == phase[p] \notin {"exited", "failed", "killed"}
EndedTask == {"stopped", "dead"}

-----------------------------------------------------------------------------
(* _run, from one await to the next.                                       *)

\* Boot: the pools, the client and the whitelists, then the tasks and daemons.
\* An exception leaves _run before anything was started.
OpenPostgres(p) ==
  /\ phase[p] = "boot" /\ open[p] = {}
  /\ \/ open' = [open EXCEPT ![p] = {"pg"}] /\ UNCHANGED phase
     \/ phase' = [phase EXCEPT ![p] = "failed"] /\ UNCHANGED open
  /\ UNCHANGED <<shutdown, task, late, daemon>>

Start(p) ==
  /\ phase[p] = "boot" /\ open[p] = {"pg"}
  /\ \/ /\ phase' = [phase EXCEPT ![p] = "serving"]
        /\ open' = [open EXCEPT ![p] = Stores]
        /\ task' = [task EXCEPT ![p] = [i \in Tasks |-> "loop"]]
        /\ daemon' = [daemon EXCEPT ![p] = [d \in Daemons |-> "ready"]]
     \/ phase' = [phase EXCEPT ![p] = "failed"] /\ UNCHANGED <<open, task, daemon>>
  /\ UNCHANGED <<shutdown, late>>

\* SIGTERM or SIGINT, once the handlers are installed.
Signal(p) ==
  /\ Alive(p) /\ phase[p] # "boot"
  /\ shutdown' = [shutdown EXCEPT ![p] = TRUE]
  /\ UNCHANGED <<phase, task, late, daemon, open>>

BeginDrain(p) ==
  /\ phase[p] = "serving" /\ shutdown[p]
  /\ phase' = [phase EXCEPT ![p] = "draining"]
  /\ UNCHANGED <<shutdown, task, late, daemon, open>>

\* gather(*tasks, return_exceptions=True).
\* A task that raised is waited for.
Drained_BadDead(p) == \A i \in Tasks : task[p][i] = "stopped"
Drained(p) == \A i \in Tasks : task[p][i] \in EndedTask

CancelDaemons(p) ==
  /\ phase[p] = "draining" /\ Drained(p)
  /\ phase' = [phase EXCEPT ![p] = "cancelling"]
  /\ UNCHANGED <<shutdown, task, late, daemon, open>>

\* gather(*daemon_tasks).
\* The daemons are cancelled, but nobody waits for them to end.
DaemonsEnded_BadNoWait(p) == TRUE
DaemonsEnded(p) == \A d \in Daemons : daemon[p][d] = "stopped"

ClosePostgres(p) ==
  /\ phase[p] = "cancelling" /\ DaemonsEnded(p)
  /\ phase' = [phase EXCEPT ![p] = "closing"]
  /\ open' = [open EXCEPT ![p] = {"redis"}]
  /\ UNCHANGED <<shutdown, task, late, daemon>>

CloseRedis(p) ==
  /\ phase[p] = "closing"
  /\ phase' = [phase EXCEPT ![p] = "exited"]
  /\ open' = [open EXCEPT ![p] = {}]
  /\ UNCHANGED <<shutdown, task, late, daemon>>

-----------------------------------------------------------------------------
(* _worker_task.                                                           *)

\* A process that is told to stop still empties the queue.
MayContinue_BadGreedy(p) == TRUE
MayContinue(p) == ~shutdown[p]

\* The test of the loop: one more pop, or the end of the task.
TestFlag(p, i) ==
  /\ Alive(p) /\ task[p][i] = "loop"
  /\ task' = [task EXCEPT ![p][i] = IF MayContinue(p) THEN "popping" ELSE "stopped"]
  /\ UNCHANGED <<phase, shutdown, late, daemon, open>>

\* The pop waits up to 5 s. It ends with a message, with none (a timeout, a
\* lost connection, bad JSON) or with StorageTransientError, which is raised
\* outside the try and ends the task.
Pop(p, i) ==
  /\ Alive(p) /\ task[p][i] = "popping"
  /\ \/ /\ task' = [task EXCEPT ![p][i] = "running"]
        /\ late' = [late EXCEPT ![p][i] = IF shutdown[p] THEN @ + 1 ELSE @]
     \/ task' = [task EXCEPT ![p][i] = "loop"] /\ UNCHANGED late
     \/ task' = [task EXCEPT ![p][i] = "dead"] /\ UNCHANGED late
  /\ UNCHANGED <<phase, shutdown, daemon, open>>

\* The lifecycle ends, or raises what the handler of the loop logs.
FinishJob(p, i) ==
  /\ Alive(p) /\ task[p][i] = "running"
  /\ task' = [task EXCEPT ![p][i] = "loop"]
  /\ UNCHANGED <<phase, shutdown, late, daemon, open>>

-----------------------------------------------------------------------------
(* The daemons: sweeper_loop, rate_refresh_loop, nightly_purge_loop.       *)

\* Only the leader purges; the others wait for the end.
Leads(p) == WorkerId[p] = PurgeWorkerId

\* The first pass: the sweeper and the refresh work at once, the purge waits
\* for 02:00. Later passes follow a sleep that the shutdown cuts short.
DaemonPass(p, d) ==
  /\ Alive(p)
  /\ \/ /\ daemon[p][d] = "ready"
        /\ daemon' = [daemon EXCEPT ![p][d] =
                        IF shutdown[p] THEN "stopped"
                        ELSE IF d = "nightly_purge" THEN "sleeping" ELSE "working"]
     \/ /\ daemon[p][d] = "sleeping" /\ ~shutdown[p]
        /\ d = "nightly_purge" => Leads(p)
        /\ daemon' = [daemon EXCEPT ![p][d] = "working"]
     \/ /\ daemon[p][d] = "sleeping" /\ shutdown[p]
        /\ daemon' = [daemon EXCEPT ![p][d] = "stopped"]
  /\ UNCHANGED <<phase, shutdown, task, late, open>>

\* The store calls of a pass end; what they raise is logged.
DaemonRest(p, d) ==
  /\ Alive(p) /\ daemon[p][d] = "working"
  /\ daemon' = [daemon EXCEPT ![p][d] = IF shutdown[p] THEN "stopped" ELSE "sleeping"]
  /\ UNCHANGED <<phase, shutdown, task, late, open>>

\* A cancelled daemon ends at its await, in the middle of a pass if need be:
\* no handler of the daemons catches CancelledError.
DaemonCancelled(p, d) ==
  /\ Alive(p) /\ phase[p] # "serving" /\ phase[p] # "draining"
  /\ daemon[p][d] \in {"ready", "working", "sleeping"}
  /\ daemon' = [daemon EXCEPT ![p][d] = "stopped"]
  /\ UNCHANGED <<phase, shutdown, task, late, open>>

\* The process is killed, or dies at boot by a signal it does not handle yet.
Kill(p) ==
  /\ Alive(p)
  /\ phase' = [phase EXCEPT ![p] = "killed"]
  /\ UNCHANGED <<shutdown, task, late, daemon, open>>

-----------------------------------------------------------------------------

Run(p) == \/ OpenPostgres(p) \/ Start(p) \/ BeginDrain(p) \/ CancelDaemons(p)
          \/ ClosePostgres(p) \/ CloseRedis(p)
WorkerTask(p, i) == TestFlag(p, i) \/ Pop(p, i) \/ FinishJob(p, i)
Daemon(p, d) == DaemonPass(p, d) \/ DaemonRest(p, d) \/ DaemonCancelled(p, d)

Next ==
  \E p \in Processes :
    \/ Run(p) \/ Signal(p) \/ Kill(p)
    \/ \E i \in Tasks : WorkerTask(p, i)
    \/ \E d \in Daemons : Daemon(p, d)

Spec == Init /\ [][Next]_vars

\* The event loop runs every coroutine that can run, and a pop ends within its
\* timeout. That every other call ends is an assumption: those to Postgres,
\* Redis and Triton have no timeout.
Fairness ==
  \A p \in Processes :
    /\ WF_vars(Run(p))
    /\ \A i \in Tasks : WF_vars(WorkerTask(p, i))
    /\ \A d \in Daemons : WF_vars(Daemon(p, d))

FairSpec == Spec /\ Fairness

-----------------------------------------------------------------------------
(* Properties.                                                             *)

\* A store that is closed has no user: no task pops or runs a job and no
\* daemon is in the middle of a pass. (the order of _run after the signal)
StoresOutliveTheirUsers ==
  \A p \in Processes : Alive(p) /\ open[p] # Stores =>
    /\ \A i \in Tasks : task[p][i] \notin {"popping", "running"}
    /\ \A d \in Daemons : daemon[p][d] # "working"

\* After the signal a task takes at most the one message its pop was waiting
\* for. (the loop test of _worker_task)
OneLastJob == \A p \in Processes, i \in Tasks : late[p][i] <= 1

\* The purge runs in one process at a time at most. (nightly_purge_loop)
PurgesOnce ==
  \A p, q \in Processes :
    daemon[p]["nightly_purge"] = "working" /\ daemon[q]["nightly_purge"] = "working"
      => p = q

\* A process that is told to stop does stop. (_run after _shutdown.wait())
ShutdownEnds == \A p \in Processes : shutdown[p] ~> ~Alive(p)
=============================================================================

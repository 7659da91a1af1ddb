-------------------------- MODULE MCWorkerProcess ---------------------------
(***************************************************************************)
(* Small instances of WorkerProcess for TLC. Processes share nothing of    *)
(* what it models, so that one of them is enough for a shutdown; who       *)
(* purges takes two, as docker-compose.yml starts them.                    *)
(***************************************************************************)
EXTENDS WorkerProcess

CONSTANTS p1, p2, t1, t2, t3

OneProcess == {p1}
TwoProcesses == {p1, p2}
OneTask == {t1}
ThreeTasks == {t1, t2, t3}

\* The process is the one that purges.
OwnIds == [p \in Processes |-> p]

\* No environment names a WORKER_ID: every replica has the default of the
\* settings, which is also the default of PURGE_WORKER_ID.
DefaultIds == [p \in Processes |-> p1]
=============================================================================

---------------------------- MODULE JobContract -----------------------------
(***************************************************************************)
(* What a client of GET /v1/receipts/{job_id} may rely on: a job it has    *)
(* never heard of (404) becomes one in flight (202), which ends in exactly *)
(* one of a result (200), a permanent failure (422) or a transient one     *)
(* (503); that answer stays until the record is purged.                    *)
(***************************************************************************)
CONSTANT Jobs
VARIABLE poll  \* the answer GET gives for each job

Final == {"200", "422", "503"}

Init == poll = [j \in Jobs |-> "404"]

Admit(j) == /\ poll[j] = "404"
            /\ poll' = [poll EXCEPT ![j] = "202"]

Finish(j) == /\ poll[j] = "202"
             /\ \E a \in Final : poll' = [poll EXCEPT ![j] = a]

\* The nightly purge forgets a set of finished jobs at once.
Forget(S) == /\ \A j \in S : poll[j] \in Final
             /\ poll' = [j \in Jobs |-> IF j \in S THEN "404" ELSE poll[j]]

Next == \/ \E j \in Jobs : Admit(j) \/ Finish(j)
        \/ \E S \in SUBSET Jobs : Forget(S)

Spec == Init /\ [][Next]_poll
=============================================================================

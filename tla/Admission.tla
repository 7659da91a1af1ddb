------------------------------ MODULE Admission ------------------------------
(***************************************************************************)
(* How long the queue can get: api.backpressure looks at its length before *)
(* submit_receipt creates a row and pushes, two awaits later; meanwhile    *)
(* the slots of the workers pop and push back.  The messages are all alike *)
(* here: JobLifecycle says what happens to each of them.                   *)
(*                                                                         *)
(* A name with _Bad is a wrong variant of the definition that follows it.  *)
(***************************************************************************)
EXTENDS Naturals, FiniteSets

CONSTANTS
  Requests,  \* the submissions the API handles at the same time
  Slots,     \* the tasks of all workers
  Reject,    \* settings.BACKPRESSURE_QUEUE_REJECT
  MaxFaults  \* bound of the runs: failing LLENs and HINCRBYs

ASSUME AdmissionAssumption ==
  /\ IsFiniteSet(Requests) /\ IsFiniteSet(Slots)
  /\ Reject \in Nat /\ Reject >= 1
  /\ MaxFaults \in Nat

VARIABLES
  depth,    \* LLEN of the queue
  request,  \* where each submission stands
  slot,     \* where each slot stands
  faults    \* how often Redis failed where the code goes on all the same

vars == <<depth, request, slot, faults>>

RequestSteps == {"idle", "admitted", "persisted"}
SlotSteps == {"idle", "holding", "yielding"}

TypeOK ==
  /\ depth \in Nat
  /\ request \in [Requests -> RequestSteps]
  /\ slot \in [Slots -> SlotSteps]
  /\ faults \in 0..MaxFaults

Init ==
  /\ depth = 0
  /\ request = [r \in Requests |-> "idle"]
  /\ slot = [s \in Slots |-> "idle"]
  /\ faults = 0

Goes(r, step) == request' = [request EXCEPT ![r] = step]
Turns(s, step) == slot' = [slot EXCEPT ![s] = step]

-----------------------------------------------------------------------------
(* submit_receipt.                                                         *)

\* The comparison of check_backpressure.
Full_BadOff == depth > Reject
Full == depth >= Reject

\* A full queue refuses; a Redis that does not answer lets the request pass.
check_backpressure(r) ==
  /\ request[r] = "idle"
  /\ \/ ~Full /\ Goes(r, "admitted") /\ UNCHANGED faults
     \/ Full /\ UNCHANGED <<request, faults>>
     \/ faults < MaxFaults /\ faults' = faults + 1 /\ Goes(r, "admitted")
  /\ UNCHANGED <<depth, slot>>

\* The row is created, or the request answers 400 or 503.
CreateRow(r) ==
  /\ request[r] = "admitted"
  /\ Goes(r, "persisted") \/ Goes(r, "idle")
  /\ UNCHANGED <<depth, slot, faults>>

\* LPUSH and the answer, 202, or 503 when it failed.
Push(r) ==
  /\ request[r] = "persisted"
  /\ Goes(r, "idle")
  /\ depth' \in {depth, depth + 1}
  /\ UNCHANGED <<slot, faults>>

-----------------------------------------------------------------------------
(* A slot.                                                                 *)

\* BRPOP takes a message, which a lost reply or bad JSON drops.
pop_from_queue(s) ==
  /\ slot[s] = "idle" /\ depth > 0
  /\ depth' = depth - 1
  /\ Turns(s, "holding") \/ UNCHANGED slot
  /\ UNCHANGED <<request, faults>>

\* The job ends in this slot, or the slot dies with it.
Finish(s) ==
  /\ slot[s] # "idle"
  /\ Turns(s, "idle")
  /\ UNCHANGED <<depth, request, faults>>

\* The job goes back to the queue: no backpressure for those.
_yield_to_queue(s) ==
  /\ slot[s] # "idle"
  /\ Turns(s, "idle")
  /\ depth' = depth + 1
  /\ UNCHANGED <<request, faults>>

\* The requeue counter fails: _bump_or_orphan yields, and its caller yields too.
_bump_or_orphan(s) ==
  /\ slot[s] = "holding"
  /\ faults < MaxFaults /\ faults' = faults + 1
  /\ Turns(s, "yielding")
  /\ depth' = depth + 1
  /\ UNCHANGED request

-----------------------------------------------------------------------------

Submission(r) == check_backpressure(r) \/ CreateRow(r) \/ Push(r)
Work(s) == pop_from_queue(s) \/ Finish(s) \/ _yield_to_queue(s) \/ _bump_or_orphan(s)

Next == (\E r \in Requests : Submission(r)) \/ (\E s \in Slots : Work(s))

Spec == Init /\ [][Next]_vars

-----------------------------------------------------------------------------
(* Properties.                                                             *)

Admitted == {r \in Requests : request[r] # "idle"}
Held == {s \in Slots : slot[s] # "idle"}

\* The queue, with what the API and the slots may still push into it, exceeds
\* the limit by no more than one message for each submission and each slot at
\* work, and for each fault. (check_backpressure is not atomic with the push)
QueueBounded ==
  depth + Cardinality(Admitted) + Cardinality(Held)
    <= (Reject - 1) + Cardinality(Requests) + Cardinality(Slots) + faults
=============================================================================

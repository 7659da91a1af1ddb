-------------------------- MODULE ApiProcess_proofs --------------------------
(***************************************************************************)
(* Proofs about Admission and ApiProcess: the queue stays bounded for any  *)
(* finite number of requests and slots and any limit; the process          *)
(* implements Admission, so that it does whatever starts, stops and dies   *)
(* around the submissions; no submission meets a store that is not open;   *)
(* none is served before the table is migrated.                            *)
(***************************************************************************)
EXTENDS ApiProcess, FiniteSetTheorems, TLAPS

-----------------------------------------------------------------------------
(* Admission.                                                              *)

AdmissionInv == TypeOK /\ QueueBounded

\* The parts of the bound are natural numbers, and no actor counts twice.
LEMMA Counts ==
  /\ IsFiniteSet(Admitted) /\ Cardinality(Admitted) \in Nat
  /\ Cardinality(Admitted) <= Cardinality(Requests)
  /\ IsFiniteSet(Held) /\ Cardinality(Held) \in Nat
  /\ Cardinality(Held) <= Cardinality(Slots)
  /\ Cardinality(Requests) \in Nat /\ Cardinality(Slots) \in Nat
  BY FS_Subset, FS_CardinalityType, AdmissionAssumption DEF Admitted, Held

\* A request that leaves "idle" is one more in flight, one that comes back is
\* one less, and any other step of it changes nothing. (submit_receipt)
LEMMA RequestMoves ==
  ASSUME TypeOK, NEW r \in Requests, NEW step \in RequestSteps, Goes(r, step)
  PROVE  /\ request' \in [Requests -> RequestSteps]
         /\ Cardinality(Admitted)' \in Nat
         /\ request[r] = "idle" /\ step # "idle" =>
              Cardinality(Admitted)' = Cardinality(Admitted) + 1
         /\ request[r] # "idle" /\ step = "idle" =>
              Cardinality(Admitted)' = Cardinality(Admitted) - 1
         /\ (request[r] = "idle") = (step = "idle") =>
              Cardinality(Admitted)' = Cardinality(Admitted)
<1>1. request' \in [Requests -> RequestSteps]
  BY DEF TypeOK, Goes
<1>2. \A q \in Requests : request'[q] = IF q = r THEN step ELSE request[q]
  BY DEF TypeOK, Goes
<1>3. Admitted' = IF step = "idle" THEN Admitted \ {r} ELSE Admitted \union {r}
  BY <1>2 DEF Admitted
<1>4. r \in Admitted <=> request[r] # "idle" BY DEF Admitted
<1>5. IsFiniteSet(Admitted) /\ Cardinality(Admitted) \in Nat BY Counts
<1>6. /\ Cardinality(Admitted \union {r}) =
           IF r \in Admitted THEN Cardinality(Admitted) ELSE Cardinality(Admitted) + 1
      /\ Cardinality(Admitted \ {r}) =
           IF r \in Admitted THEN Cardinality(Admitted) - 1 ELSE Cardinality(Admitted)
  BY <1>5, FS_AddElement, FS_RemoveElement
<1>7. IsFiniteSet(Admitted') BY <1>3, <1>5, FS_AddElement, FS_RemoveElement
<1> QED BY <1>1, <1>3, <1>4, <1>6, <1>7, FS_CardinalityType

\* So with the slots. (execute_task_lifecycle)
LEMMA SlotMoves ==
  ASSUME TypeOK, NEW s \in Slots, NEW step \in SlotSteps, Turns(s, step)
  PROVE  /\ slot' \in [Slots -> SlotSteps]
         /\ Cardinality(Held)' \in Nat
         /\ slot[s] = "idle" /\ step # "idle" =>
              Cardinality(Held)' = Cardinality(Held) + 1
         /\ slot[s] # "idle" /\ step = "idle" =>
              Cardinality(Held)' = Cardinality(Held) - 1
         /\ (slot[s] = "idle") = (step = "idle") =>
              Cardinality(Held)' = Cardinality(Held)
<1>1. slot' \in [Slots -> SlotSteps]
  BY DEF TypeOK, Turns
<1>2. \A q \in Slots : slot'[q] = IF q = s THEN step ELSE slot[q]
  BY DEF TypeOK, Turns
<1>3. Held' = IF step = "idle" THEN Held \ {s} ELSE Held \union {s}
  BY <1>2 DEF Held
<1>4. s \in Held <=> slot[s] # "idle" BY DEF Held
<1>5. IsFiniteSet(Held) /\ Cardinality(Held) \in Nat BY Counts
<1>6. /\ Cardinality(Held \union {s}) =
           IF s \in Held THEN Cardinality(Held) ELSE Cardinality(Held) + 1
      /\ Cardinality(Held \ {s}) =
           IF s \in Held THEN Cardinality(Held) - 1 ELSE Cardinality(Held)
  BY <1>5, FS_AddElement, FS_RemoveElement
<1>7. IsFiniteSet(Held') BY <1>3, <1>5, FS_AddElement, FS_RemoveElement
<1> QED BY <1>1, <1>3, <1>4, <1>6, <1>7, FS_CardinalityType

\* What no step of the other side touches. (Admitted and Held)
LEMMA Untouched ==
  /\ UNCHANGED request => Cardinality(Admitted)' = Cardinality(Admitted)
  /\ UNCHANGED slot => Cardinality(Held)' = Cardinality(Held)
  BY DEF Admitted, Held

\* A submission keeps the bound: it passes the check below the limit only.
LEMMA SubmissionStep ==
  ASSUME AdmissionInv, NEW r \in Requests, Submission(r)
  PROVE  AdmissionInv'
<1>0. TypeOK /\ QueueBounded /\ depth \in Nat /\ faults \in Nat /\ MaxFaults \in Nat
  BY AdmissionAssumption DEF AdmissionInv, TypeOK
<1>1. CASE check_backpressure(r)
  <2>0. UNCHANGED <<depth, slot>> BY <1>1 DEF check_backpressure
  <2>1. CASE ~Full /\ Goes(r, "admitted") /\ UNCHANGED faults
    <3>1. /\ request' \in [Requests -> RequestSteps]
          /\ Cardinality(Admitted)' = Cardinality(Admitted) + 1
      BY <1>0, <1>1, <2>1, RequestMoves DEF check_backpressure, RequestSteps
    <3>2. TypeOK' BY <1>0, <2>0, <2>1, <3>1 DEF TypeOK
    <3>3. Cardinality(Admitted)' <= Cardinality(Requests)
      <4>1. Admitted' \subseteq Requests BY DEF Admitted
      <4> QED BY <4>1, FS_Subset, AdmissionAssumption
    <3>4. depth <= Reject - 1 /\ Reject \in Nat
      BY <1>0, <2>1, AdmissionAssumption DEF Full
    <3>5. QueueBounded'
      BY <1>0, <2>0, <2>1, <3>1, <3>3, <3>4, Counts, Untouched DEF QueueBounded
    <3> QED BY <3>2, <3>5 DEF AdmissionInv
  <2>2. CASE UNCHANGED <<request, faults>>
    BY <1>0, <2>0, <2>2, Untouched DEF AdmissionInv, TypeOK, QueueBounded
  <2>3. CASE faults < MaxFaults /\ faults' = faults + 1 /\ Goes(r, "admitted")
    <3>1. /\ request' \in [Requests -> RequestSteps]
          /\ Cardinality(Admitted)' = Cardinality(Admitted) + 1
      BY <1>0, <1>1, <2>3, RequestMoves DEF check_backpressure, RequestSteps
    <3>2. TypeOK' BY <1>0, <2>0, <2>3, <3>1 DEF TypeOK
    <3>3. QueueBounded'
      BY <1>0, <2>0, <2>3, <3>1, Counts, Untouched, AdmissionAssumption DEF QueueBounded
    <3> QED BY <3>2, <3>3 DEF AdmissionInv
  <2> QED BY <1>1, <2>1, <2>2, <2>3 DEF check_backpressure
<1>2. CASE CreateRow(r)
  <2>0. /\ UNCHANGED <<depth, slot, faults>> /\ request[r] = "admitted"
        /\ Goes(r, "persisted") \/ Goes(r, "idle")
    BY <1>2 DEF CreateRow
  <2>1. /\ request' \in [Requests -> RequestSteps]
        /\ Cardinality(Admitted)' \in Nat
        /\ Cardinality(Admitted)' <= Cardinality(Admitted)
    BY <1>0, <2>0, RequestMoves, Counts DEF RequestSteps
  <2>2. TypeOK' BY <1>0, <2>0, <2>1 DEF TypeOK
  <2>3. QueueBounded'
    BY <1>0, <2>0, <2>1, Counts, Untouched, AdmissionAssumption DEF QueueBounded
  <2> QED BY <2>2, <2>3 DEF AdmissionInv
<1>3. CASE Push(r)
  <2>0. /\ UNCHANGED <<slot, faults>> /\ request[r] = "persisted" /\ Goes(r, "idle")
        /\ depth' \in {depth, depth + 1}
    BY <1>3 DEF Push
  <2>1. /\ request' \in [Requests -> RequestSteps]
        /\ Cardinality(Admitted)' = Cardinality(Admitted) - 1
    BY <1>0, <2>0, RequestMoves DEF RequestSteps
  <2>2. TypeOK' BY <1>0, <2>0, <2>1 DEF TypeOK
  <2>3. QueueBounded'
    BY <1>0, <2>0, <2>1, Counts, Untouched, AdmissionAssumption DEF QueueBounded
  <2> QED BY <2>2, <2>3 DEF AdmissionInv
<1> QED BY <1>1, <1>2, <1>3 DEF Submission

\* So does a slot: what it takes from the queue it holds, until it gives it back.
LEMMA WorkStep ==
  ASSUME AdmissionInv, NEW s \in Slots, Work(s)
  PROVE  AdmissionInv'
<1>0. TypeOK /\ QueueBounded /\ depth \in Nat /\ faults \in Nat /\ MaxFaults \in Nat
  BY AdmissionAssumption DEF AdmissionInv, TypeOK
<1>1. CASE pop_from_queue(s)
  <2>0. /\ UNCHANGED <<request, faults>> /\ slot[s] = "idle" /\ depth > 0
        /\ depth' = depth - 1
        /\ Turns(s, "holding") \/ UNCHANGED slot
    BY <1>1 DEF pop_from_queue
  <2>1. /\ slot' \in [Slots -> SlotSteps] /\ Cardinality(Held)' \in Nat
        /\ Cardinality(Held)' <= Cardinality(Held) + 1
    BY <1>0, <2>0, SlotMoves, Counts, Untouched DEF SlotSteps, TypeOK
  <2>2. TypeOK' BY <1>0, <2>0, <2>1 DEF TypeOK
  <2>3. QueueBounded'
    BY <1>0, <2>0, <2>1, Counts, Untouched, AdmissionAssumption DEF QueueBounded
  <2> QED BY <2>2, <2>3 DEF AdmissionInv
<1>2. CASE Finish(s) \/ _yield_to_queue(s)
  <2>0. /\ UNCHANGED <<request, faults>> /\ slot[s] # "idle" /\ Turns(s, "idle")
        /\ depth' \in {depth, depth + 1}
    BY <1>2 DEF Finish, _yield_to_queue
  <2>1. /\ slot' \in [Slots -> SlotSteps]
        /\ Cardinality(Held)' = Cardinality(Held) - 1
    BY <1>0, <2>0, SlotMoves DEF SlotSteps
  <2>2. TypeOK' BY <1>0, <2>0, <2>1 DEF TypeOK
  <2>3. QueueBounded'
    BY <1>0, <2>0, <2>1, Counts, Untouched, AdmissionAssumption DEF QueueBounded
  <2> QED BY <2>2, <2>3 DEF AdmissionInv
<1>3. CASE _bump_or_orphan(s)
  <2>0. /\ UNCHANGED request /\ slot[s] = "holding" /\ Turns(s, "yielding")
        /\ faults < MaxFaults /\ faults' = faults + 1 /\ depth' = depth + 1
    BY <1>3 DEF _bump_or_orphan
  <2>1. /\ slot' \in [Slots -> SlotSteps]
        /\ Cardinality(Held)' = Cardinality(Held)
    BY <1>0, <2>0, SlotMoves DEF SlotSteps
  <2>2. TypeOK' BY <1>0, <2>0, <2>1 DEF TypeOK
  <2>3. QueueBounded'
    BY <1>0, <2>0, <2>1, Counts, Untouched, AdmissionAssumption DEF QueueBounded
  <2> QED BY <2>2, <2>3 DEF AdmissionInv
<1> QED BY <1>1, <1>2, <1>3 DEF Work

\* The counting invariant holds initially.
LEMMA AdmissionStarts == Init => AdmissionInv
<1> SUFFICES ASSUME Init PROVE AdmissionInv
  OBVIOUS
<1>1. TypeOK BY AdmissionAssumption DEF Init, TypeOK, RequestSteps, SlotSteps
<1>2. Admitted = {} /\ Held = {} BY DEF Init, Admitted, Held
<1>3. Cardinality(Admitted) = 0 /\ Cardinality(Held) = 0 BY <1>2, FS_EmptySet
<1>4. depth = 0 /\ faults = 0 BY DEF Init
<1>5. QueueBounded BY <1>3, <1>4, Counts, AdmissionAssumption DEF QueueBounded
<1> QED BY <1>1, <1>5 DEF AdmissionInv

\* Every step keeps it.
LEMMA AdmissionStays == AdmissionInv /\ [Next]_vars => AdmissionInv'
<1> SUFFICES ASSUME AdmissionInv, [Next]_vars PROVE AdmissionInv'
  OBVIOUS
<1>1. CASE Next BY <1>1, SubmissionStep, WorkStep DEF Next
<1>2. CASE UNCHANGED vars
  BY <1>2, Untouched DEF vars, AdmissionInv, TypeOK, QueueBounded
<1> QED BY <1>1, <1>2

\* The queue and everything that may still be pushed into it stay bounded.
THEOREM QueueStaysBounded == Spec => []QueueBounded
<1>1. AdmissionInv => QueueBounded BY DEF AdmissionInv
<1> QED BY <1>1, AdmissionStarts, AdmissionStays, PTL DEF Spec

-----------------------------------------------------------------------------
(* Refinement.                                                             *)

\* A request that dies with its process is one whose insert or push failed.
LEMMA AbandonIsFailure ==
  ASSUME NEW r \in Requests, TypeOK, Abandon(r)
  PROVE  [Next]_vars
<1>0. /\ Goes(r, "idle") /\ UNCHANGED <<depth, slot, faults>>
      /\ request \in [Requests -> RequestSteps]
  BY DEF Abandon, TypeOK
<1>1. CASE request[r] = "idle"
  <2>1. request' = request BY <1>0, <1>1 DEF Goes
  <2> QED BY <1>0, <2>1 DEF vars
<1>2. CASE request[r] = "admitted"
  <2>1. CreateRow(r) BY <1>0, <1>2 DEF CreateRow
  <2> QED BY <2>1 DEF Submission, Next
<1>3. CASE request[r] = "persisted"
  <2>1. Push(r) BY <1>0, <1>3 DEF Push
  <2> QED BY <2>1 DEF Submission, Next
<1> QED BY <1>0, <1>1, <1>2, <1>3 DEF RequestSteps

\* A step of the API process is one of Admission or leaves its variables alone.
LEMMA ApiStepMaps == TypeOK /\ [ApiNext]_apiVars => [Next]_vars
<1> SUFFICES ASSUME TypeOK, [ApiNext]_apiVars PROVE [Next]_vars
  OBVIOUS
<1>1. CASE Around /\ UNCHANGED <<vars, arrived>> BY <1>1
<1>2. ASSUME NEW r \in Requests, Arrive(r) \/ submit_receipt(r) \/ Abandon(r)
      PROVE  [Next]_vars
  <2>1. CASE Arrive(r) BY <2>1 DEF Arrive
  <2>2. CASE submit_receipt(r)
    <3>1. Submission(r) BY <2>2 DEF submit_receipt, Submission
    <3> QED BY <3>1 DEF Next
  <2>3. CASE Abandon(r) BY <2>3, AbandonIsFailure
  <2> QED BY <1>2, <2>1, <2>2, <2>3
<1>3. CASE (\E s \in Slots : Work(s)) /\ UNCHANGED <<outer, arrived>>
  BY <1>3 DEF Next
<1>4. CASE UNCHANGED apiVars BY <1>4 DEF apiVars
<1> QED BY <1>1, <1>2, <1>3, <1>4 DEF ApiNext

\* The API process, with its boot, its shutdown and its deaths, implements
\* Admission: requests that are cut off look like refused ones to the queue.
THEOREM ApiImplementsAdmission == ApiSpec => Spec
<1>1. ApiInit => Init BY DEF ApiInit
<1>2. AdmissionInv => TypeOK BY DEF AdmissionInv
<1> QED BY <1>1, <1>2, AdmissionStarts, AdmissionStays, ApiStepMaps, PTL DEF ApiSpec, Spec

\* The queue of the running service stays bounded. (check_backpressure)
THEOREM ApiQueueBounded == ApiSpec => []QueueBounded
BY ApiImplementsAdmission, QueueStaysBounded, PTL

-----------------------------------------------------------------------------
(* The order of the lifespan.                                              *)

\* What is open in each phase: everything while requests may be in flight and
\* until the sampler has ended; nothing is in flight before and after.
LifespanInv ==
  /\ open \subseteq Stores
  /\ phase \in {"serving", "draining", "stopping"} => open = Stores
  /\ phase = "boot" => sampler = "none"
  /\ phase = "closing" => sampler = "stopped"
  /\ phase \in {"boot", "stopping", "closing"} => \A r \in Requests : ~InFlight(r)

\* A request that is not in flight has no step but to arrive.
LEMMA IdleStays ==
  ASSUME NEW r \in Requests, TypeOK,
         Arrive(r) \/ submit_receipt(r) \/ Abandon(r)
  PROVE  \/ phase \in {"serving", "draining"}
         \/ Ended
         \/ \E q \in Requests : InFlight(q)
<1>1. CASE Arrive(r) BY <1>1 DEF Arrive
<1>2. CASE submit_receipt(r)
  <2>1. r \in arrived \/ request[r] # "idle" BY <1>2 DEF submit_receipt, CreateRow, Push
  <2> QED BY <2>1 DEF InFlight
<1>3. CASE Abandon(r) BY <1>3 DEF Abandon
<1> QED BY <1>1, <1>2, <1>3

LEMMA LifespanStays ==
  ASSUME TypeOK, LifespanInv, [ApiNext]_apiVars
  PROVE  LifespanInv'
<1>1. CASE Around /\ UNCHANGED <<vars, arrived>>
  <2>0. \A r \in Requests : InFlight(r)' = InFlight(r) BY <1>1 DEF vars, InFlight
  <2>1. CASE Upgrade \/ Probe \/ Rerun
    BY <2>0, <2>1 DEF Upgrade, Probe, Rerun, LifespanInv
  <2>2. CASE StartProcess
    BY <2>0, <2>2 DEF StartProcess, Moves, LifespanInv, Stores
  <2>3. CASE Signal \/ Kill
    BY <2>0, <2>3 DEF Signal, Kill, Moves, LifespanInv
  <2>4. CASE OpenPostgres \/ StartServing
    BY <2>0, <2>4 DEF OpenPostgres, StartServing, Moves, LifespanInv, Stores
  <2>5. CASE CancelSampler \/ AwaitSampler
    BY <2>0, <2>5 DEF CancelSampler, AwaitSampler, SamplerEnded, Moves, LifespanInv
  <2>6. CASE CloseRedis \/ ClosePostgres
    BY <2>0, <2>6 DEF CloseRedis, ClosePostgres, Moves, LifespanInv, Stores
  <2>7. CASE queue_depth_sampler
    BY <2>0, <2>7 DEF queue_depth_sampler, Cancellable, LifespanInv
  <2> QED BY <1>1, <2>1, <2>2, <2>3, <2>4, <2>5, <2>6, <2>7 DEF Around, _lifespan
<1>2. ASSUME NEW r \in Requests, Arrive(r) \/ submit_receipt(r) \/ Abandon(r)
      PROVE  LifespanInv'
  <2>1. UNCHANGED outer BY <1>2 DEF Arrive, submit_receipt, Abandon
  <2>2. phase \notin {"boot", "stopping", "closing"}
    BY <1>2, IdleStays DEF LifespanInv, Ended
  <2> QED BY <2>1, <2>2 DEF LifespanInv, outer
<1>3. CASE (\E s \in Slots : Work(s)) /\ UNCHANGED <<outer, arrived>>
  <2>1. request' = request /\ UNCHANGED <<outer, arrived>>
    BY <1>3 DEF Work, pop_from_queue, Finish, _yield_to_queue, _bump_or_orphan
  <2> QED BY <2>1 DEF LifespanInv, outer, InFlight
<1>4. CASE UNCHANGED apiVars
  BY <1>4 DEF apiVars, outer, vars, LifespanInv, InFlight
<1> QED BY <1>1, <1>2, <1>3, <1>4 DEF ApiNext

\* Whenever a signal, an error or a kill comes, no request of a living process
\* and no look of the sampler meets a store that is not open. (_lifespan)
THEOREM StoresOutliveRequests == ApiSpec => []RequestsMeetOpenStores
<1>1. ApiInit => LifespanInv
  BY DEF ApiInit, LifespanInv, Stores
<1>2. LifespanInv => RequestsMeetOpenStores
  BY DEF LifespanInv, RequestsMeetOpenStores, Alive, Stores
<1>3. AdmissionInv => TypeOK BY DEF AdmissionInv
<1>4. TypeOK /\ LifespanInv /\ [ApiNext]_apiVars => LifespanInv'
  BY LifespanStays
<1>5. ApiInit => Init BY DEF ApiInit
<1> QED
  BY <1>1, <1>2, <1>3, <1>4, <1>5, AdmissionStarts, AdmissionStays, ApiStepMaps, PTL DEF ApiSpec

-----------------------------------------------------------------------------
(* The gate.                                                               *)

\* The init container succeeds only once the table is migrated, and a living
\* API was started behind it; nothing takes a migration back.
GateInv ==
  /\ gate \in {"ok", "probe"} => schema = Head
  /\ Alive => schema = Head

\* Submissions are served on the migrated table only. (entrypoint.main)
THEOREM ServesMigratedTable == ApiSpec => []ServesMigrated
<1>1. ApiInit => GateInv BY DEF ApiInit, GateInv, Alive
<1>2. GateInv => ServesMigrated BY DEF GateInv, ServesMigrated, Alive
<1>3. GateInv /\ [ApiNext]_apiVars => GateInv'
  <2> SUFFICES ASSUME GateInv, [ApiNext]_apiVars PROVE GateInv'
    OBVIOUS
  <2>1. CASE UNCHANGED outer BY <2>1 DEF outer, GateInv, Alive
  <2>2. CASE Upgrade \/ Probe \/ Rerun
    BY <2>2 DEF Upgrade, Probe, Rerun, OnError, GateInv, Alive, Head
  <2>3. CASE StartProcess
    BY <2>3 DEF StartProcess, Released, Moves, GateInv, Alive
  <2>4. CASE Signal \/ Kill \/ _lifespan
    BY <2>4 DEF Signal, Kill, _lifespan, OpenPostgres, StartServing, CancelSampler,
       AwaitSampler, CloseRedis, ClosePostgres, Moves, GateInv, Alive
  <2>5. CASE queue_depth_sampler
    BY <2>5 DEF queue_depth_sampler, GateInv, Alive
  <2>6. ASSUME NEW r \in Requests, Arrive(r) \/ submit_receipt(r) \/ Abandon(r)
        PROVE  UNCHANGED outer
    BY <2>6 DEF Arrive, submit_receipt, Abandon
  <2> QED
    BY <2>1, <2>2, <2>3, <2>4, <2>5, <2>6 DEF ApiNext, Around, apiVars
<1> QED BY <1>1, <1>2, <1>3, PTL DEF ApiSpec
=============================================================================

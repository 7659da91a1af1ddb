----------------------------- MODULE ApiProcess ------------------------------
(***************************************************************************)
(* The API process around the submissions of Admission: the init container *)
(* that must succeed before it starts (src/init/entrypoint.py), the        *)
(* lifespan of the application (src/api/app.py), its queue-depth sampler   *)
(* (src/api/metrics.py), and a shutdown that meets requests in flight.     *)
(* Starting, draining and killing a process is what uvicorn and docker     *)
(* compose do with it.                                                     *)
(*                                                                         *)
(* A name with _Bad is a wrong variant of the definition that follows it.  *)
(***************************************************************************)
EXTENDS Admission

VARIABLES
  schema,   \* the revision the jobs table is at
  gate,     \* where the init container stands
  phase,    \* where the lifespan of the API stands
  open,     \* the stores the API has open
  sampler,  \* where queue_depth_sampler stands
  arrived   \* the submissions that wait for the answer to their LLEN

outer == <<schema, gate, phase, open, sampler>>
apiVars == <<vars, outer, arrived>>

Revisions == {"none", "0001", "0002"}
Head == "0002"
Stores == {"pg", "redis"}
Gates == {"migrate", "probe", "ok", "failed"}
Alive == phase \in {"boot", "serving", "draining", "stopping", "closing"}
Ended == phase \in {"down", "exited", "failed", "killed"}

ApiTypeOK ==
  /\ TypeOK
  /\ schema \in Revisions /\ gate \in Gates
  /\ Alive \/ Ended
  /\ open \subseteq Stores
  /\ sampler \in {"none", "asking", "sleeping", "stopped"}
  /\ arrived \subseteq Requests

\* A fresh database, or one an earlier release has left.
ApiInit ==
  /\ Init
  /\ schema \in Revisions
  /\ gate = "migrate" /\ phase = "down"
  /\ open = {} /\ sampler = "none" /\ arrived = {}

InFlight(r) == r \in arrived \/ request[r] # "idle"

-----------------------------------------------------------------------------
(* The init container.                                                     *)

\* What main returns when a step has raised: 1.
\* The exception is logged, and the container exits with 0.
OnError_BadZero == "ok"
OnError == "failed"

\* All migrations run in one transaction: it commits or leaves the table alone.
Upgrade ==
  /\ gate = "migrate"
  /\ \/ schema' = Head /\ gate' \in {"probe", OnError}
     \/ gate' = OnError /\ UNCHANGED schema
  /\ UNCHANGED <<phase, open, sampler>>

\* The stores are opened, probed and closed; a step that raises ends main.
Probe ==
  /\ gate = "probe"
  /\ gate' \in {"ok", OnError}
  /\ UNCHANGED <<schema, phase, open, sampler>>

\* The service is deployed again: the init container runs once more, also
\* beside an API that serves.
Rerun ==
  /\ gate \in {"ok", "failed"}
  /\ gate' = "migrate"
  /\ UNCHANGED <<schema, phase, open, sampler>>

\* depends_on of the api service, condition service_completed_successfully.
Released == gate = "ok"

-----------------------------------------------------------------------------
(* _lifespan, and uvicorn around it.                                       *)

Moves(p) == phase' = p /\ UNCHANGED <<schema, gate>>

\* A new process, once nothing of the one before is left.
StartProcess ==
  /\ Ended /\ Released
  /\ \A r \in Requests : ~InFlight(r)
  /\ Moves("boot")
  /\ open' = {} /\ sampler' = "none"

\* The pool connects at once, so that Postgres must answer.
OpenPostgres ==
  /\ phase = "boot" /\ open = {}
  /\ \/ open' = {"pg"} /\ Moves("boot")
     \/ Moves("failed") /\ UNCHANGED open
  /\ UNCHANGED sampler

\* The Redis client, which connects when it is used, the metrics server, which
\* may find its port taken, and the sampler.
StartServing ==
  /\ phase = "boot" /\ open = {"pg"}
  /\ \/ open' = Stores /\ sampler' = "asking" /\ Moves("serving")
     \/ Moves("failed") /\ UNCHANGED <<open, sampler>>

\* SIGTERM: no new requests, and those in flight are waited for.
Signal == phase = "serving" /\ Moves("draining") /\ UNCHANGED <<open, sampler>>

\* The lifespan goes on behind its yield: the sampler is cancelled.
CancelSampler ==
  /\ phase = "draining"
  /\ \A r \in Requests : ~InFlight(r)
  /\ Moves("stopping") /\ UNCHANGED <<open, sampler>>

\* await sampler.
\* The cancelled sampler is not waited for.
SamplerEnded_BadNoAwait == TRUE
SamplerEnded == sampler = "stopped"

AwaitSampler ==
  /\ phase = "stopping" /\ SamplerEnded
  /\ Moves("closing") /\ UNCHANGED <<open, sampler>>

\* When Redis raises while it is closed, the pool of Postgres stays open.
CloseRedis ==
  /\ phase = "closing" /\ open = Stores
  /\ \/ open' = {"pg"} /\ Moves("closing")
     \/ Moves("failed") /\ UNCHANGED open
  /\ UNCHANGED sampler

ClosePostgres ==
  /\ phase = "closing" /\ open = {"pg"}
  /\ open' = {} /\ Moves("exited") /\ UNCHANGED sampler

\* SIGKILL, or a second SIGTERM, with which uvicorn leaves the lifespan out.
Kill == Alive /\ Moves("killed") /\ UNCHANGED <<open, sampler>>

_lifespan ==
  \/ OpenPostgres \/ StartServing \/ CancelSampler \/ AwaitSampler
  \/ CloseRedis \/ ClosePostgres

\* The sampler asks for the length of the queue every 5 s, whatever the last
\* answer was, until the cancellation meets it at one of its two awaits.
\* The handler of the loop also catches the cancellation.
Cancellable_BadSwallowed == FALSE
Cancellable == sampler \in {"asking", "sleeping"}

queue_depth_sampler ==
  /\ \/ /\ phase \in {"serving", "draining"}
        /\ sampler' = IF sampler = "asking" THEN "sleeping" ELSE "asking"
     \/ /\ phase \in {"stopping", "closing"}
        /\ Cancellable /\ sampler' = "stopped"
  /\ UNCHANGED <<schema, gate, phase, open>>

-----------------------------------------------------------------------------
(* Requests.                                                               *)

Arrive(r) ==
  /\ phase = "serving" /\ ~InFlight(r)
  /\ arrived' = arrived \union {r}
  /\ UNCHANGED <<vars, outer>>

submit_receipt(r) ==
  /\ Alive
  /\ \/ r \in arrived /\ check_backpressure(r) /\ arrived' = arrived \ {r}
     \/ (CreateRow(r) \/ Push(r)) /\ UNCHANGED arrived
  /\ UNCHANGED outer

\* The process has ended, and the request with it.
Abandon(r) ==
  /\ Ended /\ InFlight(r)
  /\ Goes(r, "idle") /\ arrived' = arrived \ {r}
  /\ UNCHANGED <<depth, slot, faults, outer>>

-----------------------------------------------------------------------------

Around ==
  \/ Upgrade \/ Probe \/ Rerun
  \/ StartProcess \/ Signal \/ Kill \/ _lifespan \/ queue_depth_sampler

ApiNext ==
  \/ Around /\ UNCHANGED <<vars, arrived>>
  \/ \E r \in Requests : Arrive(r) \/ submit_receipt(r) \/ Abandon(r)
  \/ (\E s \in Slots : Work(s)) /\ UNCHANGED <<outer, arrived>>

ApiSpec == ApiInit /\ [][ApiNext]_apiVars

\* The event loop runs what can run. That calls to the stores end is an
\* assumption: they have no timeout.
ApiFairness ==
  /\ WF_apiVars(_lifespan /\ UNCHANGED <<vars, arrived>>)
  /\ WF_apiVars(queue_depth_sampler /\ UNCHANGED <<vars, arrived>>)
  /\ \A r \in Requests : WF_apiVars(submit_receipt(r))

ApiFairSpec == ApiSpec /\ ApiFairness

-----------------------------------------------------------------------------
(* Properties.                                                             *)

\* No request of a living process and no look of the sampler at the queue
\* meets a store that is not open yet or closed already, whenever the signal
\* comes. (the order of _lifespan)
RequestsMeetOpenStores ==
  Alive =>
    /\ (\E r \in Requests : InFlight(r)) => open = Stores
    /\ sampler = "asking" => "redis" \in open

\* Submissions are served on the migrated table only, however often the init
\* container failed, and after what. (main of the init container, depends_on)
ServesMigrated == phase = "serving" => schema = Head

\* An API process that is told to stop does stop, with its requests answered.
\* (the drain, the cancellation of the sampler and the closing)
StopEnds == phase = "draining" ~> ~Alive
=============================================================================

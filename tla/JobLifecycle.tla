---------------------------- MODULE JobLifecycle ----------------------------
(***************************************************************************)
(* The life of a receipt job: the API that admits it, the Redis queue, the *)
(* worker task slots that run execute_task_lifecycle, the Postgres row     *)
(* that clients poll, and the stale-job sweeper and nightly purge of every *)
(* worker process.                                                         *)
(*                                                                         *)
(* A step of this specification is what a coroutine does between two       *)
(* awaits, together with the effect of the store call it awaits: other     *)
(* slots, other processes, the sweeper and the clock run in between.       *)
(*                                                                         *)
(* A name with _Bad is a wrong variant of the definition that follows it,  *)
(* which no specification uses: each is a bug some property notices.       *)
(***************************************************************************)
EXTENDS Naturals, Sequences, FiniteSets

CONSTANTS
  Jobs,         \* the job ids that are ever submitted (uuid4: never reused)
  NoJob,        \* what an idle task slot holds
  Workers,      \* the worker processes
  Concurrency,  \* settings.WORKER_CONCURRENCY: task slots per process
  Hash,         \* the perceptual hash of each job's image
  Unstorable,   \* the jobs whose result is no value of the jsonb column (a
                \* NUL character in a field): Postgres refuses it every time
  RequeueMax,   \* settings.REQUEUE_MAX
  RejectDepth,  \* settings.BACKPRESSURE_QUEUE_REJECT
  Faults,       \* the kinds of fault this configuration meets
  MaxFaults,    \* how many faults happen in one behaviour (a bound)
  Prompt        \* TRUE: no row outlives its staleness window while the API,
                \* the queue or a slot holds its job

FaultKinds == {"pg_lost",         \* Postgres call fails, not applied
               "pg_ambiguous",    \* Postgres call fails, but was applied
               "push_lost",       \* LPUSH fails, not applied
               "push_ambiguous",  \* LPUSH fails, but was applied
               "pop_lost",        \* BRPOP applied, its reply is lost
               "pop_error",       \* BRPOP answers with a server error
               "bump",            \* HINCRBY or the EXPIRE after it fails
               "cache",           \* GET, SETEX or LLEN fails
               "ttl",             \* a Redis key reaches its time to live
               "crash"}           \* a worker process or an API request dies

ASSUME ConstantsAssumption ==
  /\ NoJob \notin Jobs
  /\ Concurrency \in Nat \ {0}
  /\ DOMAIN Hash = Jobs
  /\ Unstorable \subseteq Jobs
  /\ RequeueMax \in Nat
  /\ RejectDepth \in Nat
  /\ Faults \subseteq FaultKinds
  /\ MaxFaults \in Nat
  /\ Prompt \in BOOLEAN

VARIABLES
  rows,      \* Postgres: the row of each job in table jobs
  queue,     \* Redis: the list of messages, oldest first
  bumps,     \* Redis: the requeue counter of each job
  cache,     \* Redis: the hashes with a cached raw extraction
  api,       \* where submit_receipt stands for each job, then its answer
  slots,     \* where each worker task slot stands
  sweeping,  \* the rows each process's sweeper selected and has not failed yet
  spent      \* the faults so far (bounded by MaxFaults)

vars == <<rows, queue, bumps, cache, api, slots, sweeping, spent>>

-----------------------------------------------------------------------------
(* Data.                                                                   *)

Slots == Workers \X (1..Concurrency)
Hashes == {Hash[j] : j \in Jobs}

NonTerminal == {"PENDING", "PROCESSING"}
Failed == {"FAILED_PERMANENT", "FAILED_TRANSIENT"}
Terminal == Failed \union {"SUCCEEDED"}

\* error_code; "pipeline" stands for the codes of PermanentPipelineError.
PermanentCodes == {"pipeline", "orphan_requeue_cap"}
TransientCodes == {"stale_timeout", "database_unavailable", "storage_transient",
                   "lifecycle_uncaught"}
ErrorCodes == PermanentCodes \union TransientCodes

\* A row. `old' says that the row is past the window its status is judged
\* by: created_at 30 min for PENDING, updated_at 15 min for PROCESSING,
\* updated_at 90 days for a terminal status.
Row == [status : Terminal \union NonTerminal \union {"absent"},
        old : BOOLEAN, phash : BOOLEAN, result : BOOLEAN,
        error : ErrorCodes \union {"none"}]

AbsentRow == [status |-> "absent", old |-> FALSE, phash |-> FALSE,
              result |-> FALSE, error |-> "none"]

\* The stages of execute_task_lifecycle that end in an await.
Stages == {"read", "mark", "download", "phash", "lookup", "detect", "acquire",
           "extract", "store", "persist", "bump", "touch", "push", "fail"}

\* A task slot: `hashed' is the phash test on the record read at stage
\* "read", `again' the second yield that follows a failed bump, `verdict'
\* the error code that _fail is about to record.
Slot == [pc : Stages \union {"idle", "dead"}, job : Jobs \union {NoJob},
         hashed : BOOLEAN, again : BOOLEAN, verdict : ErrorCodes]

IdleSlot == [pc |-> "idle", job |-> NoJob, hashed |-> FALSE, again |-> FALSE,
             verdict |-> "lifecycle_uncaught"]

ApiSteps == {"new", "check", "create", "push"}
ApiAnswers == {"202", "400", "429", "503", "gone"}

TypeOK ==
  /\ rows \in [Jobs -> Row]
  /\ queue \in Seq(Jobs)
  /\ bumps \in [Jobs -> Nat]
  /\ cache \subseteq Hashes
  /\ api \in [Jobs -> ApiSteps \union ApiAnswers]
  /\ slots \in [Slots -> Slot]
  /\ sweeping \in [Workers -> SUBSET Jobs]
  /\ spent \in 0..MaxFaults

Init ==
  /\ rows = [j \in Jobs |-> AbsentRow]
  /\ queue = <<>>
  /\ bumps = [j \in Jobs |-> 0]
  /\ cache = {}
  /\ api = [j \in Jobs |-> "new"]
  /\ slots = [s \in Slots |-> IdleSlot]
  /\ sweeping = [w \in Workers |-> {}]
  /\ spent = 0

-----------------------------------------------------------------------------
(* Store calls and their outcomes.                                         *)

PgOutcomes == {"ok", "pg_lost", "pg_ambiguous"}
PushOutcomes == {"ok", "push_lost", "push_ambiguous"}

Spend(kind) == kind \in Faults /\ spent < MaxFaults /\ spent' = spent + 1
Call(outcome) == (outcome = "ok" /\ spent' = spent) \/ Spend(outcome)
Applied(outcome) == outcome \notin {"pg_lost", "push_lost"}

\* Every write sets the phash column, to NULL when none is given.
update_job_status_BadClears(row, status, given) ==
  IF row.status = "absent" THEN row
  ELSE [status |-> status, old |-> FALSE, phash |-> given = "phash",
        result |-> row.result \/ given = "result",
        error |-> IF given \in ErrorCodes THEN given ELSE row.error]

\* UPDATE jobs SET status, updated_at and the given columns WHERE job_id.
\* It looks at no other column, and a column that is not given keeps its value.
update_job_status(row, status, given) ==
  IF row.status = "absent" THEN row
  ELSE [status |-> status,
        old |-> FALSE,
        phash |-> row.phash \/ given = "phash",
        result |-> row.result \/ given = "result",
        error |-> IF given \in ErrorCodes THEN given ELSE row.error]

\* UPDATE jobs SET updated_at = now(): a PENDING row is judged by created_at.
touch_updated_at(row) ==
  IF row.status \in {"absent", "PENDING"} THEN row ELSE [row EXCEPT !.old = FALSE]

PgUpdate(j, row, outcome) ==
  /\ Call(outcome)
  /\ rows' = IF Applied(outcome) THEN [rows EXCEPT ![j] = row] ELSE rows

\* A push that is repeated although it was applied.
push_to_queue_BadTwice(j, outcome) ==
  /\ Call(outcome)
  /\ queue' = IF Applied(outcome) THEN Append(Append(queue, j), j) ELSE queue

\* A failed push that is retried behind the caller's back.
push_to_queue_BadRetry(j, outcome) ==
  /\ Call(outcome)
  /\ queue' = Append(queue, j)

push_to_queue(j, outcome) ==
  /\ Call(outcome)
  /\ queue' = IF Applied(outcome) THEN Append(queue, j) ELSE queue

In(q, j) == \E i \in 1..Len(q) : q[i] = j
NoDuplicates(q) == \A i, k \in 1..Len(q) : q[i] = q[k] => i = k

InQueue(j) == In(queue, j)

\* A slot that holds j, for whatever stage.
Holds(s, j) == slots[s].job = j

Carried(j) == InQueue(j) \/ api[j] = "push" \/ \E s \in Slots : Holds(s, j)

-----------------------------------------------------------------------------
(* POST /v1/receipts.                                                      *)

Answer(j, a) == api' = [api EXCEPT ![j] = a]

SubmitBegin(j) ==
  /\ api[j] = "new"
  /\ Answer(j, "check")
  /\ UNCHANGED <<rows, queue, bumps, cache, slots, sweeping, spent>>

\* check_backpressure fails open when LLEN fails; the domain allowlist, which
\* is checked before the next await, may refuse the URL.
SubmitCheck(j) ==
  /\ api[j] = "check"
  /\ \/ spent' = spent /\ Len(queue) >= RejectDepth /\ Answer(j, "429")
     \/ /\ (spent' = spent /\ Len(queue) < RejectDepth) \/ Spend("cache")
        /\ \E a \in {"create", "400"} : Answer(j, a)
  /\ UNCHANGED <<rows, queue, bumps, cache, slots, sweeping>>

SubmitCreate(j) ==
  /\ api[j] = "create"
  /\ \E o \in PgOutcomes :
       /\ PgUpdate(j, [AbsentRow EXCEPT !.status = "PENDING"], o)
       /\ Answer(j, IF o = "ok" THEN "push" ELSE "503")
  /\ UNCHANGED <<queue, bumps, cache, slots, sweeping>>

SubmitPush(j) ==
  /\ api[j] = "push"
  /\ \E o \in PushOutcomes :
       /\ push_to_queue(j, o)
       /\ Answer(j, IF o = "ok" THEN "202" ELSE "503")
  /\ UNCHANGED <<rows, bumps, cache, slots, sweeping>>

submit_receipt(j) ==
  SubmitBegin(j) \/ SubmitCheck(j) \/ SubmitCreate(j) \/ SubmitPush(j)

\* The HTTP status GET /v1/receipts/{job_id} answers from a row.
get_receipt(row) ==
  CASE row.status = "SUCCEEDED" -> "200"
    [] row.status \in NonTerminal -> "202"
    [] row.status = "FAILED_PERMANENT" -> "422"
    [] row.status = "FAILED_TRANSIENT" -> "503"
    [] OTHER -> "404"

-----------------------------------------------------------------------------
(* A worker task slot.                                                     *)

At(s, stage) == slots[s].pc = stage
Goto(s, stage) == slots' = [slots EXCEPT ![s].pc = stage]
Release(s) == slots' = [slots EXCEPT ![s] = IdleSlot]
FailWith(s, code) == slots' = [slots EXCEPT ![s].pc = "fail", ![s].verdict = code]

\* pop_from_queue: BRPOP removes the message before the slot has seen it. An
\* error other than a lost connection leaves _worker_task: the task is gone.
pop_from_queue(s) ==
  /\ At(s, "idle")
  /\ \/ /\ queue # <<>>
        /\ queue' = Tail(queue)
        /\ \/ /\ spent' = spent
              /\ slots' = [slots EXCEPT ![s].pc = "read", ![s].job = Head(queue)]
           \/ Spend("pop_lost") /\ UNCHANGED slots
     \/ Spend("pop_error") /\ Goto(s, "dead") /\ UNCHANGED queue
  /\ UNCHANGED <<rows, bumps, cache, api, sweeping>>

\* Step 0: drop the message of an absent or terminal row.
ReadRecord(s) ==
  /\ At(s, "read")
  /\ LET row == rows[slots[s].job] IN
     \/ /\ spent' = spent
        /\ \/ row.status \notin NonTerminal /\ Release(s)
           \/ /\ row.status \in NonTerminal
              /\ slots' = [slots EXCEPT ![s].pc = "mark", ![s].hashed = row.phash]
     \/ (Spend("pg_lost") \/ Spend("pg_ambiguous")) /\ Goto(s, "touch")
  /\ UNCHANGED <<rows, queue, bumps, cache, api, sweeping>>

\* Step 1: mark the row PROCESSING, whatever it holds by now.
MarkProcessing(s) ==
  /\ At(s, "mark")
  /\ LET j == slots[s].job IN
     \E o \in PgOutcomes :
       /\ PgUpdate(j, update_job_status(rows[j], "PROCESSING", "nothing"), o)
       /\ Goto(s, IF o = "ok" THEN "download" ELSE "touch")
  /\ UNCHANGED <<queue, bumps, cache, api, sweeping>>

\* Steps 2 and 3: download the image and preprocess it. A redirect status
\* or an undecodable error of the library leaves through the last handler.
Download(s) ==
  /\ At(s, "download")
  /\ \/ Goto(s, IF slots[s].hashed THEN "lookup" ELSE "phash")
     \/ FailWith(s, "pipeline")
     \/ Goto(s, "bump")
     \/ FailWith(s, "lifecycle_uncaught")
  /\ UNCHANGED <<rows, queue, bumps, cache, api, sweeping, spent>>

\* Step 3b: record the perceptual hash; an error is ignored.
RecordPhash(s) ==
  /\ At(s, "phash")
  /\ LET j == slots[s].job IN
     \E o \in PgOutcomes :
       PgUpdate(j, update_job_status(rows[j], "PROCESSING", "phash"), o)
  /\ Goto(s, "lookup")
  /\ UNCHANGED <<queue, bumps, cache, api, sweeping>>

\* Step 9: postprocess runs to step 10 without an await, or raises.
Postprocess(s) == Goto(s, "persist") \/ FailWith(s, "lifecycle_uncaught")

\* Step 4: a hit that still validates skips detection and extraction; a miss,
\* an error and a drifted entry do not.
CacheLookup(s) ==
  /\ At(s, "lookup")
  /\ \/ spent' = spent /\ Hash[slots[s].job] \in cache /\ Postprocess(s)
     \/ (spent' = spent \/ Spend("cache")) /\ Goto(s, "detect")
  /\ UNCHANGED <<rows, queue, bumps, cache, api, sweeping>>

\* Step 5: YOLO on Triton.
Detect(s) ==
  /\ At(s, "detect")
  /\ \/ Goto(s, "acquire")
     \/ FailWith(s, "pipeline")
     \/ Goto(s, "bump")
     \/ FailWith(s, "lifecycle_uncaught")
  /\ UNCHANGED <<rows, queue, bumps, cache, api, sweeping, spent>>

\* An empty bucket drops the job instead of giving it back.
Acquire_BadDrop(s, granted) ==
  /\ At(s, "acquire")
  /\ IF granted THEN Goto(s, "extract") ELSE Release(s)
  /\ UNCHANGED <<rows, queue, bumps, cache, api, sweeping, spent>>

\* Step 6: take a token, or give the job back without counting it.
Acquire(s, granted) ==
  /\ At(s, "acquire")
  /\ Goto(s, IF granted THEN "extract" ELSE "touch")
  /\ UNCHANGED <<rows, queue, bumps, cache, api, sweeping, spent>>

\* Step 7: Gemini. A 429 gives the job back uncounted, exhausted backoffs
\* count, a schema error or another 4xx is permanent.
ExtractLimited(s) ==
  /\ At(s, "extract")
  /\ Goto(s, "touch")
  /\ UNCHANGED <<rows, queue, bumps, cache, api, sweeping, spent>>

ExtractDone(s) ==
  /\ At(s, "extract")
  /\ \/ Goto(s, "store")
     \/ Goto(s, "bump")
     \/ FailWith(s, "pipeline")
     \/ FailWith(s, "lifecycle_uncaught")
  /\ UNCHANGED <<rows, queue, bumps, cache, api, sweeping, spent>>

\* Steps 8 and 9: cache the raw extraction, best effort, then postprocess.
StoreRaw(s) ==
  /\ At(s, "store")
  /\ \/ spent' = spent /\ cache' = cache \union {Hash[slots[s].job]}
     \/ Spend("cache") /\ UNCHANGED cache
  /\ Postprocess(s)
  /\ UNCHANGED <<rows, queue, bumps, api, sweeping>>

\* Step 10: write the result. Every error of Postgres, a refused value too, is
\* DatabaseUnavailable here: the job is given back uncounted.
Persist(s) ==
  /\ At(s, "persist")
  /\ LET j == slots[s].job IN
     \/ /\ j \in Unstorable
        /\ Goto(s, "touch")
        /\ UNCHANGED <<rows, spent>>
     \/ /\ j \notin Unstorable
        /\ \E o \in PgOutcomes :
             /\ PgUpdate(j, update_job_status(rows[j], "SUCCEEDED", "result"), o)
             /\ IF o = "ok" THEN Release(s) ELSE Goto(s, "touch")
  /\ UNCHANGED <<queue, bumps, cache, api, sweeping>>

\* A counter that is set instead of incremented.
bump_requeue_counter_BadSet(count) == 1
bump_requeue_counter(count) == count + 1

OverCap_BadOff(count) == count > RequeueMax + 1
OverCap(count) == count > RequeueMax

\* _bump_or_orphan: past the cap the job is orphaned. When the counter
\* cannot be bumped it yields, returns 0, and the caller yields once more.
BumpOrOrphan(s) ==
  /\ At(s, "bump")
  /\ LET j == slots[s].job
         count == bump_requeue_counter(bumps[j]) IN
     \/ /\ spent' = spent
        /\ bumps' = [bumps EXCEPT ![j] = count]
        /\ IF OverCap(count) THEN FailWith(s, "orphan_requeue_cap")
                             ELSE Goto(s, "touch")
     \/ /\ Spend("bump")
        /\ bumps' \in {bumps, [bumps EXCEPT ![j] = count]}
        /\ slots' = [slots EXCEPT ![s].pc = "touch", ![s].again = TRUE]
  /\ UNCHANGED <<rows, queue, cache, api, sweeping>>

\* _yield_to_queue, first half. What it raises reaches the outer handler of
\* the lifecycle, which records a transient failure and pushes nothing.
YieldTouch(s) ==
  /\ At(s, "touch")
  /\ LET j == slots[s].job IN
     \E o \in PgOutcomes :
       /\ PgUpdate(j, touch_updated_at(rows[j]), o)
       /\ IF o = "ok" THEN Goto(s, "push") ELSE FailWith(s, "database_unavailable")
  /\ UNCHANGED <<queue, bumps, cache, api, sweeping>>

\* _yield_to_queue, second half.
YieldPush(s) ==
  /\ At(s, "push")
  /\ \E o \in PushOutcomes :
       /\ push_to_queue(slots[s].job, o)
       /\ IF o # "ok" THEN FailWith(s, "storage_transient")
          ELSE IF slots[s].again
          THEN slots' = [slots EXCEPT ![s].pc = "touch", ![s].again = FALSE]
          ELSE Release(s)
  /\ UNCHANGED <<rows, bumps, cache, api, sweeping>>

\* _fail never raises: when Postgres fails the slot drops the job.
FailStatus(code) ==
  IF code \in PermanentCodes THEN "FAILED_PERMANENT" ELSE "FAILED_TRANSIENT"

Fail(s) ==
  /\ At(s, "fail")
  /\ LET j == slots[s].job
         code == slots[s].verdict IN
     \E o \in PgOutcomes :
       PgUpdate(j, update_job_status(rows[j], FailStatus(code), code), o)
  /\ Release(s)
  /\ UNCHANGED <<queue, bumps, cache, api, sweeping>>

\* Each stage of the lifecycle; the bucket and Gemini decide the last two.
execute_task_lifecycle(s) ==
  \/ ReadRecord(s) \/ MarkProcessing(s) \/ Download(s) \/ RecordPhash(s)
  \/ CacheLookup(s) \/ Detect(s) \/ StoreRaw(s) \/ Persist(s)
  \/ BumpOrOrphan(s) \/ YieldTouch(s) \/ YieldPush(s) \/ Fail(s)
  \/ Acquire(s, TRUE) \/ Acquire(s, FALSE)
  \/ ExtractLimited(s) \/ ExtractDone(s)

-----------------------------------------------------------------------------
(* The sweeper and the purge of a worker process.                          *)

Stale_BadWindow(row) == row.status \in NonTerminal
Stale_BadPending(row) == row.status = "PROCESSING" /\ row.old
Stale(row) == row.status \in NonTerminal /\ row.old

\* select_stale_jobs; an error is logged and the next interval tries again.
SweepSelect(w) ==
  /\ sweeping[w] = {}
  /\ sweeping' = [sweeping EXCEPT ![w] = {j \in Jobs : Stale(rows[j])}]
  /\ UNCHANGED <<rows, queue, bumps, cache, api, slots, spent>>

\* One row of _sweep_once: _fail on the job id of the snapshot.
SweepFail(w, j) ==
  /\ j \in sweeping[w]
  /\ \E o \in PgOutcomes :
       PgUpdate(j, update_job_status(rows[j], "FAILED_TRANSIENT", "stale_timeout"), o)
  /\ sweeping' = [sweeping EXCEPT ![w] = @ \ {j}]
  /\ UNCHANGED <<queue, bumps, cache, api, slots>>

Expired_BadStatus(row) == row.old
Expired(row) == row.status \in Terminal /\ row.old

\* purge_old_job_records: one DELETE of every terminal row past retention.
Purge ==
  /\ \E j \in Jobs : Expired(rows[j])
  /\ rows' = [j \in Jobs |-> IF Expired(rows[j]) THEN AbsentRow ELSE rows[j]]
  /\ UNCHANGED <<queue, bumps, cache, api, slots, sweeping, spent>>

-----------------------------------------------------------------------------
(* The environment.                                                        *)

\* The clock passes the window that rows[j] is judged by.
Age(j) ==
  /\ rows[j].status # "absent"
  /\ ~rows[j].old
  /\ Prompt => ~Carried(j)
  /\ rows' = [rows EXCEPT ![j].old = TRUE]
  /\ UNCHANGED <<queue, bumps, cache, api, slots, sweeping, spent>>

\* A worker process dies and is restarted with idle slots and a new sweeper.
Crash(w) ==
  /\ Spend("crash")
  /\ slots' = [s \in Slots |-> IF s[1] = w THEN IdleSlot ELSE slots[s]]
  /\ sweeping' = [sweeping EXCEPT ![w] = {}]
  /\ UNCHANGED <<rows, queue, bumps, cache, api>>

\* The API process dies in the middle of a submission.
CrashApi(j) ==
  /\ Spend("crash")
  /\ api[j] \in {"check", "create", "push"}
  /\ Answer(j, "gone")
  /\ UNCHANGED <<rows, queue, bumps, cache, slots, sweeping>>

\* REDIS_REQUEUE_TTL_SECONDS and REDIS_PHASH_TTL_SECONDS.
CounterExpires(j) ==
  /\ Spend("ttl")
  /\ bumps[j] > 0
  /\ bumps' = [bumps EXCEPT ![j] = 0]
  /\ UNCHANGED <<rows, queue, cache, api, slots, sweeping>>

CacheExpires(h) ==
  /\ Spend("ttl")
  /\ h \in cache
  /\ cache' = cache \ {h}
  /\ UNCHANGED <<rows, queue, bumps, api, slots, sweeping>>

-----------------------------------------------------------------------------

SlotStep(s) == pop_from_queue(s) \/ execute_task_lifecycle(s)

SweeperStep(w) == SweepSelect(w) \/ \E j \in Jobs : SweepFail(w, j)

Environment ==
  \/ \E j \in Jobs : Age(j) \/ CrashApi(j) \/ CounterExpires(j)
  \/ \E h \in Hashes : CacheExpires(h)
  \/ \E w \in Workers : Crash(w)

Next ==
  \/ \E j \in Jobs : submit_receipt(j)
  \/ \E s \in Slots : SlotStep(s)
  \/ \E w \in Workers : SweeperStep(w)
  \/ Purge
  \/ Environment

Spec == Init /\ [][Next]_vars

\* Fairness. Slots, sweepers and submissions are coroutines of a running event
\* loop; a window passes for a row that nobody rewrites; a bucket with a
\* positive rate grants a token now and then, and Gemini does not answer 429
\* forever (strong fairness: the slot comes back to ask).
Fairness ==
  /\ \A s \in Slots : /\ WF_vars(SlotStep(s))
                      /\ SF_vars(Acquire(s, TRUE))
                      /\ SF_vars(ExtractDone(s))
  /\ \A w \in Workers : WF_vars(SweeperStep(w))
  /\ \A j \in Jobs : /\ WF_vars(Age(j) /\ rows[j].status \in NonTerminal)
                     /\ WF_vars(submit_receipt(j))

FairSpec == Spec /\ Fairness

-----------------------------------------------------------------------------
(* Properties.                                                             *)

\* A slot that may still change what happens to j (one at stage "fail" only
\* has its verdict left to write).
Working(s, j) == Holds(s, j) /\ slots[s].pc # "fail"

InFlight(j) == InQueue(j) \/ api[j] = "push" \/ \E s \in Slots : Working(s, j)

\* A job has one message: it is on its way to the queue, in the queue once, or
\* with one slot, so that no two slots run the same job. (pop_from_queue and
\* _yield_to_queue, as long as bump_requeue_counter does not fail.)
OneCopy ==
  /\ NoDuplicates(queue)
  /\ \A s, t \in Slots, j \in Jobs : Working(s, j) /\ Working(t, j) => s = t
  /\ \A s \in Slots, j \in Jobs : Working(s, j) => ~InQueue(j)
  /\ \A j \in Jobs : api[j] = "push" =>
       ~InQueue(j) /\ \A s \in Slots : ~Working(s, j)

\* I8: once the counter of a job has passed REQUEUE_MAX, no message of the job
\* exists and no slot runs it: the loop is over. (_bump_or_orphan)
BoundedRequeue ==
  \A j \in Jobs : bumps[j] > RequeueMax => ~InFlight(j)

\* Copies multiply only by faults: whatever fails, a job never has more
\* messages, counting the one a slot still owes, than faults plus one.
Copies(j) ==
  Cardinality({i \in 1..Len(queue) : queue[i] = j})
  + Cardinality({s \in Slots : Working(s, j)})
  + Cardinality({s \in Slots : Working(s, j) /\ slots[s].again})
  + (IF api[j] = "push" THEN 1 ELSE 0)

CopiesBounded == \A j \in Jobs : Copies(j) <= 1 + spent

\* A job that polls 202 is carried, and only faults lose jobs: a crash those in
\* the slots of one process, any other fault one. An empty bucket, a 429, a
\* sweep or another job's mishap loses none. (submit_receipt,
\* execute_task_lifecycle, pop_from_queue)
Lost == {j \in Jobs : rows[j].status \in NonTerminal /\ ~Carried(j)}

LossesBounded == Cardinality(Lost) <= Concurrency * spent

\* A submission that was refused is never run: the client may submit again
\* without paying for the image twice. (submit_receipt's error returns)
RefusedNeverRuns ==
  \A j \in Jobs : api[j] \in {"400", "429", "503"} =>
    /\ ~Carried(j)
    /\ rows[j].status \notin {"PROCESSING", "SUCCEEDED", "FAILED_PERMANENT"}

\* The sweeper only takes jobs nobody works on. (select_stale_jobs)
SweepsOnlyAbandoned ==
  \A w \in Workers : \A j \in sweeping[w] : ~Carried(j)

\* A job that succeeded has its perceptual hash on record, also if yields came
\* between the write of the hash and the success, or another job with the same
\* image was first. The write whose error is ignored is made up for by nothing
\* later, but each fault costs at most one job its hash. (step 3 and the
\* comparison with the record of step 0)
PhashLands ==
  Cardinality({j \in Jobs : rows[j].status = "SUCCEEDED" /\ ~rows[j].phash}) <= spent

\* Once a client has been answered 200, 422 or 503 for a job it is never
\* answered otherwise, until the purge answers 404. (terminal states)
FinalAnswer ==
  [][\A j \in Jobs : get_receipt(rows[j]) \in {"200", "422", "503"} =>
       get_receipt(rows'[j]) \in {get_receipt(rows[j]), "404"}]_vars

\* Under the same conditions the answers to GET implement the contract that
\* JobContract states without queue, slots or sweeper.
Contract == INSTANCE JobContract WITH
              poll <- [j \in Jobs |-> get_receipt(rows[j])]
ImplementsContract == Contract!Spec

\* Whatever fails, crashes or is lost, every job settles for good: it ends
\* terminal (or purged), if need be by the sweeper, and stays so.
Settles == \A j \in Jobs : <>[](rows[j].status \notin NonTerminal)

\* The queue drains for good: no message circulates forever.
Drains == <>[](queue = <<>>)
=============================================================================

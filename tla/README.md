# A TLA+ model of the invoice OCR service

The service turns the photo of a receipt into a structured invoice. A client
submits an image URL to the API (`POST /v1/receipts`), gets a job id, and polls
`GET /v1/receipts/{job_id}`. Worker processes take jobs from a Redis list,
download the image, find the receipt with YOLO on Triton, extract its fields
with Gemini, normalise them and store the result in Postgres. This directory
holds TLA+ modules that model the service, the TLC configurations that check
them, and TLAPS proofs about them. Paths below are relative to the repository.

## 1. The system

### 1.1 Components

| component | state it keeps | operations | interacts with |
|---|---|---|---|
| API (`src/api/routes.py`) | none between requests | `submit_receipt`, `get_receipt` | writes the row, pushes the message, reads the row |
| API process (`src/api/app.py`, `src/api/metrics.py`) | open pools, sampler task | `_lifespan`, `queue_depth_sampler`, the drain of uvicorn | stores, requests, init container |
| backpressure (`src/api/backpressure.py`) | none | `check_backpressure` | reads the length of the queue |
| job table (`src/storage/postgres_client.py`) | one row per job: status, phash, result, error, created_at, updated_at | `create_job_record`, `update_job_status`, `touch_updated_at`, `get_job_record`, `select_stale_jobs`, `purge_old_job_records` | API, worker slots, sweeper, purge |
| Redis (`src/storage/redis_client.py`) | list of messages, requeue counters (1 h), raw extractions by perceptual hash (24 h), rate-limit hash | `push_to_queue`, `pop_from_queue`, `bump_requeue_counter`, `get/set_phash_cache`, `read_rate_limit_config` | API, worker slots, rate refresh |
| worker slot (`src/worker/loop.py`) | the job it runs and how far it is | `execute_task_lifecycle`, `_fail`, `_yield_to_queue`, `_bump_or_orphan`, `_orphan` | every store, bucket, pipeline |
| worker process (`src/worker/main.py`) | shutdown flag, slots, daemons, pools | `_worker_task`, `_run`, signal handlers | slots, daemons |
| sweeper (`src/worker/sweeper.py`) | the snapshot of stale rows | `_sweep_once`, `sweeper_loop` | job table |
| nightly purge (`src/worker/nightly_purge.py`) | none | `nightly_purge_loop` | job table |
| token bucket and its refresh (`src/utils/token_bucket.py`, `src/worker/rate_refresh.py`) | tokens, rate, capacity, time of the last refill | `acquire`, `update_config` | slots, rate-limit hash |
| extractor (`src/pipeline/extractor.py`) | lazily made client and prompt | `extract_invoice`: attempts and backoffs | Gemini |
| phash cache (`settings.phash_cache_key`, `schemas/invoice.py`) | entries by hash and prompt version | lookup with validation, store | slots of every release |
| whitelist index (`src/pipeline/whitelist_index.py`) | per list: buckets, flat list, canonical spellings | `build`, `match_store`, `match_product` | postprocessor |
| postprocessor (`src/pipeline/postprocessor.py`) | none | `postprocess` and the normalisers | whitelist index |
| download, preprocess, detect (`src/storage/http_client.py`, `src/pipeline/`) | none | `download_image`, `preprocess_image`, `detect_invoice` with `_letterbox` | CDN, Pillow, Triton, the handlers of the lifecycle |
| init container, migrations (`src/init/entrypoint.py`, `migrations/`) | the revision of the table | migrate, probe the stores, exit code | Postgres, Redis, the start of the API |
| metrics and logging | counters | – | Prometheus |
| evaluation runner (`scripts/run_eval.py`) | cached images, one result per record, a report | a pool of threads: download, submit, poll; align, judge, rebuild, count | the API, files |
| experiment harness (`scripts/run_experiment.py`) | run counter, lock, copied reports, table | `--run`, `--final`, `--status` | evaluation runner, files |
| data set scripts (`scripts/`) | files: labels, dev and test set, whitelists | split, collect names, normalise, verify | offline; evaluation runner, whitelist index |

### 1.2 What is hard

* **Delivery.** `BRPOP` destroys the message it hands out: there is no
  acknowledgement. A crash, a lost reply or a swallowed error loses the only
  message of a job, and the sweeper is the one way back, by failing the job.
* **Two stores, no transaction.** The row is written before the push, the push
  happens after the touch, the counter is bumped before both: every prefix of
  each sequence can be the last thing that happens.
* **Unconditional writes.** Every status write is `UPDATE ... WHERE job_id`; no
  write looks at the status it overwrites. Whether terminal states are final
  depends on who can be between its read and its write.
* **Retries.** Some yields are counted against `REQUEUE_MAX`, some are not, the
  counter expires, and a failed bump yields twice.
* **Shutdown.** A signal lets the slots finish, cancels the daemons and closes
  the pools; an error of the pop ends a slot for good.
* **Data.** A name, a number or a picture of any size goes through rules with
  boundaries (buckets, cutoffs, separators, roundings), and what a rule raises
  meets handlers that were written for something else.
* **Files.** The evaluation and the experiments keep their state in files that
  several shells and threads share and that a kill leaves half done.
* **Quotas.** Slots share a bucket whose rate and capacity an operator changes
  while it is in use; one token pays for up to four calls of Gemini.

### 1.3 What makes it correct

A job has one message at a time; a job that is not terminal is carried by
somebody or will be swept; a terminal answer is final; a refused submission
never runs; the counted retries end; the row of a job tells one story; the
queue and the slots hold a bounded number of jobs; the bucket grants no more
than burst plus rate times elapsed time; a drained process has given up nothing
it popped; the stores outlive the requests of the API; a crop shows the box that
was found; a matched name stays what it is; an evaluation reports what became of
its records. `PROJECT.json` lists the places where each of these could go wrong.

## 2. The modules

| module | models | checked by run | proofs |
|---|---|---|---|
| `JobLifecycle` | the life of a job: API, queue, slots, row, sweeper, purge, faults | `calm`, `recovery`, `stale_sweep`, `bump_blip` | `JobLifecycle_proofs` |
| `JobContract` | what a polling client may rely on (abstract) | refined in `calm` | in `JobLifecycle_proofs` |
| `WorkerProcess` | boot, tasks, daemons, signal, drain and closing of one process | `shutdown`, `all_purge` | `WorkerProcess_proofs` |
| `GeminiQuota` | token bucket, rate refresh, retries on one permit | `quota` | `GeminiQuota_proofs` |
| `Admission` | backpressure against the length of the queue | in `api` | `ApiProcess_proofs` |
| `ApiProcess` | the API process around it: init container, lifespan, sampler, signals, kills (extends `Admission`) | `api` | `ApiProcess_proofs` |
| `ResultCache` | the phash cache across releases and rolling deployments | `rollout` | `ResultCache_proofs` |
| `WhitelistIndex` | building the index of a list, matching a name | in `pipeline` | `Pipeline_proofs` |
| `Normalizers` | operators: normalised dates, amounts, quantities | in `pipeline` | `Pipeline_proofs` |
| `Postprocessor` | `postprocess` on a field of each kind, over the two above | in `pipeline` | `Pipeline_proofs` |
| `ReceiptImage` | an image from its URL to the crop: download, preprocessing, letterbox and its inverse | in `pipeline` | `Pipeline_proofs` |
| `Pipeline` | both ways of a job's data through the handlers of the lifecycle (extends the four above) | `pipeline` | `Pipeline_proofs` |
| `EvalAlignment` | how `run_eval.py` aligns and judges product lines | in `evaluation` | `Evaluation_proofs` |
| `EvalRun` | `run_eval.py` as a client: threads, image cache, polling, report; the service is `JobContract` | in `evaluation` | `Evaluation_proofs` |
| `EvalSet` | `split_eval_set.py` and `extract_whitelist.py` | in `evaluation` | `Evaluation_proofs` |
| `Evaluation` | the three above | `evaluation` | |
| `Experiments` | the files of `run_experiment.py` and its invocations | `experiments` | `Experiments_proofs` |

`MC<module>` gives the constants of a run. `JobLifecycle` is the core; the
others look closer at what it keeps abstract. Where they meet:

* the stage `acquire` of a slot in `JobLifecycle` is granted or refused at will;
  `GeminiQuota` says when `acquire` grants; `extract` is one step there and a
  loop of attempts here;
* `SubmitCheck` compares the length of the queue with the limit; `Admission` has
  the same check with more simultaneous requests and messages without identity;
* the stages `lookup` and `store` know only whether an image is cached;
  `ResultCache` has what the entry holds and which release reads it;
* the stages `download` and `detect` end well or in one of the lifecycle's
  handlers, and the postprocessing inside `store` succeeds or raises; `Pipeline`
  has what data makes them do so;
* `EvalRun` is a client of the service and sees no more of it than `JobContract`,
  which `calm` and the proofs show to be what the service does;
* `JobLifecycle` restarts a crashed process with idle slots; `WorkerProcess` has
  the slots' loop, and in particular how a task dies for good (stage `dead`).

A name that ends in `_Bad...` is a wrong variant of the definition after it. No
specification uses it: each is a plausible bug, and one of the properties fails
when it takes that definition's place.

### 2.1 JobLifecycle

State: `rows` is the table `jobs`; `queue` the Redis list (oldest first);
`bumps` the requeue counters; `cache` the hashes with a cached extraction;
`api[j]` where `submit_receipt` stands for job `j`, then the status it
answered; `slots[s]` the stage of a worker task and the job it holds;
`sweeping[w]` what is left of the snapshot of a sweep; `spent` the faults so far.

A step is what a coroutine does up to and including the effect of the store
call it awaits; anything else may happen before the next one. The stages of a
slot are the awaits of `execute_task_lifecycle` in the order of the code:
`read` (step 0), `mark` (1), `download` (2 and the preprocessing of 3), `phash`
(3), `lookup` (4), `detect` (5), `acquire` (6), `extract` (7), `store` (8, with
the postprocessing of 9), `persist` (10), and the helpers `bump`
(`_bump_or_orphan`), `touch` and `push` (`_yield_to_queue`) and `fail`
(`_fail`). Handlers are modelled where the code has them: an exception raised by
a helper inside an `except` clause reaches the outer handlers of the
lifecycle, which is why `touch` and `push` fail the job and lose its message.

Data is kept to what the properties tell apart. A row has a status, whether its
phash and result are set, an error code, and `old`: past the window its status
is judged by (30 min since created_at for PENDING, 15 min since updated_at for
PROCESSING, the retention for terminal ones). So `touch_updated_at` makes a
PROCESSING row young and leaves a PENDING one as it is. An image is its
perceptual hash; error codes that are treated alike are one value.

Faults are kinds (`FaultKinds`), each met at the call it belongs to; a call
that fails was applied or was not. `Faults` says which kinds a configuration
meets and `MaxFaults` how many. Crashes restart the process with idle slots.

`Prompt` is an assumption about time, not about code: when TRUE no row passes
its window while the API, the queue or a slot holds the job. The windows (15
and 30 minutes) are far longer than one pass of the lifecycle (at most 30 s of
download, 4 x 15 s of Gemini), so it holds unless the queue is long, a call
hangs (Triton has no timeout) or a process is suspended. With FALSE any row may
become old at any time. Two details are coarser than the code, in the direction
of more behaviours: rows age independently of each other, and a requeue counter
may expire even when the `EXPIRE` that should make it expire failed.

### 2.2 WorkerProcess

`phase[p]` is where `_run` (`src/src/worker/main.py`) stands, `task` and `daemon`
where each coroutine stands, `shutdown` the event the signal handlers set,
`open` the stores that are open, `late` a history variable: how many messages a
task took after the event was set. `Start` is one action because `_run` has no
await between the opening of Redis and the creation of the tasks that could
let anything else run. A pop that raises ends its task (`dead`), as the pop
stands outside the `try` of `_worker_task`. A daemon is `ready`, `working`,
`sleeping` or `stopped`; the purge works only if its process leads. `Kill` is
the end without a shutdown; what it loses is in `JobLifecycle`.

### 2.3 GeminiQuota

Time is counted in ticks, tokens in parts (`Unit` parts to a token), so that the
float arithmetic of `utils/token_bucket.py` becomes exact; rounding is not
modelled. `acquire` is the whole method: the refill with its cap, the test, the
subtraction. It has no await, so it is one action. `RateRefresh` is one pass of
the daemon: any rate and burst that Redis may hold, with missing fields taken
from the settings. `granted` and `called` are history variables, `since` the
first permit under the present configuration. A slot that has a permit calls,
fails, sleeps, and calls again: `MayRetry` and `Delay` are the loop of
`extract_invoice`, whose attempts after the first take no token.

### 2.4 Admission and ApiProcess

The length of the queue is a number; a request goes from the check through the
creation of the row to the push, and a slot holds a message, or one and a half:
`yielding` is the slot after a failed bump of the counter, which has pushed once
and pushes again. `faults` counts the failing `LLEN`s that let a request pass
and the failing `HINCRBY`s.

`ApiProcess` puts a process around these requests. `gate` is where the init
container stands (`main` returns 0 only after migrations and probes, and
`docker-compose.yml` starts the API on that), `schema` the revision of the table;
`phase`, `open` and `sampler` are the awaits of `_lifespan` in their order.
`Signal` stops the arrivals and waits for what is in flight, as uvicorn does;
`Kill` is a SIGKILL or the second SIGTERM, and `Abandon` what it does to the
requests. `Rerun` deploys again at any time, beside an API that serves.
`ApiProcess_proofs` shows that the process implements `Admission`.

### 2.5 ResultCache

A release is its prompt version, its schema (a number; a higher one knows more
fields) and its whitelists. The key of an entry holds the hash and the prompt
version (`phash_cache_key`); the value is validated by the reader's
`InvoiceResult`, which has a default for every field and forbids unknown ones. A
lookup may miss at any time (TTL, an error), a write may fail. `Deploy` replaces
a worker.

### 2.6 WhitelistIndex, Normalizers, Postprocessor, ReceiptImage, Pipeline

A text of a list is a model value with a normal form and a lower-case form; a
lower-case form has a prefix (three characters) and a size (a quarter of its
length), and a score (WRatio) against every other. Prefixes, sizes, scores and
the list are chosen in the initial state. `AddName` reads one entry of the list:
the last spelling of a form is the canonical one. `Matches(t, r)` says that `r`
is what `_match` makes of `t`, with the buckets of the form and its neighbours,
the cutoffs of each kind and the fallback of stores.

`Normalizers` has no state: texts are records of parts (the digits before and
behind a separator, zeros included, where a sign stands, the form of a date) and
each normaliser maps a record to a record. The digits of a number are read away
from its point, so that the zeros a float drops are those at the end of a
sequence on both sides. `Postprocessor` puts both together: a behaviour
postprocesses one field of a result. What a text says (`Amount`, `Negative`) is
defined on the printed parts, without the code; where the code loses some of it
is listed by name (`SignIsLost`, `PointIsLost`).

`ReceiptImage` takes one image through `download_image`, `preprocess_image` and
`detect_invoice`. An answer of the CDN is its status, a photo its two sides, a
box its four edges on the canvas (in half pixels, as YOLO gives centre and size).
`Taken` and `Begin` are `_letterbox`, `Back` and `Cropped` the way back, in
integers with the roundings of Python. `fate` is the handler of the lifecycle
in which the image ends: `permanent`, `requeue`, or `uncaught`, the last one, which
gets every exception no clause names: Pillow may raise one while it opens an
image and in every later step, and the answer of Triton may lack its tensor or
hold no numbers.
`Pipeline` is the part of the lifecycle that handles data; as Gemini may read
anything in a crop, a behaviour is either that of an image or that of a field.

### 2.7 EvalSet, EvalRun, EvalAlignment and Experiments

`EvalAlignment` takes one turn of the alignment loop of `evaluate_single` per
step, `Judge` judges the fields, and the second round evaluates what
`_build_pred_skeleton` rebuilt from the mismatches, as `main` does for the
report. `Similar` are the pairs of names whose ratio exceeds 0.95. `twin` is
history: whether a name that an earlier label line has too was found correct by a
name that is only similar to it.

`EvalRun` is the client: `at[r]` is where the thread of record `r` stands in
`_eval_one`, `cache` the directory of images by the last segment of their URLs (`of`
says whose image a file holds, `whole` whether its writing ended; a thread looks for
the file and reads it in two steps, `Look` and `Read`), `polls` how much of
`POLL_MAX_WAIT` is used up. A thread sleeps (`Sleep`) before it asks (`Poll`).
`poll` is the variable of `JobContract`; `torn` and `misread` are history. `EvalSet`
has the files of the two scripts that make the sets and the whitelists; `disk`
remembers which run wrote a file, `Killed` may come between any two of them.
`split_meta.csv`, which nothing reads, is left out, and a shuffle is any order of
the items. The three parts follow each other through files that are done, so that a
behaviour of `Evaluation` is one of a part.

`Experiments` has the files of `run_experiment.py` as variables and every write
of a file as a step of its own, so that an interruption (`Interrupt`) may come
between any two of them. `reports` is in the order of time; the report of an
evaluation is guessed as the newest of its version and split. `own` and `alone`
are history: the report an invocation really wrote, and whether two
invocations ever overlapped.

## 3. What is checked

Each property stands in the module it is about, with a comment that states it.
Type invariants and `GrantsWithinLargest` are proved (section 5) and have no run of
their own; `FinalAnswer` follows from `ImplementsContract` and has the run that
violates it.

| run | instance | properties | shows |
|---|---|---|---|
| `calm` | 2 jobs with one image, 2 processes of 1 slot, 2 faults of the kinds a calm system meets, `Prompt`; one result is refused by Postgres | `ImplementsContract`, `RefusedNeverRuns`, `SweepsOnlyAbandoned`, `LossesBounded`, `PhashLands`, `OneCopy`, `BoundedRequeue` | if nothing outlives its window while it is carried and no failed write was applied, answers are final, the system implements `JobContract`, the sweeper takes only what nobody carries, and a job has one message and none past the cap; a fault loses at most one job and costs at most one its hash |
| `recovery` | 1 job, 2 processes, 1 fault of every kind, rows old at any time, fairness | `Settles`, `Drains`, `CopiesBounded` | every job ends for good, no message circulates for ever, one more copy per fault at most |
| `stale_sweep` | 1 job, 1 slot, no fault, `Prompt` FALSE | `FinalAnswer` (violated) | finding 1 |
| `bump_blip` | 1 job, 1 slot, one failing bump | `OneCopy` (violated) | finding 2 |
| `shutdown` | 1 process, 3 tasks, all daemons, fairness | `StoresOutliveTheirUsers`, `OneLastJob`, `ShutdownEnds` | order of closing, one last job per task, and the end of the shutdown, also when tasks have died |
| `all_purge` | 2 processes with the default ids | `PurgesOnce` (violated) | finding 3 |
| `quota` | 2 slots, rates 1/2 and 2 tokens per tick, bursts 1 and 2, one retry, 3 ticks | `GrantsWithinQuota`, `CallsWithinRetries` | permits fit burst and rate in every window; calls fit the attempts per permit |
| `api` | 3 requests, 2 slots, limit 2, 2 faults, any number of starts, stops, kills and deployments, fairness | `QueueBounded`, `RequestsMeetOpenStores`, `ServesMigrated`, `StopEnds` | how far the queue can exceed the limit; the stores are open for whoever uses them; only a migrated table is served; a stop ends |
| `rollout` | 2 workers, 3 releases, 2 images with one hash | `OwnPrompt`, `OwnWhitelist`, `KnownFields` | results keep to the release of their worker |
| `pipeline` | lists of 2 names over 3 forms and 5 texts, all bands of scores; numbers of the digits 0 and 7, up to 3 before and 3 behind the point; photos of 8 sides, boxes of 8 edges, a canvas of 8 pixels | `AnswersAreStable`, `ListedIsFound`, `LossesAreShadowed`, `MeaningKept`, `EqualTextsSayTheSame`, `CropShowsBox`, `OnlyThreadsVanish` | matching is idempotent, finds what is listed, and loses a match to a longer list only in the fallback; normal forms keep the meaning and identify spellings, but for the losses of section 7; the crop shows the box; only a picture as thin as a thread vanishes on the canvas |
| `evaluation` | labels of 2 lines, predictions of 3, 12 kinds of line, 3 names of which 2 are similar; 2 records, 2 threads, 2 file names, 2 polls, 2 starts; label files of 4 records, 2 runs of each script; fairness | `SkeletonReproduces`, `ComparedOnce`, `LeftoversNoBetter`, `ResultsTellJobs`, `ImagesAreOwn`, `ReportComes`, `SplitIsWhole`, `LabelsAreListed` | the alignment is greedy and injective, the rebuilt prediction counts alike unless a repeated name was predicted with a similar one; results tell the jobs, images are the records' own, the report comes; sets are partitions and their names are listed |
| `experiments` | 2 shells, 2 versions, budget 2, 5 reports, 1 interruption | `CountedIsLogged`, `RowsShowOwnReport`, `BudgetUpToFaults` | the counter and the lock never run ahead of the table; the budget up to interruptions |

### 3.1 Why the bounds are enough

*JobLifecycle.* Jobs meet only in the queue, in the slots and in the cache of a
shared image: two jobs and two processes have all of these meetings. Duplicates
need one job and two slots. A fault is one call: two faults are the yield whose
reason and whose own call both fail, three are enough to fail both and then
`_fail`. `RequeueMax` is 1 or 2, so that the counted loop turns and ends within
the state space. `RejectDepth` is 1, which two jobs reach. Behaviours are not
cut: the state space is finite because `spent`, the queue and the counter are
bounded by the code and by `MaxFaults`. The proofs of section 5 need none of
these bounds.

*WorkerProcess.* Processes share nothing that it models; three tasks have one each
to be popping, running and dead, and two processes are enough to purge twice.
*GeminiQuota.* Windows of up to three ticks with rates below and above one token per
tick, a burst that is emptied and refilled, and a change of configuration in each
gap; `MaxTime` cuts the clock. *ApiProcess.* Three requests pass the check together
at the last place; the process may start and end any number of times, the states are
not cut. *ResultCache.* The releases differ in the schema only and in prompt and
schema; both workers may be replaced at any time, the states are not cut.
*Postprocessor.* Two entries are enough for a form listed twice, a tie, and two
neighbours in different buckets; the scores lie on both sides of every cutoff (60,
70, 80). Numbers have up to three digits on each side of the point, which is where a
decimal and a thousands separator look alike; with a zero and another digit there
are zeros at either end, in between and nothing else. *ReceiptImage.* The canvas has
8 pixels and `MaxDim` is 20, the ratio of the settings (640 and 1600); the sides lie
below, at and above both, 47 to 2 or to 1 is a side that rounds to nothing, and 47
to 5 or 6 one that just does not; edges lie outside, at the rim, at odd half pixels
and inside. *EvalAlignment.* Two label lines compete for three predicted ones; the
lines differ in every field that the score reads and in one it does not, and names
are equal, similar or unlike. *EvalRun.* Two records may share a file and overlap in
every step; a second start finds the torn files of the first. *EvalSet.* A label
file has up to four records, one of which is uncorrectable; the three others, if
they are of a type, are cut into one and two at the ratio of the run (2/3), and
`coopxtra` may have fewer, as many and more records than its floor; a type is
spelled twice, and every filter has a record of its own. *Experiments.* Two shells
suffice for every overlap; the budget of two is exceeded by two interleavings.

`CHECK_DEADLOCK FALSE` stands where the system stops: a process that exited, a
clock at its bound, an evaluation that is done, a harness whose budget is used
up. In `JobLifecycle`, `ApiProcess` and `ResultCache` deadlock is checked.

## 4. Fairness

`recovery`, `shutdown`, `api` and `evaluation` use it.

`JobLifecycle!Fairness`: slots, sweepers and submissions are coroutines of an
asyncio event loop (`worker/main.py:94-98`), which runs whatever can run: weak
fairness for each. `SweeperStep` includes the selection that finds nothing, so
the sweeper turns for ever, as `sweeper_loop` does. Weak fairness of `Age` for
rows that are not terminal says that a window passes for a row nobody rewrites;
a row that is rewritten again and again is not forced to age. The two strong
conditions are about the environment: a bucket with a positive rate grants a
token to a slot that keeps asking (`Acquire(s, TRUE)`), and Gemini does not
answer 429 for ever (`ExtractDone`). Without them an uncounted yield may repeat
for ever, which the code allows: `Settles` is about a service whose quota comes
back. No fairness is assumed of faults, of crashes, of the purge or of any
outcome of a download, a detection or an extraction.

`WorkerProcess!Fairness`: weak fairness for `_run`, every task and every daemon.
A pop has a timeout of 5 s. No other call of a store has one (`asyncpg` is given
no `command_timeout` at `postgres_client.py:65`, Redis no `socket_timeout` at
`redis_client.py:35-40`), and neither have those to Triton: that they end, with an
answer or an error, is an assumption about the servers and the network. A store
that accepts a call and never answers stops the drain, and no property here says
otherwise.

`ApiProcess!ApiFairness`: weak fairness for `_lifespan`, the sampler and each
request: coroutines of one event loop, whose calls to the stores end, by the same
assumption. None for the init container, the signal, the kill or the worker slots.

`EvalRun!ClientFairness`: weak fairness for the thread of each record and for the
report. The timeouts of a thread's calls (30 s for the image, 90 s and 15 s for the
API) bound each operation of a connection and not the call, so that the end of a
call is an assumption about servers that send byte by byte. None for the service: a
job may stay in flight for ever.

## 5. What is proved

TLAPS checks the theorems below for every value of the constants that satisfies
the assumptions of the module (`ConstantsAssumption`, `QuotaAssumption`, ...),
which TLC evaluates in the runs.

**JobLifecycle_proofs.** *Type correctness*: `TypeCorrect`, with `HeldJobs` (exactly
the slots at a stage hold a job), as no stage could be typed without. *One message*:
`OneCopy` and `BoundedRequeue` are not inductive apart: a push makes no duplicate
because a slot at stage `push` is the only one that works on its job, and a job past
the cap stays silent because its counter only moves at stage `bump`, where one slot
alone has the job's message (an expiry sets it to 0, where the property says
nothing). `CopyInv` joins them, with the facts that no slot owes a second yield,
that a job still being submitted has counter 0, and that one whose row is not
written yet has no message. It holds when `bump` is not among the faults. *Final
answers*: `Calm` says `Prompt`, no `bump`, and no write or push that fails after it
was applied. `CalmInv` adds to `CopyInv` that one place at most carries a job; that
the row of a carried job is open, within its window and in no sweeper's hands; that
a job before its insert has no row and is not carried; and that a row in a sweeper's
hands has not succeeded or failed for good meanwhile. From it every step either
leaves a row's answer as it is or is one of the steps of `JobContract` (lemma
`RowsMove`): hence `TerminalIsFinal`, `ImplementsJobContract` (a step maps to
`Admit`, `Finish`, `Forget` or a stutter) and `SweeperSparesTheLiving`.
`RefusedStayOut` adds that the row of a submission that is about to push is still
`PENDING`, so that a push that fails leaves a row nobody has touched (`RefusedInv`).
*With faults, whatever is slow*: three theorems need none of the conditions of
`Calm` and bound by the number of faults what these may do. `FaultsBoundLosses`:
`Lost` are the jobs that poll 202 and that nothing carries. Every step either keeps
this set from growing or is a fault, and one fault adds at most what the slots of a
process held (`MayLose`): a slot that lets go of a job has otherwise pushed it back
or written its end, and a sweep only ends rows. `HashIsRecorded`: `Hashless` are the
jobs that succeeded without a hash, and those whose slot is past the write of the
hash although their row has none. Only a write whose error is ignored puts one in,
at the price of a fault (`MayForget`), and no row loses a hash again, since
`SubmittedInv` says that a job whose submission has not inserted its row yet is
carried by nobody. `FaultsBoundCopies` gives each slot the messages it still owes
(`Owed`: none, its own, or a second one). No step pushes more than it pays off,
unless it is a fault, which adds one (`CountedStep`); the rest counts positions of
the queue and slots.

**WorkerProcess_proofs.** `ProcessInv` ties the phase of `_run` to what is open
and who has ended (`PhaseInv`), and a task that took a message after the signal
to its not being back at the pop (`LateInv`). `OneLeaderPurgesOnce` assumes that
the worker ids single out one leader.

**GeminiQuota_proofs.** A bound on grants is not inductive: what a grant now
would have to fit into must be bounded too. `Covered` says that the parts in the
bucket plus the grants since the i-th never exceed burst plus rate times the
time since it; a refill adds on both sides, a grant moves a token from one
summand to the other, and the configuration of the present is covered by the
largest. `CallsStayWithinRetries` bounds what Gemini sees, retries included.
`Charged` pays for the calls since the i-th *and for those that extractions under
way may still make* with the grants since then and one permit for each slot, which
may be older; a call takes from what is to come, and a grant pays for a whole
extraction. It needs that the slots are finitely many (`QuotaAssumption`).

**ApiProcess_proofs.** `QueueBounded` counts what may still be pushed along with
what is in the queue, which makes it inductive with `TypeOK`; the lemmas say how
each move changes the cardinalities. `ApiImplementsAdmission`: a step of the process
is one of `Admission` or leaves its variables alone; a request that dies with its
process looks to the queue like one whose insert or push failed. So `QueueBounded`
carries over. `LifespanInv` states what is open in each phase, that nothing is in
flight before and after, and that the sampler has ended when Redis is closed;
`GateInv` that a container which succeeded, and an API that lives, have a migrated
table behind them, which nothing takes back.

**ResultCache_proofs.** `VersionInv`: every entry under version `v` is a raw
extraction with prompt `v` (`CacheInv`); what a job carries has the prompt of its
worker's release and a schema it knows (`JobInv`); and `ResultInv`,
the three properties themselves (`OwnPrompt`, `OwnWhitelist`, `KnownFields`).

**Pipeline_proofs.** *Names*: `IndexInv` says that the canonical spelling of a form
has that form and is normal (`SpelledInv`), so that matching a result finds its own
form with score 100, which no other form has: `ResultsAreStable`. The form of a
listed name is in one of the buckets it is looked for in (`EqualIsFound`):
`ListedNamesAreFound`. `AddedNamesShadow` follows a text that is not found any more to
the bucket that has got an entry. `PipelineMatchesNames`: `PipeSpec` implements
the specification of the index, so these are results of the worker as well.
*Crops*: `ImageInv` says what each coordinate of a detection and of a crop is made
of. The lemma `Division` brings `\div` down to products; from it come bounds on
`Rounded`, on what the letterbox does to a place (`LowEdge`, `HighEdge`) and on its
inverse (`CropBegins`, `CropEnds`, `CropReaches`). `CropsShowBoxes` holds for any
canvas, padding, size of photo and box, if `2 * MaxDim <= 5 * Size`: a step of the
canvas must not stand for more pixels than the property allows for. With 1600 and 640
of the settings, and with the constants of the run, both sides are equal.
*Thin pictures*: `ThreadsOnlyVanish` is part of `ImageInv`; the lemma `NothingTaken`
follows a side that takes no pixel of the canvas back through both roundings.
*Texts*: what a text says is the digit at each place, so that no number is ever
computed and the proofs are about sequences: `LeastExists` (a nonempty set of
naturals has a least element, in place of an induction) shows that digits can
be trimmed (`TrimmedTrims`), `TrimsPads` and `ZerosTrim` that trimming changes
nothing they say, `TrimsOnce` and `PaddedOnce` that digits saying the same are
trimmed to the same, or are the same if they are equally many. The lemmas
on quantities, amounts and dates then give `NormalisersKeepMeaning` and, in both
directions, `TextsAreCanonical`.

**Evaluation_proofs.** *Alignment*: a turn takes an open line that scores best
among the open ones; later turns only shrink what is open. So `ComparedOnce` and
`LeftoversNoBetter` are inductive together with the types, for labels and
predictions of any length. *Client*: `ResultInv` adds that a record without an end
has no result, so that a job the service ends meanwhile contradicts none.
`ImageInv` adds that a cached file belongs to a record of its name and is whole,
torn, or being written (`FilesHaveOwners`): a thread that finds a file in writing
finds another record's. *Sets*: `SplitInv` says that the two sets are a partition of
the types cut so far and that the files of the present run hold them; the lemma
`SlicesAreWhole` is about the slices of Python, for any cut, negative ones
included, and any shuffle. `ListInv` adds what the lists hold.
*Skeleton*: `SkeletonsReproduce` holds for any relation `Similar` in which
every name is similar to itself. A line of the skeleton agrees with a label line in a
field only if the line it is made of does (`SkeletonField`), except that it has the
label's name where a similar one passed; unless that name stands twice in the label
(`twin`), no other label line can tell the difference. By the greedy choice of the
first alignment no later line fits better (`SkeletonFits`); so each label line gets
its own line again in the second (`OwnPicks`).

**Experiments_proofs.** For any number of shells and versions of prompts and any
budget. `ReportsInv` carries what an invocation knows of its report from the
evaluation to the row (`Knows`): it is of its split and version, its copy is no
older, and it is the newest while no other shell is at work: `RowsShowReports`.
`LoggedInv` says that a run begins when all before it are in the table:
`CountedRunsAreLogged`. `BudgetInv` says that an evaluation outside the budget
is either owed by the one invocation under way or was interrupted by a
fault: `BudgetHolds`.

Every safety invariant and action property that a passing run checks is stated by
one of these theorems. Only model-checked is liveness (`Settles`, `Drains`,
`ShutdownEnds`, `StopEnds`, `ReportComes`), which is out of the reach of the prover.
One property is proved under a condition that the constants of its run fulfil and
that TLC would otherwise refute: `CropShowsBox` (a picture at most two and a half
times the canvas). Others name in their own statement what the code does not keep:
`MeaningKept` and `EqualTextsSayTheSame` the signs, commas and zeros of section 7,
`SkeletonReproduces` the repeated name, `ImagesAreOwn` the shared and the torn file,
`ResultsTellJobs` the misread poll.

## 6. What is not modelled

* Metrics and log lines, the text of answers: no property is about them.
* What Pillow decodes and YOLO sees: any size, any box. Coordinates are exact in
  `ReceiptImage`, where the code has floats. The content of prompts.
* A restart of a worker after an exception at boot: `docker-compose.yml` states no
  restart policy; `JobLifecycle!Crash` assumes somebody starts it again.
* `healthz` and `readyz`, which change no state.
* `/metrics` servers, the lazily created clients of Gemini and Triton, reading the
  environment into `settings.py`.
* `normalize_dataset.py`, `schema_align.py`, `verify_golden.py` and
  `download_images.py`, which convert files once, and `deploy.sh`.
* `run_experiment.py` hands `eval_args` on as they are; an `--out` or a `--split`
  among them, which would change where the report goes, is left out.
* Float rounding in the bucket, and hours of the purge: `DaemonPass` may purge at
  any time.

## 7. Where code and documents disagree

The three runs that end in a violation:

1. `stale_sweep`: a slot reads the row (`loop.py:123`), the sweeper fails it as
   stale, and the slot then marks it PROCESSING (`loop.py:140`) with an `UPDATE` that
   looks at `job_id` only: the client reads 503 and later 202, and the job goes on.
   `architecture.md:422` calls terminal states final. The other unconditional
   write, that of the sweeper over its snapshot (`sweeper.py:28`), can turn a 200
   into a 503 in the same instance, some steps later. `calm` shows that this is
   the only way under its conditions: with no row outliving its window while it is
   carried, answers are final.
2. `bump_blip`: when the requeue counter cannot be bumped, `_bump_or_orphan`
   yields and returns 0, and its caller yields again: two messages, two slots on
   one row. The comment at `loop.py:288` speaks of a drop. `recovery` shows that
   the extra copy of one such fault does die out.
3. `all_purge`: the leader of the purge is whoever has `PURGE_WORKER_ID`
   (`nightly_purge.py:29`), and replicas of `docker-compose.yml` share one
   environment, so that all purge, though `nightly_purge.py:3-5` says exactly one
   does. `OneLeaderPurgesOnce` proves it for ids that are different.

Met while modelling, without a run of their own; the behaviour is in the models:

* A failed write of the hash (`loop.py:171`) is never repeated, though the comment
  says it "will land on success update": `PhashLands` grants each fault one job
  without a hash.
* A Postgres blip that lasts for the touch of the yield as well (`loop.py:94`)
  ends the job, though `loop.py:126` says it is "not the job's fault".
* A result that Postgres refuses (a NUL character in jsonb) is yielded uncounted
  for ever (`loop.py:249`), though `architecture.md:831-832` promises an end for
  poison messages: `Settles` fails as soon as the job is in `Unstorable`.
* One failed pop ends a task for good (`main.py:50`), so that a process may serve
  with less than `WORKER_CONCURRENCY` tasks, or none.
* `run_eval.py:257` uploads the image as a form, while `submit_receipt` takes JSON
  with an `image_url` (`routes.py:58`): this API answers 422 to every record, against
  `run_eval.py:4-6`. `EvalRun` has every answer `_eval_one` has a branch for.
* `_eval_one` takes a 503 of GET for a failed job (`run_eval.py:301`), though
  `get_receipt` also answers it for want of a database: `misread` in
  `ResultsTellJobs`.
* A write of the image cache that breaks off leaves a piece that is submitted in
  every later run (`run_eval.py:218`): `torn` in `ImagesAreOwn`.
* Much ends in `lifecycle_uncaught`, as a transient failure, although trying
  again cannot help: a redirect without a target and a URL that is none
  (`http_client.py`), what Pillow raises besides the two classes that are caught, a
  decompression bomb among it, and all it raises behind the `try`
  (`preprocessor.py:36-49`), an answer of Triton without the tensor or with a box
  of NaN (`detector.py`, `triton_client.py`), a picture that is 1280 times as long as
  wide, and the quantities "nan" and "inf" (`postprocessor.py:78`). `ReceiptImage` and
  `Normalizers` have these branches; `OnlyThreadsVanish` says how thin a picture
  must be.
* A minus behind an amount or behind letters is lost ("5.000-" becomes "5000",
  `postprocessor.py:33-34`), and so is the minus of a weighed quantity
  (`postprocessor.py:77`): `SignIsLost`.
* An amount keeps its zeros: "0.500" becomes "0500" and "-0" stays "-0", so that
  amounts that are equal may be different texts: `Shown` in
  `EqualTextsSayTheSame`. A weighed quantity keeps all of its zeros.
* A status 429 of the CDN fails a job for good (`http_client.py:54`).
* Retries of `extract_invoice` take no token: `architecture.md:731` promises 4
  calls a second, the process makes up to four times as many.
* Names are matched within their bucket only, with cutoffs 80 and fallback 60 for
  stores and 70 for products, where `architecture.md:686-693` has 80 and 85, no
  buckets and no fallback; dates become DD/MM/YYYY, where `architecture.md:681`
  has ISO; "0,47 kg" becomes "047", against the docstring at
  `postprocessor.py:70`: `PointIsLost`.
* A change of the schema does not invalidate the cache (`settings.py:95`), though
  `architecture.md:477` says it does.
* With a name that stands twice in a label and is predicted by one that is similar
  but not equal, the rebuilt prediction of `run_eval.py:551` is aligned differently,
  and the report counts other fields than the evaluation did, against the
  docstring at `run_eval.py:540`: for label lines (x, 1) and (x, 2) predicted as
  (z, 1) and (x~, 2), the skeleton is (z, 1) and (x, 2), and the first label line now
  takes the second of them. `SkeletonReproduces` exempts this (`twin`).
* An interrupted `--run` or `--final` has evaluated but is not counted or locked
  (`run_experiment.py:215`, `:262`): `BudgetUpToFaults` says how much that adds.
  Two shells may even move the counter back.

## 8. Plan

In the order of what matters most.

1. `JobLifecycle`: a run with two slots per process, so that a task that ends and
   one that goes on meet in one process.
2. `JobLifecycle` over `GeminiQuota`: show that the stage `acquire` with its refusals
   is what the slots of `GeminiQuota` do, as `ApiImplementsAdmission` does for
   the queue.
3. `Postprocessor` against an abstract specification (a result is a fixed point of
   postprocessing), and `ResultCache` composed with it.

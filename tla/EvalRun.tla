------------------------------- MODULE EvalRun -------------------------------
(***************************************************************************)
(* scripts/run_eval.py as a client of the service: a pool of threads takes *)
(* the records of a split, each with its image from a cache of files,      *)
(* submits it, polls for the job and compares the answer; main writes the  *)
(* report when every record has a result.  Jobs live as JobContract says.  *)
(* What the comparison makes of an answer is EvalAlignment.                *)
(*                                                                         *)
(* --api may name any deployment.  The API of this repository answers 422  *)
(* to every upload; the others below are those _eval_one has a branch for. *)
(*                                                                         *)
(* A name with _Bad is a wrong variant of the definition that follows it.  *)
(***************************************************************************)
EXTENDS Naturals, FiniteSets

CONSTANTS
  Records,     \* the records of the split, by their URLs
  Files,       \* last segments of URLs
  Threads,     \* --workers
  MaxPolls,    \* the polls that fit POLL_MAX_WAIT
  MaxStarts    \* bound of the runs: how often the script is started

ASSUME EvalRunAssumption ==
  /\ Threads \in Nat \ {0} /\ MaxPolls \in Nat \ {0} /\ MaxStarts \in Nat

VARIABLES
  file,    \* the last segment of each record's URL
  main,    \* where the script stands
  starts,  \* how often it was started
  at,      \* where the thread of each record stands
  result,  \* per_record_results
  polls,   \* how much of its deadline each polling has used up
  used,    \* the image each record was submitted with
  cache,   \* the files of the cache directory
  torn,    \* history: the files whose writing broke off
  misread, \* history: the records whose poll met a failing database
  poll     \* the job of each record's last submission, as GET tells it

Contract == INSTANCE JobContract WITH Jobs <- Records

client == <<file, main, starts, at, result, polls, used, cache, torn, misread, poll>>

NoFile == [of |-> {}, whole |-> FALSE]
Image(r) == [of |-> {r}, whole |-> TRUE]

Fresh ==
  /\ at' = [r \in Records |-> "waiting"]
  /\ result' = [r \in Records |-> "none"]
  /\ polls' = [r \in Records |-> 0]
  /\ used' = [r \in Records |-> NoFile]
  /\ misread' = {}
  /\ poll' = [r \in Records |-> "404"]

ClientInit ==
  /\ file \in [Records -> Files]
  /\ main = "stopped" /\ starts = 0
  /\ at = [r \in Records |-> "waiting"]
  /\ result = [r \in Records |-> "none"]
  /\ polls = [r \in Records |-> 0]
  /\ used = [r \in Records |-> NoFile]
  /\ cache = [f \in Files |-> NoFile]
  /\ torn = {} /\ misread = {}
  /\ Contract!Init

-----------------------------------------------------------------------------
(* main.                                                                   *)

\* The script is started, for the first time or again.
Start ==
  /\ main # "running" /\ starts < MaxStarts
  /\ main' = "running" /\ starts' = starts + 1
  /\ Fresh /\ UNCHANGED <<cache, torn>>

Writing(r) == at[r] = "writing"

\* The script is killed: files that are being written stay as they are.
Kill ==
  /\ main = "running"
  /\ main' = "stopped"
  /\ torn' = torn \union {file[r] : r \in {q \in Records : Writing(q)}}
  /\ UNCHANGED <<starts, at, result, polls, used, cache, misread, poll>>

Report ==
  /\ main = "running" /\ \A r \in Records : at[r] = "done"
  /\ main' = "reported"
  /\ UNCHANGED <<starts, at, result, polls, used, cache, torn, misread, poll>>

-----------------------------------------------------------------------------
(* _eval_one.                                                              *)

Goes(r, next) == at' = [at EXCEPT ![r] = next]
Returns(r, status) == Goes(r, "done") /\ result' = [result EXCEPT ![r] = status]
Busy == {r \in Records : at[r] \notin {"waiting", "done"}}

\* A thread of the pool takes the next record.
Take(r) ==
  /\ at[r] = "waiting" /\ Cardinality(Busy) < Threads
  /\ Goes(r, "looking")
  /\ UNCHANGED <<result, used, polls, cache, torn, misread, poll>>

\* _download asks whether there is a file of that name, and otherwise fetches
\* the image.
Look(r) ==
  /\ at[r] = "looking"
  /\ Goes(r, IF cache[file[r]] # NoFile THEN "reading" ELSE "fetching")
  /\ UNCHANGED <<result, used, polls, cache, torn, misread, poll>>

\* The file is the image, whoever wrote it, and however much of it there is by
\* now. A file that cannot be read raises.
Read(r) ==
  /\ at[r] = "reading"
  /\ \/ /\ used' = [used EXCEPT ![r] = cache[file[r]]]
        /\ Goes(r, "submitting") /\ UNCHANGED result
     \/ Returns(r, "exception") /\ UNCHANGED used
  /\ UNCHANGED <<polls, cache, torn, misread, poll>>

\* The file is opened before the image is fetched.
Opened_BadFirst(r) == [cache EXCEPT ![file[r]] = [Image(r) EXCEPT !.whole = FALSE]]
Opened(r) == cache

\* write_bytes empties the file before it fills it.
Fetch(r) ==
  /\ at[r] = "fetching"
  /\ \/ /\ cache' = [cache EXCEPT ![file[r]] = [Image(r) EXCEPT !.whole = FALSE]]
        /\ Goes(r, "writing") /\ UNCHANGED result
     \/ Returns(r, "download_failed") /\ cache' = Opened(r)
  /\ UNCHANGED <<used, polls, torn, misread, poll>>

\* A disk that is full leaves the file as it is.
Write(r) ==
  /\ Writing(r)
  /\ \/ /\ cache' = [cache EXCEPT ![file[r]] = Image(r)]
        /\ used' = [used EXCEPT ![r] = Image(r)]
        /\ Goes(r, "submitting") /\ UNCHANGED <<result, torn>>
     \/ /\ Returns(r, "download_failed")
        /\ torn' = torn \union {file[r]} /\ UNCHANGED <<used, cache>>
  /\ UNCHANGED <<polls, misread, poll>>

\* The answers to the submission; "200" and "504" are those of an API that
\* waits for the job.
Submit(r) ==
  /\ at[r] = "submitting"
  /\ \/ Contract!Admit(r) /\ Goes(r, "polling") /\ UNCHANGED result
     \/ /\ poll' = [poll EXCEPT ![r] = "200"]
        /\ \/ Returns(r, "ok") \/ Returns(r, "exception")
     \/ /\ \E status \in {"api_error", "no_job_id", "backpressure_429", "http", "exception"} :
             Returns(r, status)
        /\ UNCHANGED poll
  /\ UNCHANGED <<used, polls, cache, torn, misread>>

\* The polling ends with the deadline only.
\* A job that never ends is polled for ever.
Expired_BadNever(r) == FALSE
Expired(r) == polls[r] = MaxPolls

\* The answers that end the polling with a result.
\* A job in flight is taken for a result.
Succeeds_BadPending(answer) == answer \in {"200", "202"}
Succeeds(answer) == answer = "200"
Fails(answer) == answer \in {"422", "503"}

\* A result that cannot be read or compared raises.
Answer(r, answer) ==
  \/ Succeeds(answer) /\ Returns(r, "ok")
  \/ Fails(answer) /\ Returns(r, "pipeline_failed")
  \/ (Succeeds(answer) \/ Fails(answer)) /\ Returns(r, "exception")
  \/ ~Succeeds(answer) /\ ~Fails(answer) /\ Goes(r, "polling") /\ UNCHANGED result

\* A turn of the loop sleeps first. A turn that takes long uses up more of the
\* deadline.
Sleep(r) ==
  /\ at[r] = "polling"
  /\ \/ Expired(r) /\ Returns(r, "poll_timeout") /\ UNCHANGED polls
     \/ /\ ~Expired(r) /\ Goes(r, "asking")
        /\ \E n \in polls[r]..MaxPolls :
             (n > polls[r] \/ n = MaxPolls) /\ polls' = [polls EXCEPT ![r] = n]
        /\ UNCHANGED result
  /\ UNCHANGED <<used, cache, torn, misread, poll>>

\* GET fails, tells the job, or answers 503 because the database does not.
Poll(r) ==
  /\ at[r] = "asking"
  /\ \/ Goes(r, "polling") /\ UNCHANGED <<result, misread>>
     \/ Answer(r, poll[r]) /\ UNCHANGED misread
     \/ Answer(r, "503") /\ misread' = misread \union {r}
  /\ UNCHANGED <<used, polls, cache, torn, poll>>

_eval_one(r) ==
  /\ main = "running"
  /\ \/ Take(r) \/ Look(r) \/ Read(r) \/ Fetch(r) \/ Write(r)
     \/ Submit(r) \/ Sleep(r) \/ Poll(r)
  /\ UNCHANGED <<main, starts>>

\* The service ends a job.
Service(r) ==
  /\ Contract!Finish(r)
  /\ UNCHANGED <<main, starts, at, result, polls, used, cache, torn, misread>>

-----------------------------------------------------------------------------

ClientNext ==
  /\ Start \/ Kill \/ Report \/ \E r \in Records : _eval_one(r) \/ Service(r)
  /\ UNCHANGED file

ClientSpec == ClientInit /\ [][ClientNext]_client

\* Threads run. The calls have timeouts for each operation of theirs only, so
\* that they end is an assumption about servers that answer byte by byte.
ClientFairness ==
  /\ WF_client(Report /\ UNCHANGED file)
  /\ \A r \in Records : WF_client(_eval_one(r) /\ UNCHANGED file)

-----------------------------------------------------------------------------
(* Properties.                                                             *)

\* A record counts as a success only if its job has succeeded, and as failed in
\* the pipeline only if its job has failed for good, unless a poll was answered
\* 503 for want of a database: that is taken for the job's failure.
\* (the branches of _eval_one)
ResultsTellJobs ==
  \A r \in Records :
    /\ result[r] = "ok" => poll[r] = "200"
    /\ result[r] = "pipeline_failed" => poll[r] \in {"422", "503"} \/ r \in misread

\* A record is submitted with the whole image of its own URL, unless another
\* record's file has the same name, or a write of it once broke off: then the
\* piece is used for ever after. (_download)
ImagesAreOwn ==
  \A r \in Records : used[r] # NoFile =>
    \/ used[r] = Image(r)
    \/ \E q \in Records \ {r} : file[q] = file[r]
    \/ file[r] \in torn

\* A script that is not killed reports, whatever becomes of the jobs.
\* (the deadline of the polling)
ReportComes == main = "running" ~> main # "running"
=============================================================================

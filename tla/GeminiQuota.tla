----------------------------- MODULE GeminiQuota -----------------------------
(***************************************************************************)
(* How often one worker process calls Gemini: the token bucket its slots   *)
(* share (utils.token_bucket), the refresh daemon that reconfigures it     *)
(* (worker.rate_refresh) and the retry loop of pipeline.extractor, which   *)
(* runs on one permit.                                                     *)
(*                                                                         *)
(* Time is counted in ticks and tokens in parts, Unit parts to a token, so *)
(* that a rate below one token per tick is a whole number of parts.        *)
(* A name with _Bad is a wrong variant of the definition that follows it.  *)
(***************************************************************************)
EXTENDS Integers, Sequences, FiniteSets

CONSTANTS
  Slots,       \* the tasks of the process
  Unit,        \* parts per token
  Rates,       \* the rates Redis may hold, in parts per tick
  Bursts,      \* the bursts Redis may hold, in tokens
  InitRate,    \* settings.TOKEN_BUCKET_RPS
  InitBurst,   \* settings.TOKEN_BUCKET_BURST
  MaxRate,     \* no configured rate is larger
  MaxBurst,    \* no configured burst is larger
  Backoffs,    \* settings.GEMINI_BACKOFFS_SECONDS, in ticks
  MaxTime      \* bound of the runs: the clock stops here

ASSUME QuotaAssumption ==
  /\ IsFiniteSet(Slots)
  /\ Unit \in Nat /\ Unit >= 1
  /\ InitRate \in Rates /\ InitBurst \in Bursts
  /\ MaxRate \in Nat /\ MaxBurst \in Nat
  /\ \A r \in Rates : r \in Nat /\ r <= MaxRate
  /\ \A b \in Bursts : b \in Nat /\ b <= MaxBurst
  /\ Backoffs \in Seq(Nat)
  /\ MaxTime \in Nat

VARIABLES
  now,       \* time.monotonic()
  rate,      \* _rate of the bucket
  capacity,  \* _capacity
  tokens,    \* _tokens, in parts
  last,      \* _last
  call,      \* the extraction each slot is in
  granted,   \* the times at which acquire returned True
  since,     \* the first grant under the present configuration
  called     \* the times at which Gemini was called

bucket == <<rate, capacity, tokens, last>>
vars == <<now, bucket, call, granted, since, called>>

Idle == [at |-> "idle", attempt |-> 0, wake |-> 0]

Init ==
  /\ now = 0 /\ last = 0
  /\ rate = InitRate /\ capacity = InitBurst
  /\ tokens = InitBurst * Unit
  /\ call = [s \in Slots |-> Idle]
  /\ granted = <<>> /\ since = 1
  /\ called = <<>>

Smaller(a, b) == IF a <= b THEN a ELSE b

-----------------------------------------------------------------------------
(* The bucket.                                                             *)

Refilled == Smaller(capacity * Unit, tokens + (now - last) * rate)

\* acquire() refills by the time since the last call and takes one token.
acquire(ok) ==
  /\ last' = now
  /\ ok = (Refilled >= Unit)
  /\ tokens' = IF ok THEN Refilled - Unit ELSE Refilled
  /\ granted' = IF ok THEN Append(granted, now) ELSE granted
  /\ UNCHANGED <<rate, capacity>>

\* The daemon refills the bucket, as architecture.md:763 has it.
Clamped_BadRefill(b) == b * Unit
Clamped(b) == Smaller(tokens, b * Unit)

\* rate_refresh_loop: update_config with what read_rate_limit_config found, a
\* field that is missing from the hash taken from the settings.
RateRefresh ==
  /\ \E r \in Rates, b \in Bursts :
       /\ rate' = r /\ capacity' = b
       /\ tokens' = Clamped(b)
       /\ since' = IF r = rate /\ b = capacity THEN since ELSE Len(granted) + 1
  /\ UNCHANGED <<now, last, call, granted, called>>

-----------------------------------------------------------------------------
(* A slot: execute_task_lifecycle at its Gemini steps, and extract_invoice. *)

Busy(attempt) == [at |-> "calling", attempt |-> attempt, wake |-> 0]

\* A slot that finds no token yields its job and is idle again; one that finds
\* a token makes its first call.
Acquire(s) ==
  /\ call[s] = Idle
  /\ \/ /\ acquire(TRUE)
        /\ call' = [call EXCEPT ![s] = Busy(1)]
        /\ called' = Append(called, now)
     \/ acquire(FALSE) /\ UNCHANGED <<call, called>>
  /\ UNCHANGED <<now, since>>

\* Gemini answers: a result, an invalid one, 429 or another 4xx. Each ends the
\* extraction.
Answered(s) ==
  /\ call[s].at = "calling"
  /\ call' = [call EXCEPT ![s] = Idle]
  /\ UNCHANGED <<now, bucket, granted, since, called>>

\* Whether the loop goes on after this attempt failed.
\* There is always another attempt.
MayRetry_BadEver(attempt) == TRUE
MayRetry(attempt) == attempt <= Len(Backoffs)
Delay(attempt) == IF attempt \in DOMAIN Backoffs THEN Backoffs[attempt] ELSE 0

\* A server error or a timeout: sleep and try again, or GeminiExhaustedError.
ServerFails(s) ==
  /\ call[s].at = "calling"
  /\ LET a == call[s].attempt IN
       call' = [call EXCEPT ![s] =
                  IF MayRetry(a)
                  THEN [at |-> "sleeping", attempt |-> a, wake |-> now + Delay(a)]
                  ELSE Idle]
  /\ UNCHANGED <<now, bucket, granted, since, called>>

\* The next attempt, on the same permit.
Retry(s) ==
  /\ call[s].at = "sleeping" /\ now >= call[s].wake
  /\ call' = [call EXCEPT ![s] = Busy(call[s].attempt + 1)]
  /\ called' = Append(called, now)
  /\ UNCHANGED <<now, bucket, granted, since>>

Tick ==
  /\ now < MaxTime
  /\ now' = now + 1
  /\ UNCHANGED <<bucket, call, granted, since, called>>

-----------------------------------------------------------------------------

Slot(s) == Acquire(s) \/ Answered(s) \/ ServerFails(s) \/ Retry(s)

Next == Tick \/ RateRefresh \/ \E s \in Slots : Slot(s)

Spec == Init /\ [][Next]_vars

-----------------------------------------------------------------------------
(* Properties.                                                             *)

\* However the events log[from], log[from + 1], ... are cut into windows, a
\* window of d ticks holds at most a burst of b and what the rate r adds in d.
WithinQuota(log, from, b, r) ==
  \A i, j \in from..Len(log) : i <= j =>
    (j - i + 1) * Unit <= b * Unit + r * (log[j] - log[i])

\* Under one configuration the permits of any window of time fit its burst and
\* rate: a refresh that changes nothing grants nothing. (acquire, update_config)
GrantsWithinQuota == WithinQuota(granted, since, capacity, rate)

\* Across reconfigurations they fit the largest burst and rate.
GrantsWithinLargest == WithinQuota(granted, 1, MaxBurst, MaxRate)

\* In any window Gemini is called at most Len(Backoffs) + 1 times for each
\* permit of the window and for each slot that held one before it.
\* (the retry loop of extract_invoice)
CallsWithinRetries ==
  \A i, j \in 1..Len(called) : i <= j =>
    (j - i + 1) * Unit <=
      (Len(Backoffs) + 1) *
        ((Cardinality(Slots) + MaxBurst) * Unit + MaxRate * (called[j] - called[i]))
=============================================================================

------------------------ MODULE JobLifecycle_proofs -------------------------
(***************************************************************************)
(* Proofs about JobLifecycle, for any number of jobs, processes and slots. *)
(***************************************************************************)
EXTENDS JobLifecycle, TLAPS, FiniteSetTheorems, FunctionTheorems

-----------------------------------------------------------------------------
(* The queue.                                                              *)

\* LPUSH adds one message and keeps a queue without duplicates so, when the
\* job was not in it. (push_to_queue)
LEMMA AppendFacts ==
  ASSUME NEW q \in Seq(Jobs), NEW j \in Jobs
  PROVE  /\ Append(q, j) \in Seq(Jobs)
         /\ \A k : In(Append(q, j), k) <=> In(q, k) \/ k = j
         /\ NoDuplicates(q) /\ ~In(q, j) => NoDuplicates(Append(q, j))
<1> DEFINE r == Append(q, j)
<1>1. /\ r \in Seq(Jobs) /\ Len(r) = Len(q) + 1 /\ Len(q) \in Nat
      /\ r[Len(q) + 1] = j /\ \A i \in 1..Len(q) : r[i] = q[i]
  OBVIOUS
<1> HIDE DEF r
<1>2. \A k : In(r, k) <=> In(q, k) \/ k = j
  BY <1>1 DEF In
<1>3. NoDuplicates(q) /\ ~In(q, j) => NoDuplicates(r)
  BY <1>1 DEF In, NoDuplicates
<1> QED BY <1>1, <1>2, <1>3 DEF r

\* BRPOP removes the oldest message and nothing else. (pop_from_queue)
LEMMA TailFacts ==
  ASSUME NEW q \in Seq(Jobs), q # <<>>
  PROVE  /\ Tail(q) \in Seq(Jobs) /\ Head(q) \in Jobs /\ In(q, Head(q))
         /\ \A k : In(q, k) <=> In(Tail(q), k) \/ k = Head(q)
         /\ NoDuplicates(q) => NoDuplicates(Tail(q)) /\ ~In(Tail(q), Head(q))
<1> DEFINE r == Tail(q)
<1>1. /\ r \in Seq(Jobs) /\ Len(r) = Len(q) - 1 /\ Len(q) \in Nat /\ Len(q) > 0
      /\ Head(q) = q[1] /\ Head(q) \in Jobs /\ \A i \in 1..Len(r) : r[i] = q[i + 1]
  OBVIOUS
<1> DEFINE h == Head(q)
<1> HIDE DEF r, h
<1>2. h = q[1] BY <1>1 DEF h
<1>3. In(q, h) BY <1>1, <1>2 DEF In
<1>4. \A k : In(q, k) <=> In(r, k) \/ k = h
  <2>1. \A i \in 1..Len(r) : i + 1 \in 1..Len(q) /\ r[i] = q[i + 1] BY <1>1
  <2>2. \A i \in 1..Len(q) : i = 1 \/ (i - 1 \in 1..Len(r) /\ r[i - 1] = q[i])
    BY <1>1
  <2>3. \A k : In(r, k) => In(q, k) BY <2>1 DEF In
  <2>4. ASSUME NEW k, In(q, k), k # h PROVE In(r, k)
    <3>1. PICK i \in 1..Len(q) : q[i] = k BY <2>4 DEF In
    <3> QED BY <1>2, <2>2, <2>4, <3>1 DEF In
  <2> QED BY <1>3, <2>3, <2>4
<1>5. ASSUME NoDuplicates(q) PROVE NoDuplicates(r) /\ ~In(r, h)
  <2>1. \A i \in 1..Len(r) : i + 1 \in 1..Len(q) /\ r[i] = q[i + 1] /\ i + 1 # 1
    BY <1>1
  <2>2. 1 \in 1..Len(q) /\ \A i, k \in 1..Len(r) : i + 1 = k + 1 => i = k BY <1>1
  <2>3. \A i \in 1..Len(r) : r[i] # h BY <1>2, <1>5, <2>1, <2>2 DEF NoDuplicates
  <2>4. ASSUME NEW i \in 1..Len(r), NEW k \in 1..Len(r), r[i] = r[k] PROVE i = k
    <3>1. i + 1 = k + 1 BY <1>5, <2>1, <2>4 DEF NoDuplicates
    <3> QED BY <3>1, <2>2
  <2> QED BY <2>3, <2>4 DEF In, NoDuplicates
<1> QED BY <1>1, <1>3, <1>4, <1>5 DEF r, h

-----------------------------------------------------------------------------
(* Type correctness.                                                       *)

\* What the store calls do to the variables they touch.
LEMMA CallType ==
  ASSUME TypeOK, NEW o, Call(o)
  PROVE  spent' \in 0..MaxFaults
<1> QED BY ConstantsAssumption DEF TypeOK, Call, Spend

\* A Postgres write of a row keeps the types of rows and spent. (update_job_status)
LEMMA PgUpdateType ==
  ASSUME TypeOK, NEW j \in Jobs, NEW row \in Row, NEW o, PgUpdate(j, row, o)
  PROVE  rows' \in [Jobs -> Row] /\ spent' \in 0..MaxFaults
<1>1. spent' \in 0..MaxFaults BY CallType DEF PgUpdate
<1>2. rows' \in [Jobs -> Row] BY DEF PgUpdate, TypeOK
<1> QED BY <1>1, <1>2

\* A push keeps the types of queue and spent. (push_to_queue)
LEMMA PushType ==
  ASSUME TypeOK, NEW j \in Jobs, NEW o, push_to_queue(j, o)
  PROVE  queue' \in Seq(Jobs) /\ spent' \in 0..MaxFaults
<1>1. spent' \in 0..MaxFaults BY CallType DEF push_to_queue
<1>2. queue' \in Seq(Jobs) BY AppendFacts DEF push_to_queue, TypeOK
<1> QED BY <1>1, <1>2

\* Every write of a row leaves a row. (update_job_status, touch_updated_at)
LEMMA RowType ==
  ASSUME NEW row \in Row
  PROVE  /\ \A status \in Terminal \union NonTerminal : \A given :
              update_job_status(row, status, given) \in Row
         /\ touch_updated_at(row) \in Row
<1>1. ASSUME NEW status \in Terminal \union NonTerminal, NEW given
      PROVE  update_job_status(row, status, given) \in Row
  <2> DEFINE phash == row.phash \/ given = "phash"
             result == row.result \/ given = "result"
             error == IF given \in ErrorCodes THEN given ELSE row.error
  <2>1. phash \in BOOLEAN /\ result \in BOOLEAN BY Zenon DEF Row
  <2>2. error \in ErrorCodes \union {"none"} BY DEF Row
  <2>3. CASE row.status = "absent" BY <2>3 DEF update_job_status
  <2>4. CASE row.status # "absent"
    <3> HIDE DEF phash, result, error
    <3>1. [status |-> status, old |-> FALSE, phash |-> phash, result |-> result,
           error |-> error] \in Row
      BY <2>1, <2>2 DEF Row
    <3> QED BY <3>1, <2>4, Zenon DEF update_job_status, phash, result, error
  <2> QED BY <2>3, <2>4
<1>2. touch_updated_at(row) \in Row BY DEF touch_updated_at, Row
<1> QED BY <1>1, <1>2

\* The row of a job without a record is a row. (get_job_record's None)
LEMMA AbsentRowType == AbsentRow \in Row
<1> QED BY DEF AbsentRow, Row

\* TypeOK is not inductive by itself: a slot at a stage must hold a job.
HeldJobs == \A s \in Slots : slots[s].pc \in Stages <=> slots[s].job \in Jobs
SlotsOK == slots \in [Slots -> Slot] /\ HeldJobs
TypeInv == TypeOK /\ HeldJobs

\* What moving a slot that holds a job does.
LEMMA SlotMoves ==
  ASSUME SlotsOK, NEW s \in Slots, slots[s].pc \in Stages
  PROVE  /\ slots[s].job \in Jobs /\ slots[s].verdict \in ErrorCodes
         /\ \A stage \in Stages : Goto(s, stage) => SlotsOK'
         /\ Release(s) => SlotsOK'
         /\ \A code \in ErrorCodes : FailWith(s, code) => SlotsOK'
<1>1. IdleSlot \in Slot /\ IdleSlot.pc \notin Stages /\ IdleSlot.job \notin Jobs
  BY ConstantsAssumption DEF IdleSlot, Slot, Stages, ErrorCodes, TransientCodes
<1>2. slots[s] \in Slot /\ slots \in [Slots -> Slot] BY DEF SlotsOK
<1>3. ASSUME NEW stage \in Stages, Goto(s, stage)
      PROVE  SlotsOK'
  BY <1>2, <1>3 DEF Goto, Slot, SlotsOK, HeldJobs
<1>4. ASSUME NEW code \in ErrorCodes, FailWith(s, code)
      PROVE  SlotsOK'
  BY <1>2, <1>4 DEF FailWith, Slot, Stages, SlotsOK, HeldJobs
<1>5. Release(s) => SlotsOK'
  BY <1>1, <1>2 DEF Release, SlotsOK, HeldJobs
<1> QED BY <1>2, <1>3, <1>4, <1>5 DEF Slot, SlotsOK, HeldJobs

\* The codes the lifecycle fails a job with are error codes. (_fail)
LEMMA CodesAreErrors ==
  /\ "pipeline" \in ErrorCodes /\ "orphan_requeue_cap" \in ErrorCodes
  /\ "database_unavailable" \in ErrorCodes /\ "storage_transient" \in ErrorCodes
  /\ "lifecycle_uncaught" \in ErrorCodes
<1> QED BY DEF ErrorCodes, PermanentCodes, TransientCodes

\* The steps of a slot keep the types.
LEMMA SlotStepType ==
  ASSUME TypeInv, NEW s \in Slots, SlotStep(s)
  PROVE  TypeInv'
<1> DEFINE j == slots[s].job
<1> USE DEF TypeInv
<1>0. SlotsOK BY DEF SlotsOK, TypeOK
<1>1. CASE pop_from_queue(s)
  <2>1. slots[s] \in Slot /\ slots[s].pc = "idle" BY <1>1 DEF TypeOK, pop_from_queue, At
  <2>2. /\ queue' \in Seq(Jobs) /\ spent' \in 0..MaxFaults
        /\ UNCHANGED <<rows, bumps, cache, api, sweeping>>
    <3>1. spent' \in 0..MaxFaults
      BY <1>1, ConstantsAssumption DEF pop_from_queue, TypeOK, Spend
    <3>2. queue' \in Seq(Jobs)
      <4>1. queue # <<>> => Tail(queue) \in Seq(Jobs) BY TailFacts DEF TypeOK
      <4> QED BY <1>1, <4>1 DEF pop_from_queue, TypeOK
    <3> QED BY <1>1, <3>1, <3>2 DEF pop_from_queue
  <2>3. CASE slots' = [slots EXCEPT ![s].pc = "read", ![s].job = Head(queue)]
             /\ queue # <<>>
    <3>1. Head(queue) \in Jobs BY <2>3, TailFacts DEF TypeOK
    <3>2. SlotsOK' BY <1>0, <2>1, <2>3, <3>1 DEF SlotsOK, HeldJobs, Slot, Stages
    <3> QED BY <2>2, <3>2 DEF TypeOK, SlotsOK
  <2>4. CASE UNCHANGED slots
    BY <2>2, <2>4 DEF TypeOK, HeldJobs
  <2>5. CASE Goto(s, "dead")
    <3>1. SlotsOK' BY <1>0, <2>1, <2>5 DEF Goto, SlotsOK, HeldJobs, Slot, Stages
    <3> QED BY <2>2, <3>1 DEF TypeOK, SlotsOK
  <2> QED BY <1>1, <2>3, <2>4, <2>5 DEF pop_from_queue
<1>2. ASSUME execute_task_lifecycle(s), slots[s].pc \in Stages, SlotsOK',
             queue' \in Seq(Jobs), rows' \in [Jobs -> Row], bumps' \in [Jobs -> Nat],
             cache' \subseteq Hashes, api' = api, sweeping' = sweeping,
             spent' \in 0..MaxFaults
      PROVE  TypeInv'
  BY <1>2 DEF TypeOK, SlotsOK
<1>3. CASE execute_task_lifecycle(s)
  <2>1. slots[s].pc \in Stages
    BY <1>3 DEF execute_task_lifecycle, ReadRecord, MarkProcessing, Download,
       RecordPhash, CacheLookup, Detect, StoreRaw, Persist, BumpOrOrphan, YieldTouch,
       YieldPush, Fail, Acquire, ExtractLimited, ExtractDone, At, Stages
  <2>2. /\ j \in Jobs /\ slots[s].verdict \in ErrorCodes
        /\ \A stage \in Stages : Goto(s, stage) => SlotsOK'
        /\ Release(s) => SlotsOK'
        /\ \A code \in ErrorCodes : FailWith(s, code) => SlotsOK'
    BY <1>0, <2>1, SlotMoves
  <2>3. slots[s] \in Slot /\ slots \in [Slots -> Slot] /\ rows[j] \in Row
    BY <2>2 DEF TypeOK
  <2>4. UNCHANGED <<api, sweeping>>
    BY <1>3 DEF execute_task_lifecycle, ReadRecord, MarkProcessing, Download,
       RecordPhash, CacheLookup, Detect, StoreRaw, Persist, BumpOrOrphan, YieldTouch,
       YieldPush, Fail, Acquire, ExtractLimited, ExtractDone
  <2>5. SlotsOK'
    <3> USE <2>2, CodesAreErrors DEF Stages
    <3>1. CASE ReadRecord(s)
      <4>1. CASE slots' = [slots EXCEPT ![s].pc = "mark", ![s].hashed = rows[j].phash]
        <5>1. slots' \in [Slots -> Slot] /\ slots'[s].job = j /\ slots'[s].pc \in Stages
          BY <2>1, <2>2, <2>3, <4>1 DEF Slot, Stages, Row
        <5>2. \A t \in Slots : t # s => slots'[t] = slots[t]
          BY <2>3, <4>1
        <5> QED BY <1>0, <2>2, <5>1, <5>2 DEF SlotsOK, HeldJobs
      <4> QED BY <3>1, <4>1 DEF ReadRecord
    <3>2. CASE MarkProcessing(s) BY <3>2 DEF MarkProcessing
    <3>3. CASE Download(s) BY <3>3 DEF Download
    <3>4. CASE RecordPhash(s) BY <3>4 DEF RecordPhash
    <3>5. CASE CacheLookup(s) BY <3>5 DEF CacheLookup, Postprocess
    <3>6. CASE Detect(s) BY <3>6 DEF Detect
    <3>7. CASE StoreRaw(s) BY <3>7 DEF StoreRaw, Postprocess
    <3>8. CASE Persist(s) BY <3>8 DEF Persist
    <3>9. CASE BumpOrOrphan(s)
      <4>1. CASE slots' = [slots EXCEPT ![s].pc = "touch", ![s].again = TRUE]
        <5>1. slots' \in [Slots -> Slot] /\ slots'[s].job = j /\ slots'[s].pc \in Stages
          BY <2>1, <2>2, <2>3, <4>1 DEF Slot, Stages
        <5>2. \A t \in Slots : t # s => slots'[t] = slots[t]
          BY <2>3, <4>1
        <5> QED BY <1>0, <2>2, <5>1, <5>2 DEF SlotsOK, HeldJobs
      <4> QED BY <3>9, <4>1 DEF BumpOrOrphan
    <3>10. CASE YieldTouch(s) BY <3>10 DEF YieldTouch
    <3>11. CASE YieldPush(s)
      <4>1. CASE slots' = [slots EXCEPT ![s].pc = "touch", ![s].again = FALSE]
        <5>1. slots' \in [Slots -> Slot] /\ slots'[s].job = j /\ slots'[s].pc \in Stages
          BY <2>1, <2>2, <2>3, <4>1 DEF Slot, Stages
        <5>2. \A t \in Slots : t # s => slots'[t] = slots[t]
          BY <2>3, <4>1
        <5> QED BY <1>0, <2>2, <5>1, <5>2 DEF SlotsOK, HeldJobs
      <4> QED BY <3>11, <4>1 DEF YieldPush
    <3>12. CASE Fail(s) BY <3>12 DEF Fail
    <3>13. CASE Acquire(s, TRUE) \/ Acquire(s, FALSE) BY <3>13 DEF Acquire
    <3>14. CASE ExtractLimited(s) \/ ExtractDone(s) BY <3>14 DEF ExtractLimited, ExtractDone
    <3> QED BY <1>3, <3>1, <3>2, <3>3, <3>4, <3>5, <3>6, <3>7, <3>8, <3>9, <3>10,
               <3>11, <3>12, <3>13, <3>14 DEF execute_task_lifecycle
  <2>6. /\ queue' \in Seq(Jobs) /\ rows' \in [Jobs -> Row] /\ bumps' \in [Jobs -> Nat]
        /\ cache' \subseteq Hashes /\ spent' \in 0..MaxFaults
    <3>1. /\ queue \in Seq(Jobs) /\ rows \in [Jobs -> Row] /\ bumps \in [Jobs -> Nat]
          /\ cache \subseteq Hashes /\ spent \in 0..MaxFaults
      BY DEF TypeOK
    <3>2. /\ \A status \in Terminal \union NonTerminal : \A given :
               update_job_status(rows[j], status, given) \in Row
          /\ touch_updated_at(rows[j]) \in Row
      BY <2>3, RowType
    <3>3. \A row \in Row : \A o : PgUpdate(j, row, o) =>
            rows' \in [Jobs -> Row] /\ spent' \in 0..MaxFaults
      BY <2>2, PgUpdateType
    <3>4. \A kind : Spend(kind) => spent' \in 0..MaxFaults
      BY <3>1, ConstantsAssumption DEF Spend
    <3>5. CASE ReadRecord(s) BY <3>1, <3>4, <3>5 DEF ReadRecord
    <3>6. CASE MarkProcessing(s)
      BY <3>1, <3>2, <3>3, <3>6 DEF MarkProcessing, Terminal, NonTerminal
    <3>7. CASE Download(s) \/ Detect(s) \/ Acquire(s, TRUE) \/ Acquire(s, FALSE)
               \/ ExtractLimited(s) \/ ExtractDone(s)
      BY <3>1, <3>7 DEF Download, Detect, Acquire, ExtractLimited, ExtractDone
    <3>8. CASE RecordPhash(s)
      BY <3>1, <3>2, <3>3, <3>8 DEF RecordPhash, Terminal, NonTerminal
    <3>9. CASE CacheLookup(s) BY <3>1, <3>4, <3>9 DEF CacheLookup
    <3>10. CASE StoreRaw(s) BY <2>2, <3>1, <3>4, <3>10 DEF StoreRaw, Hashes
    <3>11. CASE Persist(s)
      BY <3>1, <3>2, <3>3, <3>11 DEF Persist, Terminal, NonTerminal
    <3>12. CASE BumpOrOrphan(s)
      <4>1. bumps[j] + 1 \in Nat BY <2>2, <3>1
      <4>2. [bumps EXCEPT ![j] = bumps[j] + 1] \in [Jobs -> Nat] BY <3>1, <4>1
      <4> QED BY <3>1, <3>4, <3>12, <4>2 DEF BumpOrOrphan, bump_requeue_counter
    <3>13. CASE YieldTouch(s) BY <3>1, <3>2, <3>3, <3>13 DEF YieldTouch
    <3>14. CASE YieldPush(s) BY <2>2, <3>1, <3>14, PushType DEF YieldPush
    <3>15. CASE Fail(s)
      <4>1. FailStatus(slots[s].verdict) \in Terminal \union NonTerminal
        BY DEF FailStatus, Terminal, Failed
      <4> QED BY <3>1, <3>2, <3>3, <3>15, <4>1 DEF Fail
    <3> QED BY <1>3, <3>5, <3>6, <3>7, <3>8, <3>9, <3>10, <3>11, <3>12, <3>13, <3>14,
               <3>15 DEF execute_task_lifecycle
  <2> QED BY <1>2, <1>3, <2>1, <2>4, <2>5, <2>6
<1> QED BY <1>1, <1>3 DEF SlotStep

\* The steps of the API, the sweepers, the purge and the environment keep them.
LEMMA OtherStepType ==
  ASSUME TypeInv,
         \/ \E j \in Jobs : submit_receipt(j) \/ Age(j) \/ CrashApi(j) \/ CounterExpires(j)
         \/ \E w \in Workers : SweeperStep(w) \/ Crash(w)
         \/ \E h \in Hashes : CacheExpires(h)
         \/ Purge
  PROVE  TypeInv'
<1> USE DEF TypeInv
<1>0. \A kind : Spend(kind) => spent' \in 0..MaxFaults
  BY ConstantsAssumption DEF Spend, TypeOK
<1>a. \A j, a : Answer(j, a) /\ a \in ApiSteps \union ApiAnswers =>
        api' \in [Jobs -> ApiSteps \union ApiAnswers]
  BY DEF Answer, TypeOK
<1>b. UNCHANGED slots => HeldJobs' BY DEF HeldJobs
<1>1. ASSUME NEW j \in Jobs, SubmitBegin(j) PROVE TypeInv'
  BY <1>1, <1>a, <1>b DEF SubmitBegin, TypeOK, ApiSteps
<1>2. ASSUME NEW j \in Jobs, SubmitCheck(j) PROVE TypeInv'
  <2>1. api' \in [Jobs -> ApiSteps \union ApiAnswers]
    BY <1>2, <1>a DEF SubmitCheck, ApiSteps, ApiAnswers
  <2>2. spent' \in 0..MaxFaults BY <1>0, <1>2 DEF SubmitCheck, TypeOK
  <2> QED BY <1>2, <1>b, <2>1, <2>2 DEF SubmitCheck, TypeOK
<1>3. ASSUME NEW j \in Jobs, SubmitCreate(j) PROVE TypeInv'
  <2>1. api' \in [Jobs -> ApiSteps \union ApiAnswers]
    BY <1>3, <1>a DEF SubmitCreate, ApiSteps, ApiAnswers
  <2>2. [AbsentRow EXCEPT !.status = "PENDING"] \in Row
    BY AbsentRowType DEF AbsentRow, Row, NonTerminal
  <2>3. rows' \in [Jobs -> Row] /\ spent' \in 0..MaxFaults
    BY <1>3, <2>2, PgUpdateType DEF SubmitCreate
  <2> QED BY <1>3, <1>b, <2>1, <2>3 DEF SubmitCreate, TypeOK
<1>4. ASSUME NEW j \in Jobs, SubmitPush(j) PROVE TypeInv'
  <2>1. api' \in [Jobs -> ApiSteps \union ApiAnswers]
    BY <1>4, <1>a DEF SubmitPush, ApiSteps, ApiAnswers
  <2>2. queue' \in Seq(Jobs) /\ spent' \in 0..MaxFaults
    BY <1>4, PushType DEF SubmitPush
  <2> QED BY <1>4, <1>b, <2>1, <2>2 DEF SubmitPush, TypeOK
<1>5. ASSUME NEW j \in Jobs, Age(j) PROVE TypeInv'
  <2>0. rows[j] \in Row BY DEF TypeOK
  <2>1. [rows[j] EXCEPT !.old = TRUE] \in Row BY <2>0 DEF Row
  <2>2. rows' \in [Jobs -> Row] BY <1>5, <2>1 DEF Age, TypeOK
  <2> QED BY <1>5, <1>b, <2>2 DEF Age, TypeOK
<1>6. ASSUME NEW j \in Jobs, CrashApi(j) PROVE TypeInv'
  BY <1>6, <1>0, <1>a, <1>b DEF CrashApi, TypeOK, ApiAnswers
<1>7. ASSUME NEW j \in Jobs, CounterExpires(j) PROVE TypeInv'
  BY <1>7, <1>0, <1>b DEF CounterExpires, TypeOK
<1>8. ASSUME NEW w \in Workers, SweepSelect(w) PROVE TypeInv'
  BY <1>8, <1>b DEF SweepSelect, TypeOK
<1>9. ASSUME NEW w \in Workers, NEW j \in Jobs, SweepFail(w, j) PROVE TypeInv'
  <2>1. update_job_status(rows[j], "FAILED_TRANSIENT", "stale_timeout") \in Row
    BY RowType DEF TypeOK, Terminal, Failed
  <2>2. rows' \in [Jobs -> Row] /\ spent' \in 0..MaxFaults
    BY <1>9, <2>1, PgUpdateType DEF SweepFail
  <2> QED BY <1>9, <1>b, <2>2 DEF SweepFail, TypeOK
<1>10. ASSUME NEW w \in Workers, Crash(w) PROVE TypeInv'
  <2>1. IdleSlot \in Slot /\ IdleSlot.pc \notin Stages /\ IdleSlot.job \notin Jobs
    BY ConstantsAssumption DEF IdleSlot, Slot, Stages, ErrorCodes, TransientCodes
  <2>2. slots' \in [Slots -> Slot] /\ HeldJobs'
    BY <1>10, <2>1 DEF Crash, TypeOK, HeldJobs
  <2> QED BY <1>10, <1>0, <2>2 DEF Crash, TypeOK
<1>11. ASSUME NEW h \in Hashes, CacheExpires(h) PROVE TypeInv'
  BY <1>11, <1>0, <1>b DEF CacheExpires, TypeOK
<1>12. CASE Purge
  <2>1. rows' \in [Jobs -> Row] BY <1>12, AbsentRowType DEF Purge, TypeOK
  <2> QED BY <1>12, <1>b, <2>1 DEF Purge, TypeOK
<1> QED BY <1>1, <1>2, <1>3, <1>4, <1>5, <1>6, <1>7, <1>8, <1>9, <1>10, <1>11, <1>12
        DEF submit_receipt, SweeperStep

\* The variables keep their types, and only a slot at a stage of the
\* lifecycle holds a job, whatever the configuration and the faults.
THEOREM TypeCorrect == Spec => [](TypeOK /\ HeldJobs)
<1>1. Init => TypeInv
  <2> SUFFICES ASSUME Init PROVE TypeInv OBVIOUS
  <2>1. IdleSlot \in Slot /\ IdleSlot.pc \notin Stages /\ IdleSlot.job \notin Jobs
    BY ConstantsAssumption DEF IdleSlot, Slot, Stages, ErrorCodes, TransientCodes
  <2>2. <<>> \in Seq(Jobs) /\ 0 \in 0..MaxFaults BY ConstantsAssumption
  <2> QED BY <2>1, <2>2, AbsentRowType DEF Init, TypeInv, TypeOK, HeldJobs, ApiSteps
<1>2. TypeInv /\ [Next]_vars => TypeInv'
  <2>1. CASE UNCHANGED vars
    BY <2>1 DEF vars, TypeInv, TypeOK, HeldJobs
  <2>2. ASSUME TypeInv, Next PROVE TypeInv'
    BY <2>2, SlotStepType, OtherStepType DEF Next, Environment
  <2> QED BY <2>1, <2>2
<1> QED BY <1>1, <1>2, PTL DEF Spec, TypeInv

-----------------------------------------------------------------------------
(* One message per job, and the bounded requeue.                           *)

BeforeRow == {"new", "check", "create"}

\* OneCopy and BoundedRequeue are inductive together with these facts: no slot
\* owes a second yield, and a job whose submission is not over yet has no
\* message and was never requeued.
CopyInv ==
  /\ TypeInv
  /\ OneCopy
  /\ BoundedRequeue
  /\ \A s \in Slots : ~slots[s].again
  /\ \A j \in Jobs : api[j] \in ApiSteps => bumps[j] = 0
  /\ \A j \in Jobs : api[j] \in BeforeRow => ~InFlight(j)

\* What a step of slot s does to its job: it keeps it, gives it back with one
\* push, or lets go of it, and only stage "bump" counts.
StepShape(s) ==
  /\ api' = api
  /\ slots' \in [Slots -> Slot]
  /\ \A t \in Slots : t # s => slots'[t] = slots[t]
  /\ ~slots'[s].again
  /\ slots'[s].job \in {slots[s].job, NoJob}
  /\ slots[s].pc = "fail" => slots'[s].job = NoJob
  /\ \/ queue' = queue
     \/ /\ queue' = Append(queue, slots[s].job)
        /\ slots[s].pc # "fail"
        /\ slots'[s].pc = "fail" \/ slots'[s].job = NoJob
  /\ \/ bumps' = bumps
     \/ /\ queue' = queue
        /\ slots[s].pc = "bump"
        /\ bumps' = [bumps EXCEPT ![slots[s].job] = @ + 1]
        /\ bumps'[slots[s].job] > RequeueMax => slots'[s].pc = "fail"

\* Every stage of the lifecycle has that shape. (execute_task_lifecycle)
LEMMA StepHasShape ==
  ASSUME "bump" \notin Faults, TypeInv, NEW s \in Slots, ~slots[s].again,
         execute_task_lifecycle(s), TypeInv'
  PROVE  StepShape(s) /\ slots[s].pc \in Stages
<1> DEFINE j == slots[s].job
<1>1. /\ slots[s].pc \in Stages
      /\ slots[s].pc # "push" => queue' = queue
      /\ slots[s].pc # "bump" => bumps' = bumps
      /\ api' = api
  BY DEF execute_task_lifecycle, ReadRecord, MarkProcessing, Download,
     RecordPhash, CacheLookup, Detect, StoreRaw, Persist, BumpOrOrphan, YieldTouch,
     YieldPush, Fail, Acquire, ExtractLimited, ExtractDone, At, Stages
<1>2. slots \in [Slots -> Slot] /\ slots' \in [Slots -> Slot] /\ j \in Jobs
  BY <1>1 DEF TypeInv, TypeOK, HeldJobs
<1>3. \A stage : Goto(s, stage) => slots' = [slots EXCEPT ![s].pc = stage] BY DEF Goto
<1>4. \A code : FailWith(s, code) => slots'[s].pc = "fail" /\ slots'[s].job = j
                                     /\ ~slots'[s].again
                                     /\ \A t \in Slots : t # s => slots'[t] = slots[t]
  BY <1>2 DEF FailWith, Slot
<1>5. Release(s) => slots'[s].job = NoJob /\ ~slots'[s].again
                    /\ \A t \in Slots : t # s => slots'[t] = slots[t]
  BY <1>2 DEF Release, IdleSlot
<1>6. \A stage : Goto(s, stage) => slots'[s].pc = stage /\ slots'[s].job = j
                                   /\ ~slots'[s].again
                                   /\ \A t \in Slots : t # s => slots'[t] = slots[t]
  BY <1>2, <1>3 DEF Slot
<1>7. CASE BumpOrOrphan(s)
  <2>1. /\ bumps' = [bumps EXCEPT ![j] = bumps[j] + 1] /\ At(s, "bump")
        /\ IF OverCap(bumps[j] + 1) THEN FailWith(s, "orphan_requeue_cap")
                                    ELSE Goto(s, "touch")
    BY <1>7 DEF BumpOrOrphan, bump_requeue_counter, Spend
  <2>2. bumps'[j] = bumps[j] + 1 BY <1>2, <2>1 DEF TypeInv, TypeOK
  <2>3. bumps'[j] > RequeueMax => slots'[s].pc = "fail"
    BY <1>4, <2>1, <2>2 DEF OverCap
  <2>4. slots'[s].job = j /\ ~slots'[s].again /\ \A t \in Slots : t # s => slots'[t] = slots[t]
    BY <1>4, <1>6, <2>1
  <2> QED BY <1>1, <1>2, <2>1, <2>3, <2>4 DEF StepShape, At
<1>8. CASE YieldPush(s)
  <2>1. At(s, "push") /\ (queue' = queue \/ queue' = Append(queue, j))
    BY <1>8 DEF YieldPush, push_to_queue
  <2>2. FailWith(s, "storage_transient") \/ Release(s) BY <1>8 DEF YieldPush
  <2> QED BY <1>1, <1>2, <1>4, <1>5, <2>1, <2>2 DEF StepShape, At
<1>9. CASE Fail(s)
  BY <1>1, <1>2, <1>5, <1>9 DEF Fail, StepShape, At
<1>10. ASSUME ~BumpOrOrphan(s), ~YieldPush(s), ~Fail(s) PROVE StepShape(s)
  <2>1. slots[s].pc \notin {"bump", "push", "fail"}
    BY <1>10 DEF execute_task_lifecycle, ReadRecord, MarkProcessing, Download,
       RecordPhash, CacheLookup, Detect, StoreRaw, Persist, YieldTouch, Acquire,
       ExtractLimited, ExtractDone, At
  <2>2. CASE slots' = [slots EXCEPT ![s].pc = "mark", ![s].hashed = rows[j].phash]
    <3>1. slots'[s].job = j /\ ~slots'[s].again /\ \A t \in Slots : t # s => slots'[t] = slots[t]
      BY <1>2, <2>2 DEF Slot
    <3> QED BY <1>1, <1>2, <2>1, <3>1 DEF StepShape
  <2>3. CASE \/ \E stage : Goto(s, stage)
             \/ \E code : FailWith(s, code)
             \/ Release(s)
    BY <1>1, <1>2, <1>4, <1>5, <1>6, <2>1, <2>3 DEF StepShape
  <2> QED BY <1>10, <2>2, <2>3 DEF execute_task_lifecycle, ReadRecord, MarkProcessing,
       Download, RecordPhash, CacheLookup, Detect, StoreRaw, Persist, YieldTouch, Acquire,
       ExtractLimited, ExtractDone, Postprocess
<1> QED BY <1>1, <1>7, <1>8, <1>9, <1>10

\* The steps of a slot keep CopyInv.
LEMMA SlotStepCopies ==
  ASSUME "bump" \notin Faults, CopyInv, NEW s \in Slots, SlotStep(s), TypeInv'
  PROVE  CopyInv'
<1>0. TypeInv /\ slots \in [Slots -> Slot] /\ queue \in Seq(Jobs) /\ NoJob \notin Jobs
      /\ bumps \in [Jobs -> Nat] /\ RequeueMax \in Nat
  BY ConstantsAssumption DEF CopyInv, TypeInv, TypeOK
<1>1. CASE pop_from_queue(s)
  <2>1. /\ slots[s].pc = "idle" /\ slots[s].job \notin Jobs
        /\ UNCHANGED <<api, bumps>>
    BY <1>0, <1>1 DEF pop_from_queue, At, TypeInv, HeldJobs, Stages
  <2>2. CASE queue # <<>> /\ queue' = Tail(queue)
             /\ slots' = [slots EXCEPT ![s].pc = "read", ![s].job = Head(queue)]
    <3>1. /\ Head(queue) \in Jobs /\ In(queue, Head(queue))
          /\ \A k : In(queue', k) => In(queue, k)
          /\ NoDuplicates(queue') /\ ~In(queue', Head(queue))
      BY <1>0, <2>2, TailFacts DEF CopyInv, OneCopy
    <3>2. /\ \A t \in Slots : t # s => slots'[t] = slots[t]
          /\ slots'[s].job = Head(queue) /\ ~slots'[s].again
      BY <1>0, <2>2 DEF Slot, CopyInv
    <3>3. \A k \in Jobs : InFlight(k)' => InFlight(k)
      BY <2>1, <3>1, <3>2 DEF InFlight, InQueue, Working, Holds
    <3>4. OneCopy'
      BY <2>1, <3>1, <3>2 DEF CopyInv, OneCopy, InQueue, Working, Holds
    <3> QED BY <2>1, <3>2, <3>3, <3>4 DEF CopyInv, BoundedRequeue
  <2>3. CASE queue # <<>> /\ queue' = Tail(queue) /\ UNCHANGED slots
    <3>1. /\ \A k : In(queue', k) => In(queue, k)
          /\ NoDuplicates(queue')
      BY <1>0, <2>3, TailFacts DEF CopyInv, OneCopy
    <3>2. \A k \in Jobs : InFlight(k)' => InFlight(k)
      BY <2>1, <2>3, <3>1 DEF InFlight, InQueue, Working, Holds
    <3>3. OneCopy'
      BY <2>1, <2>3, <3>1 DEF CopyInv, OneCopy, InQueue, Working, Holds
    <3> QED BY <2>1, <2>3, <3>2, <3>3 DEF CopyInv, BoundedRequeue
  <2>4. CASE UNCHANGED queue /\ Goto(s, "dead")
    <3>1. /\ \A t \in Slots : t # s => slots'[t] = slots[t]
          /\ slots'[s].job \notin Jobs /\ ~slots'[s].again
      BY <1>0, <2>1, <2>4 DEF Goto, Slot, CopyInv
    <3>2. \A k \in Jobs : InFlight(k)' => InFlight(k)
      BY <2>1, <2>4, <3>1 DEF InFlight, InQueue, Working, Holds
    <3>3. OneCopy'
      BY <2>1, <2>4, <3>1 DEF CopyInv, OneCopy, InQueue, Working, Holds
    <3> QED BY <2>1, <3>1, <3>2, <3>3 DEF CopyInv, BoundedRequeue
  <2> QED BY <1>1, <2>2, <2>3, <2>4 DEF pop_from_queue
<1>2. CASE execute_task_lifecycle(s)
  <2>0. StepShape(s) /\ slots[s].pc \in Stages /\ slots[s].job \in Jobs
    BY <1>0, <1>2, StepHasShape DEF CopyInv, TypeInv, HeldJobs
  <2>1. PICK j \in Jobs : j = slots[s].job BY <2>0
  <2>2. /\ \A t \in Slots : t # s => slots'[t] = slots[t]
        /\ slots'[s].job \in {j, NoJob} /\ ~slots'[s].again /\ api' = api
        /\ slots[s].pc = "fail" => slots'[s].job = NoJob
    BY <2>0, <2>1 DEF StepShape
  <2>3. \A t \in Slots, k \in Jobs : Working(t, k)' => Working(t, k)
    BY <1>0, <2>1, <2>2 DEF Working, Holds
  <2>4. \A t \in Slots : ~slots'[t].again
    BY <2>2 DEF CopyInv
  <2>5. CASE queue' = queue
    <3>1. OneCopy'
      BY <2>2, <2>3, <2>5 DEF CopyInv, OneCopy, InQueue
    <3>2. \A k \in Jobs : InFlight(k)' => InFlight(k)
      BY <2>2, <2>3, <2>5 DEF InFlight, InQueue
    <3>3. CASE bumps' = bumps
      BY <2>2, <2>4, <3>1, <3>2, <3>3 DEF CopyInv, BoundedRequeue
    <3>4. CASE /\ slots[s].pc = "bump"
               /\ bumps' = [bumps EXCEPT ![j] = @ + 1]
               /\ bumps'[j] > RequeueMax => slots'[s].pc = "fail"
      <4>1. Working(s, j) BY <2>1, <3>4 DEF Working, Holds
      <4>2. api[j] \notin ApiSteps
        BY <2>1, <4>1 DEF CopyInv, OneCopy, ApiSteps, BeforeRow, InFlight
      <4>3. \A k \in Jobs : api'[k] \in ApiSteps => bumps'[k] = 0
        BY <1>0, <2>1, <2>2, <3>4, <4>2 DEF CopyInv
      <4>4. \A k \in Jobs : bumps'[k] > RequeueMax => ~InFlight(k)'
        <5>1. ASSUME NEW k \in Jobs, k # j, bumps'[k] > RequeueMax
              PROVE  ~InFlight(k)'
          BY <1>0, <2>1, <3>2, <3>4, <5>1 DEF CopyInv, BoundedRequeue
        <5>2. ASSUME bumps'[j] > RequeueMax
              PROVE  ~InFlight(j)'
          <6>1. \A t \in Slots : ~Working(t, j)'
            <7>1. slots'[s].pc = "fail" BY <3>4, <5>2
            <7>2. ~Working(s, j)' BY <7>1 DEF Working
            <7>3. \A t \in Slots : Working(t, j) => t = s
              BY <2>1, <4>1 DEF CopyInv, OneCopy
            <7> QED BY <2>3, <2>1, <7>2, <7>3
          <6>2. ~InQueue(j) /\ api[j] # "push"
            BY <2>1, <4>1 DEF CopyInv, OneCopy
          <6>3. ~InQueue(j)' /\ api'[j] # "push"
            BY <2>2, <2>5, <6>2 DEF InQueue
          <6> QED BY <6>1, <6>3 DEF InFlight
        <5> QED BY <2>1, <5>1, <5>2
      <4> QED BY <2>2, <2>4, <3>1, <3>2, <4>3, <4>4 DEF CopyInv, BoundedRequeue
    <3> QED BY <2>0, <2>1, <2>5, <3>3, <3>4 DEF StepShape
  <2>6. CASE /\ queue' = Append(queue, j)
             /\ slots[s].pc # "fail"
             /\ slots'[s].pc = "fail" \/ slots'[s].job = NoJob
             /\ bumps' = bumps
    <3>1. Working(s, j) BY <2>1, <2>6 DEF Working, Holds
    <3>2. ~In(queue, j) /\ api[j] # "push" BY <2>1, <3>1 DEF CopyInv, OneCopy, InQueue
    <3>3. /\ \A k : In(queue', k) <=> In(queue, k) \/ k = j
          /\ NoDuplicates(queue')
      BY <1>0, <2>1, <2>6, <3>2, AppendFacts DEF CopyInv, OneCopy
    <3>4. \A t \in Slots : ~Working(t, j)'
      <4>1. ~Working(s, j)' BY <1>0, <2>1, <2>6 DEF Working, Holds
      <4>2. \A t \in Slots : Working(t, j) => t = s
        BY <2>1, <3>1 DEF CopyInv, OneCopy
      <4> QED BY <2>1, <2>3, <4>1, <4>2
    <3>5. \A k \in Jobs : InFlight(k)' => InFlight(k)
      BY <2>1, <2>2, <2>3, <3>1, <3>3 DEF InFlight, InQueue
    <3>6. OneCopy'
      <4>1. \A t, u \in Slots, k \in Jobs : Working(t, k)' /\ Working(u, k)' => t = u
        BY <2>3 DEF CopyInv, OneCopy
      <4>2. \A t \in Slots, k \in Jobs : Working(t, k)' => ~InQueue(k)'
        <5> SUFFICES ASSUME NEW t \in Slots, NEW k \in Jobs, Working(t, k)'
                     PROVE  ~InQueue(k)'
          OBVIOUS
        <5>1. Working(t, k) /\ k # j BY <2>3, <3>4
        <5>2. ~InQueue(k) BY <5>1 DEF CopyInv, OneCopy
        <5> QED BY <3>3, <5>1, <5>2 DEF InQueue
      <4>3. ASSUME NEW k \in Jobs, api'[k] = "push"
            PROVE  ~InQueue(k)' /\ \A t \in Slots : ~Working(t, k)'
        <5>1. k # j /\ api[k] = "push" BY <2>2, <3>2, <4>3
        <5>2. ~InQueue(k) /\ \A t \in Slots : ~Working(t, k)
          BY <5>1 DEF CopyInv, OneCopy
        <5> QED BY <2>3, <3>3, <5>1, <5>2 DEF InQueue
      <4> QED BY <3>3, <4>1, <4>2, <4>3 DEF OneCopy
    <3> QED BY <2>2, <2>4, <2>6, <3>5, <3>6 DEF CopyInv, BoundedRequeue
  <2>7. queue' = queue \/ bumps' = bumps
    BY <2>0, <2>1 DEF StepShape
  <2> QED BY <2>0, <2>1, <2>5, <2>6, <2>7 DEF StepShape
<1> QED BY <1>1, <1>2 DEF SlotStep

\* So do the steps of the API, the sweepers, the purge and the environment.
LEMMA OtherStepCopies ==
  ASSUME CopyInv, TypeInv',
         \/ \E j \in Jobs : submit_receipt(j) \/ Age(j) \/ CrashApi(j) \/ CounterExpires(j)
         \/ \E w \in Workers : SweeperStep(w) \/ Crash(w)
         \/ \E h \in Hashes : CacheExpires(h)
         \/ Purge
         \/ UNCHANGED vars
  PROVE  CopyInv'
<1>0. /\ TypeInv /\ slots \in [Slots -> Slot] /\ queue \in Seq(Jobs) /\ NoJob \notin Jobs
      /\ bumps \in [Jobs -> Nat] /\ RequeueMax \in Nat
      /\ api \in [Jobs -> ApiSteps \union ApiAnswers]
  BY ConstantsAssumption DEF CopyInv, TypeInv, TypeOK
<1>1. CASE UNCHANGED <<queue, bumps, api, slots>>
  <2>1. OneCopy' /\ BoundedRequeue' /\ \A j \in Jobs : InFlight(j)' <=> InFlight(j)
    BY <1>1 DEF CopyInv, OneCopy, BoundedRequeue, InFlight, InQueue, Working, Holds
  <2> QED BY <1>1, <2>1 DEF CopyInv
<1>2. ASSUME NEW j \in Jobs, UNCHANGED <<queue, bumps, slots>>,
             NEW a \in ApiSteps \union ApiAnswers, Answer(j, a),
             a = "push" => api[j] = "create",
             a \in ApiSteps => api[j] \in ApiSteps,
             a \in BeforeRow => api[j] \in BeforeRow
      PROVE  CopyInv'
  <2>1. api'[j] = a /\ \A k \in Jobs : k # j => api'[k] = api[k]
    BY <1>0, <1>2 DEF Answer
  <2>2. \A t \in Slots, k \in Jobs : Working(t, k)' <=> Working(t, k)
    BY <1>2 DEF Working, Holds
  <2>3. \A k \in Jobs : InQueue(k)' <=> InQueue(k) BY <1>2 DEF InQueue
  <2>4. \A k \in Jobs : InFlight(k)' => InFlight(k) \/ (k = j /\ a = "push")
    BY <2>1, <2>2, <2>3 DEF InFlight
  <2>5. a = "push" => ~InFlight(j) /\ bumps[j] = 0
    BY <1>2 DEF CopyInv, BeforeRow, ApiSteps
  <2>6. OneCopy'
    BY <1>2, <2>1, <2>2, <2>3, <2>5 DEF CopyInv, OneCopy, InFlight
  <2>7. BoundedRequeue'
    BY <1>0, <1>2, <2>4, <2>5 DEF CopyInv, BoundedRequeue
  <2>8. \A k \in Jobs : api'[k] \in ApiSteps => bumps'[k] = 0
    BY <1>2, <2>1 DEF CopyInv
  <2>9. \A k \in Jobs : api'[k] \in BeforeRow => ~InFlight(k)'
    <3>1. ASSUME NEW k \in Jobs, api'[k] \in BeforeRow PROVE ~InFlight(k)'
      <4>1. api[k] \in BeforeRow /\ ~(k = j /\ a = "push")
        BY <1>2, <2>1, <3>1 DEF BeforeRow
      <4> QED BY <2>4, <4>1 DEF CopyInv
    <3> QED BY <3>1
  <2> QED BY <1>2, <2>6, <2>7, <2>8, <2>9 DEF CopyInv
<1>3. ASSUME NEW j \in Jobs, submit_receipt(j) PROVE CopyInv'
  <2>1. CASE SubmitBegin(j)
    BY <1>2, <2>1 DEF SubmitBegin, ApiSteps, BeforeRow
  <2>2. CASE SubmitCheck(j)
    BY <1>2, <2>2 DEF SubmitCheck, ApiSteps, ApiAnswers, BeforeRow
  <2>3. CASE SubmitCreate(j)
    BY <1>2, <2>3 DEF SubmitCreate, ApiSteps, ApiAnswers, BeforeRow
  <2>4. CASE SubmitPush(j)
    <3>1. PICK a \in {"202", "503"} : Answer(j, a)
      BY <2>4 DEF SubmitPush
    <3>2. /\ api[j] = "push" /\ UNCHANGED <<bumps, slots>>
          /\ queue' = queue \/ queue' = Append(queue, j)
      BY <2>4 DEF SubmitPush, push_to_queue
    <3>3. CASE queue' = queue
      BY <1>2, <3>1, <3>2, <3>3 DEF ApiSteps, ApiAnswers, BeforeRow
    <3>4. CASE queue' = Append(queue, j)
      <4>1. api'[j] = a /\ \A k \in Jobs : k # j => api'[k] = api[k]
        BY <1>0, <3>1 DEF Answer
      <4>2. /\ ~In(queue, j) /\ \A t \in Slots : ~Working(t, j)
            /\ bumps[j] = 0
        BY <3>2 DEF CopyInv, OneCopy, InQueue, ApiSteps
      <4>3. /\ \A k : In(queue', k) <=> In(queue, k) \/ k = j
            /\ NoDuplicates(queue')
        BY <1>0, <3>4, <4>2, AppendFacts DEF CopyInv, OneCopy
      <4>4. \A t \in Slots, k \in Jobs : Working(t, k)' <=> Working(t, k)
        BY <3>2 DEF Working, Holds
      <4>5. \A k \in Jobs : InFlight(k)' => InFlight(k)
        BY <3>1, <3>2, <4>1, <4>3, <4>4 DEF InFlight, InQueue
      <4>6. OneCopy'
        BY <3>1, <4>1, <4>2, <4>3, <4>4 DEF CopyInv, OneCopy, InQueue
      <4>7. \A k \in Jobs : api'[k] \in ApiSteps => bumps'[k] = 0
        BY <3>1, <3>2, <4>1, <4>2 DEF CopyInv
      <4>8. \A k \in Jobs : api'[k] \in BeforeRow => ~InFlight(k)'
        BY <3>1, <4>1, <4>5 DEF CopyInv, BeforeRow
      <4> QED BY <3>2, <4>5, <4>6, <4>7, <4>8 DEF CopyInv, BoundedRequeue
    <3> QED BY <3>2, <3>3, <3>4
  <2> QED BY <1>3, <2>1, <2>2, <2>3, <2>4 DEF submit_receipt
<1>4. ASSUME NEW j \in Jobs, CrashApi(j) PROVE CopyInv'
  BY <1>2, <1>4 DEF CrashApi, ApiSteps, ApiAnswers, BeforeRow
<1>5. ASSUME NEW j \in Jobs, CounterExpires(j) PROVE CopyInv'
  <2>1. UNCHANGED <<queue, api, slots>> /\ bumps' = [bumps EXCEPT ![j] = 0]
    BY <1>5 DEF CounterExpires
  <2>2. \A k \in Jobs : bumps'[k] \in {bumps[k], 0} BY <1>0, <2>1
  <2>3. OneCopy' /\ \A k \in Jobs : InFlight(k)' <=> InFlight(k)
    BY <2>1 DEF CopyInv, OneCopy, InFlight, InQueue, Working, Holds
  <2>4. BoundedRequeue'
    BY <1>0, <2>2, <2>3 DEF CopyInv, BoundedRequeue
  <2> QED BY <2>1, <2>2, <2>3, <2>4 DEF CopyInv
<1>6. ASSUME NEW w \in Workers, Crash(w) PROVE CopyInv'
  <2>1. /\ UNCHANGED <<queue, api, bumps>>
        /\ \A t \in Slots : slots'[t] \in {slots[t], IdleSlot}
    BY <1>0, <1>6 DEF Crash
  <2>2. \A t \in Slots, k \in Jobs : Working(t, k)' => Working(t, k)
    BY <1>0, <2>1 DEF Working, Holds, IdleSlot
  <2>3. \A t \in Slots : ~slots'[t].again
    BY <2>1 DEF CopyInv, IdleSlot
  <2>4. \A k \in Jobs : InFlight(k)' => InFlight(k)
    BY <2>1, <2>2 DEF InFlight, InQueue
  <2>5. OneCopy'
    BY <2>1, <2>2 DEF CopyInv, OneCopy, InQueue
  <2> QED BY <2>1, <2>3, <2>4, <2>5 DEF CopyInv, BoundedRequeue
<1>7. CASE \/ \E j \in Jobs : Age(j)
           \/ \E w \in Workers : SweeperStep(w)
           \/ \E h \in Hashes : CacheExpires(h)
           \/ Purge
           \/ UNCHANGED vars
  BY <1>1, <1>7 DEF Age, SweeperStep, SweepSelect, SweepFail, CacheExpires, Purge, vars
<1> QED BY <1>3, <1>4, <1>5, <1>6, <1>7

\* CopyInv is an invariant as long as bump_requeue_counter does not fail.
LEMMA CopyInvHolds ==
  ASSUME "bump" \notin Faults
  PROVE  Spec => []CopyInv
<1>1. Init /\ TypeInv => CopyInv
  BY ConstantsAssumption DEF Init, CopyInv, OneCopy, BoundedRequeue, InFlight, InQueue,
     In, NoDuplicates, Working, Holds, IdleSlot
<1>2. CopyInv /\ TypeInv' /\ [Next]_vars => CopyInv'
  <2>1. ASSUME CopyInv, TypeInv', Next PROVE CopyInv'
    BY <2>1, SlotStepCopies, OtherStepCopies DEF Next, Environment
  <2>2. ASSUME CopyInv, TypeInv', UNCHANGED vars PROVE CopyInv'
    BY <2>2, OtherStepCopies
  <2> QED BY <2>1, <2>2
<1>3. Spec => []TypeInv BY TypeCorrect DEF TypeInv
<1> QED BY <1>1, <1>2, <1>3, PTL DEF Spec

\* As long as the requeue counter can be bumped, no crash, lost message or
\* failed call makes a second message of a job: two slots never run one job.
THEOREM OneMessagePerJob ==
  ASSUME "bump" \notin Faults
  PROVE  Spec => []OneCopy
<1>1. CopyInv => OneCopy BY DEF CopyInv
<1> QED BY <1>1, CopyInvHolds, PTL

\* I8 for any REQUEUE_MAX: a job past the cap is never queued or run again.
THEOREM RequeueIsBounded ==
  ASSUME "bump" \notin Faults
  PROVE  Spec => []BoundedRequeue
<1>1. CopyInv => BoundedRequeue BY DEF CopyInv
<1> QED BY <1>1, CopyInvHolds, PTL

-----------------------------------------------------------------------------
(* The final answer.                                                       *)

\* The conditions under which a terminal status is final: staleness windows
\* that no job outlives while it is carried, and stores whose failed calls
\* were not applied (a failed bump is excluded because it duplicates).
Calm == Prompt /\ Faults \intersect {"bump", "pg_ambiguous", "push_ambiguous"} = {}

\* The row of a carried job is neither terminal nor stale nor about to be
\* swept, exactly one place carries it, and the sweepers only hold rows that
\* nobody else will write.
CalmInv ==
  /\ CopyInv
  /\ \A s, t \in Slots, j \in Jobs : Holds(s, j) /\ Holds(t, j) => s = t
  /\ \A s \in Slots, j \in Jobs : Holds(s, j) => ~InQueue(j) /\ api[j] # "push"
  /\ \A j \in Jobs : Carried(j) =>
       /\ rows[j].status \in NonTerminal /\ ~rows[j].old
       /\ \A w \in Workers : j \notin sweeping[w]
  /\ \A j \in Jobs : api[j] \in BeforeRow => ~Carried(j) /\ rows[j].status = "absent"
  /\ \A w \in Workers : \A j \in sweeping[w] :
       rows[j].status \notin {"SUCCEEDED", "FAILED_PERMANENT"} /\ api[j] \notin BeforeRow

\* What a step of slot s does to the row of its job, when the stores are calm.
RowShape(s) ==
  /\ sweeping' = sweeping
  /\ \A k \in Jobs : k # slots[s].job => rows'[k] = rows[k]
  /\ LET row == rows'[slots[s].job] IN
     \/ row.status \in NonTerminal /\ ~row.old
     \/ row.status \in Terminal /\ queue' = queue /\ slots'[s].job = NoJob
  /\ queue' # queue => slots'[s].job = NoJob

\* Every stage of the lifecycle has that shape too. (execute_task_lifecycle)
LEMMA StepHasRowShape ==
  ASSUME Calm, CalmInv, NEW s \in Slots, execute_task_lifecycle(s), TypeInv'
  PROVE  RowShape(s)
<1>0. TypeInv /\ CopyInv /\ "bump" \notin Faults /\ "pg_ambiguous" \notin Faults
      /\ "push_ambiguous" \notin Faults
  BY DEF CalmInv, CopyInv, Calm
<1>1. StepShape(s) /\ slots[s].pc \in Stages
  BY <1>0, StepHasShape DEF CopyInv
<1>2. PICK j \in Jobs : j = slots[s].job
  BY <1>0, <1>1 DEF TypeInv, HeldJobs
<1>3. rows[j] \in Row /\ rows \in [Jobs -> Row] /\ slots \in [Slots -> Slot]
  BY <1>0 DEF TypeInv, TypeOK
<1>4. rows[j].status \in NonTerminal /\ ~rows[j].old
  BY <1>2 DEF CalmInv, Carried, Holds
<1>5. rows[j].status # "absent" BY <1>4 DEF NonTerminal
<1>6. Release(s) => slots'[s].job = NoJob
  BY <1>3 DEF Release, IdleSlot
<1>7. \A row : \A o \in PgOutcomes : PgUpdate(j, row, o) =>
        /\ \A k \in Jobs : k # j => rows'[k] = rows[k]
        /\ o = "ok" => rows'[j] = row
        /\ o # "ok" => rows' = rows
  BY <1>0, <1>3 DEF PgUpdate, Call, Spend, Applied, PgOutcomes
<1>8. sweeping' = sweeping
  BY DEF execute_task_lifecycle, ReadRecord, MarkProcessing, Download,
     RecordPhash, CacheLookup, Detect, StoreRaw, Persist, BumpOrOrphan, YieldTouch,
     YieldPush, Fail, Acquire, ExtractLimited, ExtractDone
<1>9. \A given : LET row == update_job_status(rows[j], "PROCESSING", given) IN
        row.status \in NonTerminal /\ ~row.old
  BY <1>5 DEF update_job_status, NonTerminal
<1>10. CASE UNCHANGED <<rows, queue>>
  BY <1>2, <1>4, <1>8, <1>10 DEF RowShape
<1>11. CASE MarkProcessing(s)
  BY <1>2, <1>4, <1>7, <1>8, <1>9, <1>11 DEF MarkProcessing, RowShape
<1>12. CASE RecordPhash(s)
  BY <1>2, <1>4, <1>7, <1>8, <1>9, <1>12 DEF RecordPhash, RowShape
<1>13. CASE YieldTouch(s)
  <2>1. touch_updated_at(rows[j]).status \in NonTerminal /\ ~touch_updated_at(rows[j]).old
    BY <1>3, <1>4 DEF touch_updated_at, Row
  <2> QED BY <1>2, <1>4, <1>7, <1>8, <1>13, <2>1 DEF YieldTouch, RowShape
<1>14. CASE YieldPush(s)
  <2>1. \A o \in PushOutcomes : push_to_queue(j, o) => (o # "ok" => queue' = queue)
    BY <1>0 DEF push_to_queue, Call, Spend, Applied, PushOutcomes
  <2>2. rows' = rows /\ (queue' # queue => Release(s))
    BY <1>0, <1>2, <1>14, <2>1 DEF YieldPush, CopyInv
  <2> QED BY <1>2, <1>4, <1>6, <1>8, <2>2 DEF RowShape
<1>15. CASE Persist(s)
  <2>1. queue' = queue BY <1>15 DEF Persist
  <2>2. CASE j \in Unstorable
    BY <1>2, <1>10, <1>15, <2>1, <2>2 DEF Persist
  <2>3. CASE j \notin Unstorable
    <3>1. PICK o \in PgOutcomes :
            /\ PgUpdate(j, update_job_status(rows[j], "SUCCEEDED", "result"), o)
            /\ IF o = "ok" THEN Release(s) ELSE Goto(s, "touch")
      BY <1>2, <1>15, <2>3 DEF Persist
    <3>2. update_job_status(rows[j], "SUCCEEDED", "result").status = "SUCCEEDED"
      BY <1>5 DEF update_job_status
    <3> QED BY <1>2, <1>4, <1>6, <1>7, <1>8, <2>1, <3>1, <3>2 DEF RowShape, Terminal
  <2> QED BY <2>2, <2>3
<1>16. CASE Fail(s)
  <2> DEFINE code == slots[s].verdict
  <2>1. PICK o \in PgOutcomes :
          PgUpdate(j, update_job_status(rows[j], FailStatus(code), code), o)
    BY <1>2, <1>16 DEF Fail
  <2>2. update_job_status(rows[j], FailStatus(code), code).status \in Terminal
    BY <1>5 DEF update_job_status, FailStatus, Terminal, Failed
  <2>3. queue' = queue /\ Release(s) BY <1>16 DEF Fail
  <2> QED BY <1>2, <1>4, <1>6, <1>7, <1>8, <2>1, <2>2, <2>3 DEF RowShape
<1> QED BY <1>10, <1>11, <1>12, <1>13, <1>14, <1>15, <1>16 DEF execute_task_lifecycle,
     ReadRecord, Download, CacheLookup, Detect, StoreRaw, BumpOrOrphan, Acquire,
     ExtractLimited, ExtractDone

\* The steps of a slot keep CalmInv.
LEMMA SlotStepCalm ==
  ASSUME Calm, CalmInv, NEW s \in Slots, SlotStep(s), TypeInv', CopyInv'
  PROVE  CalmInv'
<1>0. /\ TypeInv /\ CopyInv /\ slots \in [Slots -> Slot] /\ queue \in Seq(Jobs)
      /\ NoJob \notin Jobs /\ "bump" \notin Faults
  BY ConstantsAssumption DEF CalmInv, CopyInv, Calm, TypeInv, TypeOK
<1>1. CASE pop_from_queue(s)
  <2>1. /\ slots[s].pc = "idle" /\ slots[s].job \notin Jobs
        /\ UNCHANGED <<api, rows, sweeping>>
    BY <1>0, <1>1 DEF pop_from_queue, At, TypeInv, HeldJobs, Stages
  <2>2. ASSUME \A k \in Jobs : Carried(k)' => Carried(k),
               \A t, u \in Slots, k \in Jobs : Holds(t, k)' /\ Holds(u, k)' => t = u,
               \A t \in Slots, k \in Jobs : Holds(t, k)' => ~InQueue(k)' /\ api[k] # "push"
        PROVE  CalmInv'
    BY <2>1, <2>2 DEF CalmInv
  <2>3. CASE queue # <<>> /\ queue' = Tail(queue)
             /\ slots' = [slots EXCEPT ![s].pc = "read", ![s].job = Head(queue)]
    <3>1. PICK h \in Jobs : h = Head(queue) BY <1>0, <2>3, TailFacts
    <3>2. /\ In(queue, h)
          /\ \A k : In(queue', k) => In(queue, k)
          /\ ~In(queue', h)
      BY <1>0, <2>3, <3>1, TailFacts DEF CopyInv, OneCopy
    <3>3. /\ \A t \in Slots : t # s => slots'[t] = slots[t]
          /\ slots'[s].job = h
      BY <1>0, <2>3, <3>1 DEF Slot
    <3>4. \A t \in Slots : ~Holds(t, h) BY <3>1, <3>2 DEF CalmInv, InQueue
    <3>5. api[h] # "push" BY <1>0, <3>1, <3>2 DEF CopyInv, OneCopy, InQueue
    <3>6. \A k \in Jobs : Carried(k)' => Carried(k)
      BY <2>1, <3>1, <3>2, <3>3 DEF Carried, InQueue, Holds
    <3>7. \A t \in Slots, k \in Jobs : Holds(t, k)' => (t = s /\ k = h) \/ (t # s /\ Holds(t, k))
      BY <3>3 DEF Holds
    <3>8. \A t, u \in Slots, k \in Jobs : Holds(t, k)' /\ Holds(u, k)' => t = u
      BY <3>4, <3>7 DEF CalmInv
    <3>9. \A t \in Slots, k \in Jobs : Holds(t, k)' => ~InQueue(k)' /\ api[k] # "push"
      BY <3>2, <3>5, <3>7 DEF CalmInv, InQueue
    <3> QED BY <2>2, <3>6, <3>8, <3>9
  <2>4. CASE queue # <<>> /\ queue' = Tail(queue) /\ UNCHANGED slots
    <3>1. \A k : In(queue', k) => In(queue, k) BY <1>0, <2>4, TailFacts
    <3> QED BY <2>1, <2>2, <2>4, <3>1 DEF CalmInv, Carried, InQueue, Holds
  <2>5. CASE UNCHANGED queue /\ Goto(s, "dead")
    <3>1. \A t \in Slots, k \in Jobs : Holds(t, k)' => Holds(t, k)
      BY <1>0, <2>1, <2>5 DEF Goto, Slot, Holds
    <3> QED BY <2>1, <2>2, <2>5, <3>1 DEF CalmInv, Carried, InQueue
  <2> QED BY <1>1, <2>3, <2>4, <2>5 DEF pop_from_queue
<1>2. CASE execute_task_lifecycle(s)
  <2>0. StepShape(s) /\ RowShape(s) /\ slots[s].pc \in Stages /\ slots[s].job \in Jobs
    BY <1>0, <1>2, StepHasShape, StepHasRowShape DEF CopyInv, TypeInv, HeldJobs
  <2>1. PICK j \in Jobs : j = slots[s].job BY <2>0
  <2>2. /\ \A t \in Slots : t # s => slots'[t] = slots[t]
        /\ slots'[s].job \in {j, NoJob} /\ api' = api /\ sweeping' = sweeping
        /\ \A k \in Jobs : k # j => rows'[k] = rows[k]
    BY <2>0, <2>1 DEF StepShape, RowShape
  <2>3. \A t \in Slots, k \in Jobs : Holds(t, k)' => Holds(t, k)
    BY <1>0, <2>1, <2>2 DEF Holds
  <2>4. Holds(s, j) /\ Carried(j) BY <2>1 DEF Holds, Carried
  <2>5. /\ ~InQueue(j) /\ api[j] # "push" /\ api[j] \notin BeforeRow
        /\ \A t \in Slots : Holds(t, j) => t = s
        /\ \A w \in Workers : j \notin sweeping[w]
    BY <2>1, <2>4 DEF CalmInv
  <2>6. /\ queue' = queue \/ (queue' = Append(queue, j) /\ slots'[s].job = NoJob)
        /\ \/ rows'[j].status \in NonTerminal /\ ~rows'[j].old
           \/ rows'[j].status \in Terminal /\ queue' = queue /\ slots'[s].job = NoJob
    BY <2>0, <2>1 DEF StepShape, RowShape
  <2>7. /\ \A k \in Jobs : k # j => (InQueue(k)' <=> InQueue(k))
        /\ InQueue(j)' => slots'[s].job = NoJob /\ queue' # queue
    <3>1. CASE queue' = queue BY <2>5, <3>1 DEF InQueue
    <3>2. CASE queue' = Append(queue, j) /\ slots'[s].job = NoJob
      <4>1. \A k : In(queue', k) <=> In(queue, k) \/ k = j
        BY <1>0, <3>2, AppendFacts
      <4> QED BY <2>5, <3>2, <4>1 DEF InQueue
    <3> QED BY <2>6, <3>1, <3>2
  <2>8. \A k \in Jobs : Carried(k)' => Carried(k)
    BY <2>2, <2>3, <2>4, <2>7 DEF Carried
  <2>9. \A t, u \in Slots, k \in Jobs : Holds(t, k)' /\ Holds(u, k)' => t = u
    BY <2>3 DEF CalmInv
  <2>10. ASSUME NEW t \in Slots, NEW k \in Jobs, Holds(t, k)'
         PROVE  ~InQueue(k)' /\ api'[k] # "push"
    <3>1. Holds(t, k) /\ ~InQueue(k) /\ api'[k] # "push"
      BY <2>2, <2>3, <2>10 DEF CalmInv
    <3>2. CASE k # j BY <2>7, <3>1, <3>2
    <3>3. CASE k = j
      <4>1. t = s /\ slots'[s].job # NoJob
        BY <1>0, <2>5, <2>10, <3>1, <3>3 DEF Holds
      <4> QED BY <2>7, <3>1, <3>3, <4>1
    <3> QED BY <3>2, <3>3
  <2>11. ASSUME NEW k \in Jobs, Carried(k)'
         PROVE  /\ rows'[k].status \in NonTerminal /\ ~rows'[k].old
                /\ \A w \in Workers : k \notin sweeping'[w]
    <3>1. CASE k # j BY <2>2, <2>8, <2>11, <3>1 DEF CalmInv
    <3>2. CASE k = j
      <4>1. ~(queue' = queue /\ slots'[s].job = NoJob)
        BY <1>0, <2>2, <2>3, <2>5, <2>11, <3>2 DEF Carried, Holds, InQueue
      <4> QED BY <2>2, <2>5, <2>6, <3>2, <4>1
    <3> QED BY <3>1, <3>2
  <2>12. \A k \in Jobs : api'[k] \in BeforeRow => ~Carried(k)' /\ rows'[k].status = "absent"
    BY <2>2, <2>5, <2>8 DEF CalmInv
  <2>13. \A w \in Workers : \A k \in sweeping'[w] :
           rows'[k].status \notin {"SUCCEEDED", "FAILED_PERMANENT"} /\ api'[k] \notin BeforeRow
    <3>1. \A w \in Workers : \A k \in sweeping[w] : k \in Jobs BY <1>0 DEF TypeInv, TypeOK
    <3> QED BY <2>2, <2>5, <3>1 DEF CalmInv
  <2> QED BY <2>9, <2>10, <2>11, <2>12, <2>13 DEF CalmInv
<1> QED BY <1>1, <1>2 DEF SlotStep

\* So do the steps of the API, the sweepers, the purge and the environment.
LEMMA OtherStepCalm ==
  ASSUME Calm, CalmInv, TypeInv', CopyInv',
         \/ \E j \in Jobs : submit_receipt(j) \/ Age(j) \/ CrashApi(j) \/ CounterExpires(j)
         \/ \E w \in Workers : SweeperStep(w) \/ Crash(w)
         \/ \E h \in Hashes : CacheExpires(h)
         \/ Purge
         \/ UNCHANGED vars
  PROVE  CalmInv'
<1>0. /\ TypeInv /\ CopyInv /\ slots \in [Slots -> Slot] /\ queue \in Seq(Jobs)
      /\ NoJob \notin Jobs /\ rows \in [Jobs -> Row] /\ sweeping \in [Workers -> SUBSET Jobs]
      /\ api \in [Jobs -> ApiSteps \union ApiAnswers]
  BY ConstantsAssumption DEF CalmInv, CopyInv, TypeInv, TypeOK
<1>o. \A o \in PgOutcomes : Call(o) => (o = "ok" <=> Applied(o))
  BY DEF Calm, Call, Spend, Applied, PgOutcomes
\* Steps that leave queue and slots alone.
<1>f. ASSUME UNCHANGED <<queue, slots>>
      PROVE  /\ \A t \in Slots, k \in Jobs : Holds(t, k)' <=> Holds(t, k)
             /\ \A k \in Jobs : InQueue(k)' <=> InQueue(k)
             /\ \A k \in Jobs : api'[k] = api[k] \/ (api'[k] # "push") =>
                                  (Carried(k)' => Carried(k))
  BY <1>f DEF Holds, InQueue, Carried
<1>1. CASE UNCHANGED <<queue, api, slots, rows, sweeping>>
  <2>1. \A k \in Jobs : Carried(k)' <=> Carried(k) BY <1>1 DEF Carried, InQueue, Holds
  <2> QED BY <1>1, <1>f, <2>1 DEF CalmInv
<1>2. ASSUME NEW j \in Jobs, UNCHANGED <<queue, slots, rows, sweeping>>,
             NEW a \in (ApiSteps \union ApiAnswers) \ {"push"}, Answer(j, a),
             a \in BeforeRow => api[j] \in BeforeRow
      PROVE  CalmInv'
  <2>1. api'[j] = a /\ \A k \in Jobs : k # j => api'[k] = api[k]
    BY <1>0, <1>2 DEF Answer
  <2>2. \A k \in Jobs : /\ Carried(k)' => Carried(k)
                        /\ api'[k] = "push" => api[k] = "push"
                        /\ api'[k] \in BeforeRow => api[k] \in BeforeRow
    BY <1>2, <1>f, <2>1
  <2> QED BY <1>0, <1>2, <1>f, <2>2 DEF CalmInv
<1>3. ASSUME NEW j \in Jobs, submit_receipt(j) PROVE CalmInv'
  <2>1. CASE SubmitBegin(j)
    BY <1>2, <2>1 DEF SubmitBegin, ApiSteps, BeforeRow
  <2>2. CASE SubmitCheck(j)
    BY <1>2, <2>2 DEF SubmitCheck, ApiSteps, ApiAnswers, BeforeRow
  <2>3. CASE SubmitCreate(j)
    <3>1. PICK o \in PgOutcomes :
            /\ PgUpdate(j, [AbsentRow EXCEPT !.status = "PENDING"], o)
            /\ Answer(j, IF o = "ok" THEN "push" ELSE "503")
      BY <2>3 DEF SubmitCreate
    <3>2. UNCHANGED <<queue, slots, sweeping>> /\ api[j] = "create"
      BY <2>3 DEF SubmitCreate
    <3>3. CASE o # "ok"
      <4>1. rows' = rows BY <1>o, <3>1, <3>3 DEF PgUpdate
      <4> QED BY <1>2, <3>1, <3>2, <3>3, <4>1 DEF ApiAnswers, BeforeRow
    <3>4. CASE o = "ok"
      <4>1. /\ api'[j] = "push" /\ \A k \in Jobs : k # j => api'[k] = api[k]
            /\ \A k \in Jobs : k # j => rows'[k] = rows[k]
            /\ rows'[j].status = "PENDING" /\ ~rows'[j].old
        <5>1. rows'[j] = [AbsentRow EXCEPT !.status = "PENDING"]
              /\ \A k \in Jobs : k # j => rows'[k] = rows[k]
          BY <1>0, <3>1, <3>4, <1>o DEF PgUpdate
        <5>2. api' = [api EXCEPT ![j] = "push"] BY <3>1, <3>4 DEF Answer
        <5> QED BY <1>0, <5>1, <5>2 DEF AbsentRow
      <4>2. ~Carried(j) /\ \A w \in Workers : j \notin sweeping[w]
        BY <3>2 DEF CalmInv, BeforeRow
      <4>3. \A k \in Jobs : Carried(k)' => Carried(k) \/ k = j
        BY <1>f, <3>2, <4>1
      <4>4. \A t \in Slots, k \in Jobs : Holds(t, k)' => ~InQueue(k)' /\ api'[k] # "push"
        BY <1>f, <3>2, <4>1, <4>2 DEF CalmInv, Carried
      <4>5. \A k \in Jobs : Carried(k)' =>
              /\ rows'[k].status \in NonTerminal /\ ~rows'[k].old
              /\ \A w \in Workers : k \notin sweeping'[w]
        BY <3>2, <4>1, <4>2, <4>3 DEF CalmInv, NonTerminal
      <4>6. \A k \in Jobs : api'[k] \in BeforeRow => ~Carried(k)' /\ rows'[k].status = "absent"
        BY <4>1, <4>3 DEF CalmInv, BeforeRow
      <4>7. \A w \in Workers : \A k \in sweeping'[w] :
              rows'[k].status \notin {"SUCCEEDED", "FAILED_PERMANENT"} /\ api'[k] \notin BeforeRow
        BY <1>0, <3>2, <4>1, <4>2 DEF CalmInv
      <4> QED BY <1>f, <3>2, <4>4, <4>5, <4>6, <4>7 DEF CalmInv
    <3> QED BY <3>3, <3>4
  <2>4. CASE SubmitPush(j)
    <3>1. PICK a \in {"202", "503"} : Answer(j, a)
      BY <2>4 DEF SubmitPush
    <3>2. /\ api[j] = "push" /\ UNCHANGED <<rows, slots, sweeping>>
          /\ queue' = queue \/ queue' = Append(queue, j)
      BY <2>4 DEF SubmitPush, push_to_queue
    <3>3. CASE queue' = queue
      BY <1>2, <3>1, <3>2, <3>3 DEF ApiSteps, ApiAnswers, BeforeRow
    <3>4. CASE queue' = Append(queue, j)
      <4>1. api'[j] = a /\ \A k \in Jobs : k # j => api'[k] = api[k]
        BY <1>0, <3>1 DEF Answer
      <4>2. \A k : In(queue', k) <=> In(queue, k) \/ k = j
        BY <1>0, <3>4, AppendFacts
      <4>3. \A t \in Slots, k \in Jobs : Holds(t, k)' <=> Holds(t, k)
        BY <3>2 DEF Holds
      <4>4. Carried(j) /\ \A t \in Slots : ~Holds(t, j)
        BY <3>2 DEF CalmInv, Carried
      <4>5. \A k \in Jobs : Carried(k)' => Carried(k)
        BY <3>1, <4>1, <4>2, <4>3, <4>4 DEF Carried, InQueue
      <4>6. \A t \in Slots, k \in Jobs : Holds(t, k)' => ~InQueue(k)' /\ api'[k] # "push"
        BY <3>1, <4>1, <4>2, <4>3, <4>4 DEF CalmInv, InQueue
      <4>7. \A k \in Jobs : api'[k] \in BeforeRow => api[k] \in BeforeRow
        BY <3>1, <4>1 DEF BeforeRow
      <4> QED BY <1>0, <3>2, <4>3, <4>5, <4>6, <4>7 DEF CalmInv
    <3> QED BY <3>2, <3>3, <3>4
  <2> QED BY <1>3, <2>1, <2>2, <2>3, <2>4 DEF submit_receipt
<1>4. ASSUME NEW j \in Jobs, CrashApi(j) PROVE CalmInv'
  BY <1>2, <1>4 DEF CrashApi, ApiSteps, ApiAnswers, BeforeRow
<1>5. ASSUME NEW j \in Jobs, Age(j) PROVE CalmInv'
  <2>1. /\ ~Carried(j) /\ UNCHANGED <<queue, slots, api, sweeping>>
        /\ rows' = [rows EXCEPT ![j].old = TRUE]
    BY <1>5 DEF Age, Calm
  <2>2. \A k \in Jobs : rows'[k].status = rows[k].status /\ (k # j => rows'[k] = rows[k])
    BY <1>0, <2>1 DEF Row
  <2>3. \A k \in Jobs : Carried(k)' => Carried(k) /\ k # j
    BY <2>1 DEF Carried, InQueue, Holds
  <2> QED BY <1>0, <1>f, <2>1, <2>2, <2>3 DEF CalmInv
<1>6. ASSUME NEW w \in Workers, SweepSelect(w) PROVE CalmInv'
  <2>1. /\ UNCHANGED <<queue, slots, api, rows>>
        /\ \A v \in Workers : \A k \in sweeping'[v] :
             k \in sweeping[v] \/ (k \in Jobs /\ rows[k].status \in NonTerminal /\ rows[k].old)
        /\ \A v \in Workers : sweeping'[v] \subseteq Jobs
    BY <1>0, <1>6 DEF SweepSelect, Stale
  <2>2. \A k \in Jobs : Carried(k)' => Carried(k) BY <2>1 DEF Carried, InQueue, Holds
  <2>3. \A k \in Jobs : Carried(k)' => \A v \in Workers : k \notin sweeping'[v]
    BY <2>1, <2>2 DEF CalmInv
  <2>4. \A v \in Workers : \A k \in sweeping'[v] :
          rows'[k].status \notin {"SUCCEEDED", "FAILED_PERMANENT"} /\ api'[k] \notin BeforeRow
    BY <1>0, <2>1 DEF CalmInv, NonTerminal
  <2> QED BY <1>f, <2>1, <2>2, <2>3, <2>4 DEF CalmInv
<1>7. ASSUME NEW w \in Workers, NEW j \in Jobs, SweepFail(w, j) PROVE CalmInv'
  <2>1. PICK o \in PgOutcomes :
          PgUpdate(j, update_job_status(rows[j], "FAILED_TRANSIENT", "stale_timeout"), o)
    BY <1>7 DEF SweepFail
  <2>2. /\ UNCHANGED <<queue, slots, api>> /\ j \in sweeping[w]
        /\ \A v \in Workers : sweeping'[v] \subseteq sweeping[v]
    BY <1>0, <1>7 DEF SweepFail
  <2>3. /\ \A k \in Jobs : k # j => rows'[k] = rows[k]
        /\ rows'[j].status \in {rows[j].status, "FAILED_TRANSIENT"}
        /\ rows[j].status = "absent" => rows'[j].status = "absent"
    BY <1>0, <2>1 DEF PgUpdate, update_job_status
  <2>4. ~Carried(j) /\ api[j] \notin BeforeRow
        /\ rows'[j].status \notin {"SUCCEEDED", "FAILED_PERMANENT"}
    BY <2>2, <2>3 DEF CalmInv
  <2>5. \A k \in Jobs : Carried(k)' => Carried(k) /\ k # j
    BY <2>2, <2>4 DEF Carried, InQueue, Holds
  <2>6. \A k \in Jobs : Carried(k)' =>
          /\ rows'[k].status \in NonTerminal /\ ~rows'[k].old
          /\ \A v \in Workers : k \notin sweeping'[v]
    BY <2>2, <2>3, <2>5 DEF CalmInv
  <2>7. \A k \in Jobs : api'[k] \in BeforeRow => ~Carried(k)' /\ rows'[k].status = "absent"
    BY <2>2, <2>3, <2>4, <2>5 DEF CalmInv
  <2>8. \A v \in Workers : \A k \in sweeping'[v] :
          rows'[k].status \notin {"SUCCEEDED", "FAILED_PERMANENT"} /\ api'[k] \notin BeforeRow
    BY <1>0, <2>2, <2>3, <2>4 DEF CalmInv
  <2> QED BY <1>f, <2>2, <2>6, <2>7, <2>8 DEF CalmInv
<1>8. CASE Purge
  <2>0. AbsentRow.status = "absent" BY DEF AbsentRow
  <2>1. /\ UNCHANGED <<queue, slots, api, sweeping>>
        /\ \A k \in Jobs : \/ rows'[k] = rows[k]
                           \/ rows[k].status \in Terminal /\ rows'[k].status = "absent"
    BY <1>8, <2>0 DEF Purge, Expired
  <2>2. \A k \in Jobs : Carried(k)' => Carried(k) BY <2>1 DEF Carried, InQueue, Holds
  <2>3. \A k \in Jobs : Carried(k) => rows'[k] = rows[k]
    BY <2>1 DEF CalmInv, Terminal, NonTerminal, Failed
  <2> QED BY <1>0, <1>f, <2>1, <2>2, <2>3 DEF CalmInv
<1>9. ASSUME NEW w \in Workers, Crash(w) PROVE CalmInv'
  <2>1. /\ UNCHANGED <<queue, api, rows>>
        /\ \A t \in Slots : slots'[t] \in {slots[t], IdleSlot}
        /\ \A v \in Workers : sweeping'[v] \subseteq sweeping[v]
    BY <1>0, <1>9 DEF Crash
  <2>2. \A t \in Slots, k \in Jobs : Holds(t, k)' => Holds(t, k)
    <3>1. IdleSlot.job \notin Jobs BY <1>0 DEF IdleSlot
    <3> QED BY <2>1, <3>1 DEF Holds
  <2>3. \A k \in Jobs : Carried(k)' => Carried(k)
    BY <2>1, <2>2 DEF Carried, InQueue
  <2> QED BY <1>0, <2>1, <2>2, <2>3 DEF CalmInv, InQueue
<1>10. CASE (\E j \in Jobs : CounterExpires(j)) \/ (\E h \in Hashes : CacheExpires(h))
            \/ UNCHANGED vars
  BY <1>1, <1>10 DEF CounterExpires, CacheExpires, vars
<1> QED BY <1>3, <1>4, <1>5, <1>6, <1>7, <1>8, <1>9, <1>10 DEF SweeperStep

\* CalmInv is an invariant under Calm.
LEMMA CalmInvHolds ==
  ASSUME Calm
  PROVE  Spec => []CalmInv
<1>0. "bump" \notin Faults BY DEF Calm
<1>1. Init /\ CopyInv => CalmInv
  BY ConstantsAssumption DEF Init, CalmInv, Carried, InQueue, In, Holds, IdleSlot, AbsentRow
<1>2. CalmInv /\ TypeInv' /\ CopyInv' /\ [Next]_vars => CalmInv'
  <2>1. ASSUME CalmInv, TypeInv', CopyInv', Next PROVE CalmInv'
    BY <2>1, SlotStepCalm, OtherStepCalm DEF Next, Environment
  <2>2. ASSUME CalmInv, TypeInv', CopyInv', UNCHANGED vars PROVE CalmInv'
    BY <2>2, OtherStepCalm
  <2> QED BY <2>1, <2>2
<1>3. Spec => []TypeInv BY TypeCorrect DEF TypeInv
<1>4. Spec => []CopyInv BY <1>0, CopyInvHolds
<1> QED BY <1>1, <1>2, <1>3, <1>4, PTL DEF Spec

\* One status at a time: what a step may do to the status of a row.
OneRowMoves(j) ==
  /\ \A k \in Jobs : k # j => rows'[k] = rows[k]
  /\ \/ rows'[j].status = rows[j].status
     \/ rows[j].status = "absent" /\ rows'[j].status = "PENDING"
     \/ rows[j].status \in NonTerminal /\ rows'[j].status \in NonTerminal \union Terminal

RowsPurged ==
  \A k \in Jobs : \/ rows'[k] = rows[k]
                  \/ rows[k].status \in Terminal /\ rows'[k].status = "absent"

\* Under Calm every step moves at most one row, or purges. (every UPDATE of jobs)
LEMMA RowsMove ==
  ASSUME Calm, CalmInv, TypeInv', [Next]_vars
  PROVE  (\E j \in Jobs : OneRowMoves(j)) \/ RowsPurged
<1>0. /\ TypeInv /\ CopyInv /\ "bump" \notin Faults
      /\ rows \in [Jobs -> Row] /\ sweeping \in [Workers -> SUBSET Jobs]
  BY DEF CalmInv, CopyInv, Calm, TypeInv, TypeOK
<1>1. CASE rows' = rows BY <1>1 DEF RowsPurged
<1>2. ASSUME NEW j \in Jobs, SubmitCreate(j) PROVE rows' = rows \/ OneRowMoves(j)
  <2>1. rows[j].status = "absent"
    BY <1>2 DEF SubmitCreate, CalmInv, BeforeRow
  <2>2. PICK o \in PgOutcomes : PgUpdate(j, [AbsentRow EXCEPT !.status = "PENDING"], o)
    BY <1>2 DEF SubmitCreate
  <2> QED BY <1>0, <2>1, <2>2 DEF PgUpdate, AbsentRow, OneRowMoves
<1>3. ASSUME NEW s \in Slots, execute_task_lifecycle(s)
      PROVE  \E j \in Jobs : OneRowMoves(j)
  <2>1. StepShape(s) /\ RowShape(s) /\ slots[s].pc \in Stages /\ slots[s].job \in Jobs
    BY <1>0, <1>3, StepHasShape, StepHasRowShape DEF CopyInv, TypeInv, HeldJobs
  <2>2. PICK j \in Jobs : j = slots[s].job BY <2>1
  <2>3. rows[j].status \in NonTerminal BY <2>2 DEF CalmInv, Carried, Holds
  <2>4. OneRowMoves(j) BY <2>1, <2>2, <2>3 DEF RowShape, OneRowMoves
  <2> QED BY <2>4
<1>4. ASSUME NEW w \in Workers, NEW j \in Jobs, SweepFail(w, j) PROVE OneRowMoves(j)
  <2>1. PICK o \in PgOutcomes :
          PgUpdate(j, update_job_status(rows[j], "FAILED_TRANSIENT", "stale_timeout"), o)
    BY <1>4 DEF SweepFail
  <2>2. rows[j].status \in NonTerminal \union {"absent", "FAILED_TRANSIENT"}
    <3>1. rows[j].status \notin {"SUCCEEDED", "FAILED_PERMANENT"}
      BY <1>4 DEF SweepFail, CalmInv
    <3> QED BY <1>0, <3>1 DEF Row, Terminal, Failed
  <2>3. /\ \A k \in Jobs : k # j => rows'[k] = rows[k]
        /\ \/ rows'[j] = rows[j]
           \/ rows[j].status # "absent" /\ rows'[j].status = "FAILED_TRANSIENT"
    BY <1>0, <2>1 DEF PgUpdate, update_job_status
  <2> QED BY <2>2, <2>3 DEF OneRowMoves, Terminal, Failed
<1>5. CASE Purge
  <2>1. AbsentRow.status = "absent" BY DEF AbsentRow
  <2> QED BY <1>5, <2>1 DEF Purge, Expired, RowsPurged
<1>6. ASSUME NEW j \in Jobs, Age(j) PROVE OneRowMoves(j)
  BY <1>0, <1>6 DEF Age, OneRowMoves, Row
<1>7. \/ rows' = rows
      \/ \E j \in Jobs : SubmitCreate(j) \/ Age(j)
      \/ \E s \in Slots : execute_task_lifecycle(s)
      \/ \E w \in Workers, j \in Jobs : SweepFail(w, j)
      \/ Purge
  BY DEF Next, vars, submit_receipt, SubmitBegin, SubmitCheck, SubmitPush, SlotStep,
     pop_from_queue, SweeperStep, SweepSelect, Environment, CrashApi, CounterExpires,
     CacheExpires, Crash
<1> QED BY <1>1, <1>2, <1>3, <1>4, <1>5, <1>6, <1>7

\* The terminal states are final under Calm: an answer 200, 422 or 503 to a
\* poll is repeated for ever, or until the purge. (architecture.md, 5.1)
THEOREM TerminalIsFinal ==
  ASSUME Calm
  PROVE  Spec => FinalAnswer
<1>1. CalmInv /\ TypeInv' /\ [Next]_vars =>
        [\A j \in Jobs : get_receipt(rows[j]) \in {"200", "422", "503"} =>
           get_receipt(rows'[j]) \in {get_receipt(rows[j]), "404"}]_vars
  <2> SUFFICES ASSUME CalmInv, TypeInv', [Next]_vars, NEW j \in Jobs,
                      get_receipt(rows[j]) \in {"200", "422", "503"}
               PROVE  get_receipt(rows'[j]) \in {get_receipt(rows[j]), "404"}
    OBVIOUS
  <2>1. (\E i \in Jobs : OneRowMoves(i)) \/ RowsPurged BY RowsMove
  <2>2. rows[j].status \notin NonTerminal /\ rows[j].status # "absent"
    BY DEF get_receipt, NonTerminal
  <2>3. rows'[j].status \in {rows[j].status, "absent"}
    BY <2>1, <2>2 DEF OneRowMoves, RowsPurged
  <2> QED BY <2>3 DEF get_receipt, NonTerminal
<1>2. Spec => []TypeInv BY TypeCorrect DEF TypeInv
<1> QED BY <1>1, <1>2, CalmInvHolds, PTL DEF Spec, FinalAnswer

\* Under Calm the whole system, with its queue, slots, crashes and sweepers,
\* implements the contract of JobContract.
THEOREM ImplementsJobContract ==
  ASSUME Calm
  PROVE  Spec => ImplementsContract
<1> DEFINE poll == [j \in Jobs |-> get_receipt(rows[j])]
<1>1. Init => Contract!Init
  BY DEF Init, Contract!Init, get_receipt, AbsentRow, NonTerminal
<1>2. CalmInv /\ TypeInv' /\ [Next]_vars => [Contract!Next]_poll
  <2> SUFFICES ASSUME CalmInv, TypeInv', [Next]_vars PROVE [Contract!Next]_poll
    OBVIOUS
  <2>0. rows \in [Jobs -> Row] /\ rows' \in [Jobs -> Row]
    BY DEF CalmInv, CopyInv, TypeInv, TypeOK
  <2>1. CASE RowsPurged
    <3> DEFINE S == {k \in Jobs : rows'[k] # rows[k]}
    <3>1. \A k \in S : get_receipt(rows[k]) \in Contract!Final
                       /\ get_receipt(rows'[k]) = "404"
      BY <2>1 DEF RowsPurged, Terminal, Failed, NonTerminal, get_receipt, Contract!Final
    <3>2. Contract!Forget(S) BY <3>1 DEF Contract!Forget
    <3> QED BY <3>2 DEF Contract!Next
  <2>2. ASSUME NEW j \in Jobs, OneRowMoves(j) PROVE [Contract!Next]_poll
    <3>1. \A k \in Jobs : k # j => get_receipt(rows'[k]) = get_receipt(rows[k])
      BY <2>2 DEF OneRowMoves
    <3>2. poll' = [poll EXCEPT ![j] = get_receipt(rows'[j])]
      BY <3>1
    <3>3. CASE get_receipt(rows'[j]) = get_receipt(rows[j])
      BY <3>1, <3>3
    <3>4. CASE rows[j].status = "absent" /\ rows'[j].status = "PENDING"
      <4>1. Contract!Admit(j)
        BY <3>2, <3>4 DEF Contract!Admit, get_receipt, NonTerminal
      <4> QED BY <4>1 DEF Contract!Next
    <3>5. CASE rows[j].status \in NonTerminal /\ rows'[j].status \in Terminal
      <4>1. poll[j] = "202" /\ get_receipt(rows'[j]) \in Contract!Final
        BY <3>5 DEF get_receipt, NonTerminal, Terminal, Failed, Contract!Final
      <4>2. Contract!Finish(j) BY <3>2, <4>1 DEF Contract!Finish
      <4> QED BY <4>2 DEF Contract!Next
    <3>6. CASE rows[j].status \in NonTerminal /\ rows'[j].status \in NonTerminal
      BY <3>3, <3>6 DEF get_receipt, NonTerminal
    <3>7. CASE rows'[j].status = rows[j].status
      BY <3>3, <3>7 DEF get_receipt
    <3> QED BY <2>2, <3>4, <3>5, <3>6, <3>7 DEF OneRowMoves
  <2> QED BY <2>1, <2>2, RowsMove
<1>3. Spec => []TypeInv BY TypeCorrect DEF TypeInv
<1> QED BY <1>1, <1>2, <1>3, CalmInvHolds, PTL DEF Spec, ImplementsContract, Contract!Spec

\* Under Calm the sweeper never takes a job that the API, the queue or a slot
\* still carries. (select_stale_jobs)
THEOREM SweeperSparesTheLiving ==
  ASSUME Calm
  PROVE  Spec => []SweepsOnlyAbandoned
<1>1. CalmInv => SweepsOnlyAbandoned
  BY DEF CalmInv, SweepsOnlyAbandoned, CopyInv, TypeInv, TypeOK
<1> QED BY <1>1, CalmInvHolds, PTL

-----------------------------------------------------------------------------
(* Refused submissions.                                                    *)

\* A refused submission left nothing behind, and one about to push has a row
\* that nobody has moved yet.
Refused(j) == api[j] \in {"400", "429", "503"}
RefusedInv ==
  /\ RefusedNeverRuns
  /\ \A j \in Jobs : api[j] = "push" => rows[j].status = "PENDING"

\* The steps of a slot concern the job it holds or pops, which is neither
\* refused nor about to be pushed.
LEMMA SlotStepRefused ==
  ASSUME Calm, CalmInv, RefusedInv, TypeInv', NEW s \in Slots, SlotStep(s)
  PROVE  RefusedInv'
<1>0. /\ TypeInv /\ CopyInv /\ queue \in Seq(Jobs)
      /\ "bump" \notin Faults
  BY DEF CalmInv, CopyInv, TypeInv, TypeOK, Calm
<1>1. SUFFICES /\ api' = api
               /\ \A k \in Jobs : Refused(k) => ~Carried(k)'
               /\ \A k \in Jobs : Refused(k) \/ api[k] = "push" => rows'[k] = rows[k]
  BY DEF RefusedInv, RefusedNeverRuns, Refused
<1>2. \A k \in Jobs : Refused(k) => ~Carried(k)
  BY DEF RefusedInv, RefusedNeverRuns, Refused
<1>3. CASE pop_from_queue(s)
  <2>1. /\ api' = api /\ rows' = rows
        /\ \/ queue # <<>> /\ queue' = Tail(queue) /\ UNCHANGED slots
           \/ /\ queue # <<>> /\ queue' = Tail(queue)
              /\ slots' = [slots EXCEPT ![s].pc = "read", ![s].job = Head(queue)]
           \/ queue' = queue /\ slots' = [slots EXCEPT ![s].pc = "dead"]
    BY <1>3 DEF pop_from_queue, Goto
  <2>2. queue # <<>> => /\ In(queue, Head(queue))
                        /\ \A k : In(Tail(queue), k) => In(queue, k)
    BY <1>0, TailFacts
  <2>3. \A k \in Jobs : InQueue(k)' => InQueue(k)
    BY <2>1, <2>2 DEF InQueue
  <2>4. \A t \in Slots, k \in Jobs : Holds(t, k)' => Holds(t, k) \/ InQueue(k)
    <3>1. slots \in [Slots -> Slot] BY <1>0 DEF TypeInv, TypeOK
    <3>2. \/ \A t \in Slots : slots'[t].job = slots[t].job
          \/ /\ queue # <<>>
             /\ \A t \in Slots : slots'[t].job \in {slots[t].job, Head(queue)}
      BY <2>1, <3>1 DEF Slot
    <3> QED BY <2>2, <3>2 DEF InQueue, Holds
  <2> QED BY <1>2, <2>1, <2>3, <2>4 DEF Carried, Refused
<1>4. CASE execute_task_lifecycle(s)
  <2> DEFINE j == slots[s].job
  <2>0. StepShape(s) /\ RowShape(s) /\ slots[s].pc \in Stages
    BY <1>0, <1>4, StepHasShape, StepHasRowShape DEF CopyInv
  <2>1. j \in Jobs BY <1>0, <2>0 DEF TypeInv, HeldJobs
  <2>2. Carried(j) /\ api[j] # "push" BY <2>1 DEF CalmInv, Carried, Holds
  <2>3. api' = api /\ \A k \in Jobs : k # j => rows'[k] = rows[k]
    BY <2>0 DEF StepShape, RowShape
  <2>4. \A k \in Jobs : InQueue(k)' => InQueue(k) \/ k = j
    <3>1. queue' = queue \/ queue' = Append(queue, j) BY <2>0 DEF StepShape
    <3>2. \A k : In(Append(queue, j), k) <=> In(queue, k) \/ k = j
      BY <1>0, <2>1, AppendFacts
    <3> QED BY <3>1, <3>2 DEF InQueue
  <2>5. \A t \in Slots, k \in Jobs : Holds(t, k)' => Holds(t, k)
    <3>1. \A t \in Slots : slots'[t].job \in {slots[t].job, NoJob}
      BY <2>0 DEF StepShape
    <3> QED BY <3>1, ConstantsAssumption DEF Holds
  <2> QED BY <1>2, <2>2, <2>3, <2>4, <2>5 DEF Carried, Refused
<1> QED BY <1>3, <1>4 DEF SlotStep

\* The steps of the API itself, the sweepers, the purge and the environment.
LEMMA OtherStepRefused ==
  ASSUME Calm, CalmInv, RefusedInv,
         \/ \E j \in Jobs : submit_receipt(j) \/ Age(j) \/ CrashApi(j) \/ CounterExpires(j)
         \/ \E w \in Workers : SweeperStep(w) \/ Crash(w)
         \/ \E h \in Hashes : CacheExpires(h)
         \/ Purge
         \/ UNCHANGED vars
  PROVE  RefusedInv'
<1>0. /\ queue \in Seq(Jobs) /\ rows \in [Jobs -> Row] /\ slots \in [Slots -> Slot]
      /\ api \in [Jobs -> ApiSteps \union ApiAnswers] /\ NoJob \notin Jobs
      /\ "pg_ambiguous" \notin Faults /\ "push_ambiguous" \notin Faults
  BY ConstantsAssumption DEF CalmInv, CopyInv, TypeInv, TypeOK, Calm
<1>1. \A k \in Jobs : Refused(k) =>
        ~Carried(k) /\ rows[k].status \notin {"PROCESSING", "SUCCEEDED", "FAILED_PERMANENT"}
  BY DEF RefusedInv, RefusedNeverRuns, Refused
\* When nothing becomes carried and no row gains a status but a sweeper's.
<1>2. ASSUME \A k \in Jobs : Refused(k)' => Refused(k),
             \A k \in Jobs : api'[k] = "push" => api[k] = "push",
             \A k \in Jobs : Carried(k)' => Carried(k),
             \A k \in Jobs : \/ rows'[k].status = rows[k].status
                             \/ ~Carried(k) /\ rows'[k].status \in {"FAILED_TRANSIENT", "absent"}
      PROVE  RefusedInv'
  <2>1. \A k \in Jobs : api'[k] = "push" => rows'[k].status = "PENDING"
    BY <1>2 DEF RefusedInv, Carried
  <2>2. \A k \in Jobs : Refused(k)' =>
          /\ ~Carried(k)'
          /\ rows'[k].status \notin {"PROCESSING", "SUCCEEDED", "FAILED_PERMANENT"}
    BY <1>1, <1>2
  <2> QED BY <2>1, <2>2 DEF RefusedInv, RefusedNeverRuns, Refused
<1>3. ASSUME NEW j \in Jobs, submit_receipt(j) PROVE RefusedInv'
  <2>0. UNCHANGED slots
    BY <1>3 DEF submit_receipt, SubmitBegin, SubmitCheck, SubmitCreate, SubmitPush
  <2>1. \A k \in Jobs : k # j => api'[k] = api[k] /\ rows'[k] = rows[k]
    <3>1. \A a : Answer(j, a) => \A k \in Jobs : k # j => api'[k] = api[k]
      BY <1>0 DEF Answer
    <3>2. \E a : Answer(j, a)
      BY <1>3 DEF submit_receipt, SubmitBegin, SubmitCheck, SubmitCreate, SubmitPush
    <3>3. \A row, o : PgUpdate(j, row, o) => \A k \in Jobs : k # j => rows'[k] = rows[k]
      BY <1>0 DEF PgUpdate
    <3>4. rows' = rows \/ \E row, o : PgUpdate(j, row, o)
      BY <1>3 DEF submit_receipt, SubmitBegin, SubmitCheck, SubmitCreate, SubmitPush
    <3> QED BY <3>1, <3>2, <3>3, <3>4
  <2>2. \A k \in Jobs : k # j => (InQueue(k)' <=> InQueue(k))
    <3>1. queue' = queue \/ queue' = Append(queue, j)
      BY <1>3 DEF submit_receipt, SubmitBegin, SubmitCheck, SubmitCreate, SubmitPush,
         push_to_queue
    <3>2. \A k : In(Append(queue, j), k) <=> In(queue, k) \/ k = j BY <1>0, AppendFacts
    <3> QED BY <3>1, <3>2 DEF InQueue
  <2>3. \A k \in Jobs : k # j => (Carried(k)' <=> Carried(k))
    BY <2>0, <2>1, <2>2 DEF Carried, Holds
  <2>4. /\ api'[j] = "push" => rows'[j].status = "PENDING"
        /\ Refused(j)' =>
             /\ ~Carried(j)'
             /\ rows'[j].status \notin {"PROCESSING", "SUCCEEDED", "FAILED_PERMANENT"}
    <3>1. CASE SubmitBegin(j)
      BY <1>0, <3>1 DEF SubmitBegin, Answer, Refused
    <3>2. CASE SubmitCheck(j)
      <4>1. /\ api[j] \in BeforeRow /\ api'[j] # "push" /\ UNCHANGED <<rows, queue, slots>>
        BY <1>0, <3>2 DEF SubmitCheck, Answer, BeforeRow
      <4>2. ~Carried(j) /\ rows[j].status = "absent" BY <4>1 DEF CalmInv
      <4> QED BY <4>1, <4>2 DEF Carried, InQueue, Holds
    <3>3. CASE SubmitCreate(j)
      <4>1. PICK o \in PgOutcomes :
              /\ PgUpdate(j, [AbsentRow EXCEPT !.status = "PENDING"], o)
              /\ Answer(j, IF o = "ok" THEN "push" ELSE "503")
        BY <3>3 DEF SubmitCreate
      <4>2. ~Carried(j) /\ rows[j].status = "absent" /\ UNCHANGED <<queue, slots>>
        BY <3>3 DEF CalmInv, BeforeRow, SubmitCreate
      <4>3. \/ /\ api'[j] = "push"
               /\ rows'[j] = [AbsentRow EXCEPT !.status = "PENDING"]
            \/ api'[j] = "503" /\ rows' = rows
        BY <1>0, <4>1 DEF PgUpdate, Call, Spend, Applied, Answer, PgOutcomes
      <4>4. [AbsentRow EXCEPT !.status = "PENDING"].status = "PENDING" BY DEF AbsentRow
      <4>5. CASE api'[j] = "push" /\ rows'[j] = [AbsentRow EXCEPT !.status = "PENDING"]
        BY <4>4, <4>5 DEF Refused
      <4>6. CASE api'[j] = "503" /\ rows' = rows
        BY <4>2, <4>6 DEF Carried, InQueue, Holds
      <4> QED BY <4>3, <4>5, <4>6
    <3>4. CASE SubmitPush(j)
      <4>1. /\ api[j] = "push" /\ UNCHANGED <<rows, slots>>
            /\ \/ api'[j] = "202"
               \/ api'[j] = "503" /\ queue' = queue
        BY <1>0, <3>4 DEF SubmitPush, push_to_queue, PushOutcomes, Call, Spend, Applied, Answer
      <4>2. rows[j].status = "PENDING" BY <4>1 DEF RefusedInv
      <4>3. ~InQueue(j) /\ \A t \in Slots : ~Holds(t, j)
        BY <4>1 DEF CalmInv, CopyInv, OneCopy
      <4> QED BY <4>1, <4>2, <4>3 DEF Carried, InQueue, Holds, Refused
    <3> QED BY <1>3, <3>1, <3>2, <3>3, <3>4 DEF submit_receipt
  <2>5. \A k \in Jobs : api'[k] = "push" => rows'[k].status = "PENDING"
    BY <2>1, <2>4 DEF RefusedInv
  <2>6. \A k \in Jobs : Refused(k)' =>
          /\ ~Carried(k)'
          /\ rows'[k].status \notin {"PROCESSING", "SUCCEEDED", "FAILED_PERMANENT"}
    BY <1>1, <2>1, <2>3, <2>4 DEF Refused
  <2> QED BY <2>5, <2>6 DEF RefusedInv, RefusedNeverRuns, Refused
<1>4. ASSUME NEW j \in Jobs, CrashApi(j) PROVE RefusedInv'
  <2>1. /\ UNCHANGED <<rows, queue, slots>>
        /\ \A k \in Jobs : api'[k] = IF k = j THEN "gone" ELSE api[k]
    BY <1>0, <1>4 DEF CrashApi, Answer
  <2>2. \A k \in Jobs : Carried(k)' => Carried(k)
    BY <2>1 DEF Carried, InQueue, Holds
  <2> QED BY <1>2, <2>1, <2>2 DEF Refused
<1>5. ASSUME NEW j \in Jobs, Age(j) PROVE RefusedInv'
  <2>1. UNCHANGED <<queue, slots, api>> /\ \A k \in Jobs : rows'[k].status = rows[k].status
    BY <1>0, <1>5 DEF Age, Row
  <2> QED BY <1>2, <2>1 DEF Refused, Carried, InQueue, Holds
<1>6. ASSUME NEW w \in Workers, NEW j \in Jobs, SweepFail(w, j) PROVE RefusedInv'
  <2>1. PICK o \in PgOutcomes :
          PgUpdate(j, update_job_status(rows[j], "FAILED_TRANSIENT", "stale_timeout"), o)
    BY <1>6 DEF SweepFail
  <2>2. UNCHANGED <<queue, slots, api>> /\ ~Carried(j)
    BY <1>6 DEF SweepFail, CalmInv
  <2>3. /\ \A k \in Jobs : k # j => rows'[k] = rows[k]
        /\ rows'[j].status \in {rows[j].status, "FAILED_TRANSIENT"}
    BY <1>0, <2>1 DEF PgUpdate, update_job_status
  <2> QED BY <1>2, <2>2, <2>3 DEF Refused, Carried, InQueue, Holds
<1>7. CASE Purge
  <2>0. AbsentRow.status = "absent" BY DEF AbsentRow
  <2>1. /\ UNCHANGED <<queue, slots, api>>
        /\ \A k \in Jobs : \/ rows'[k] = rows[k]
                           \/ rows[k].status \in Terminal /\ rows'[k].status = "absent"
    BY <1>7, <2>0 DEF Purge, Expired
  <2>2. \A k \in Jobs : rows[k].status \in Terminal => ~Carried(k)
    BY DEF CalmInv, Terminal, NonTerminal, Failed
  <2> QED BY <1>2, <2>1, <2>2 DEF Refused, Carried, InQueue, Holds
<1>8. ASSUME NEW w \in Workers, Crash(w) PROVE RefusedInv'
  <2>1. /\ UNCHANGED <<queue, api, rows>>
        /\ \A t \in Slots : slots'[t] \in {slots[t], IdleSlot}
    BY <1>0, <1>8 DEF Crash
  <2>2. \A t \in Slots, k \in Jobs : Holds(t, k)' => Holds(t, k)
    BY <1>0, <2>1 DEF Holds, IdleSlot
  <2> QED BY <1>2, <2>1, <2>2 DEF Refused, Carried, InQueue
<1>9. CASE UNCHANGED <<rows, queue, api, slots>>
  BY <1>2, <1>9 DEF Refused, Carried, InQueue, Holds
<1>10. \/ UNCHANGED <<rows, queue, api, slots>>
       \/ \E j \in Jobs : submit_receipt(j) \/ Age(j) \/ CrashApi(j)
       \/ \E w \in Workers : Crash(w) \/ \E j \in Jobs : SweepFail(w, j)
       \/ Purge
  BY DEF SweeperStep, SweepSelect, CounterExpires, CacheExpires, vars
<1> QED BY <1>3, <1>4, <1>5, <1>6, <1>7, <1>8, <1>9, <1>10

\* Under Calm a submission that was refused is never run: the 503 of a failed
\* insert or push means that nothing of the job will happen but the sweeper's
\* failure. (submit_receipt's error returns)
THEOREM RefusedStayOut ==
  ASSUME Calm
  PROVE  Spec => []RefusedNeverRuns
<1>1. Init => RefusedInv
  BY DEF Init, RefusedInv, RefusedNeverRuns
<1>2. CalmInv /\ TypeInv' /\ RefusedInv /\ [Next]_vars => RefusedInv'
  BY SlotStepRefused, OtherStepRefused DEF Next, Environment
<1>3. RefusedInv => RefusedNeverRuns BY DEF RefusedInv
<1>4. Spec => []TypeInv BY TypeCorrect DEF TypeInv
<1> QED BY <1>1, <1>2, <1>3, <1>4, CalmInvHolds, PTL DEF Spec
-----------------------------------------------------------------------------
(* What one fault loses.                                                   *)

\* What a slot's step without a fault does to its job: the slot keeps
\* the job, gives it back with a push, or lets go of it when its row is
\* terminal or gone; an absent row is never written.
CalmStep(s) ==
  LET j == slots[s].job IN
  /\ api' = api /\ spent' = spent
  /\ \A t \in Slots : t # s => slots'[t] = slots[t]
  /\ \A k \in Jobs : k # j => rows'[k] = rows[k]
  /\ queue' = queue \/ queue' = Append(queue, j)
  /\ \/ slots'[s].job = j
     \/ queue' = Append(queue, j)
     \/ rows'[j].status \notin NonTerminal

\* Every stage of the lifecycle has that shape when nothing fails.
LEMMA StepIsCalm ==
  ASSUME TypeInv, NEW s \in Slots, execute_task_lifecycle(s), spent' = spent
  PROVE  CalmStep(s) /\ slots[s].pc \in Stages
<1> DEFINE j == slots[s].job
<1>0. /\ slots[s].pc \in Stages /\ api' = api
      /\ slots[s].pc # "push" => queue' = queue
  BY DEF execute_task_lifecycle, ReadRecord, MarkProcessing, Download,
     RecordPhash, CacheLookup, Detect, StoreRaw, Persist, BumpOrOrphan, YieldTouch,
     YieldPush, Fail, Acquire, ExtractLimited, ExtractDone, At, Stages
<1>1. /\ slots \in [Slots -> Slot] /\ j \in Jobs /\ rows \in [Jobs -> Row]
      /\ spent \in Nat
  BY <1>0, ConstantsAssumption DEF TypeInv, TypeOK, HeldJobs
<1>2. \A kind : ~Spend(kind) BY <1>1 DEF Spend
<1>3. \A o : Call(o) => o = "ok" /\ spent' = spent BY <1>2 DEF Call
<1>4. \A row : \A o : PgUpdate(j, row, o) =>
        /\ o = "ok" /\ spent' = spent
        /\ rows'[j] = row /\ \A k \in Jobs : k # j => rows'[k] = rows[k]
  BY <1>1, <1>3 DEF PgUpdate, Applied
<1>5. \A stage : Goto(s, stage) =>
        slots'[s].job = j /\ \A t \in Slots : t # s => slots'[t] = slots[t]
  BY <1>1 DEF Goto, Slot
<1>6. \A code : FailWith(s, code) =>
        slots'[s].job = j /\ \A t \in Slots : t # s => slots'[t] = slots[t]
  BY <1>1 DEF FailWith, Slot
<1>7. Release(s) => \A t \in Slots : t # s => slots'[t] = slots[t]
  BY <1>1 DEF Release
<1>8. \A status \in Terminal : \A given :
        update_job_status(rows[j], status, given).status \notin NonTerminal
  BY DEF update_job_status, Terminal, Failed, NonTerminal
<1> USE DEF CalmStep, At
<1>9. CASE ReadRecord(s)
  <2>1. CASE slots' = [slots EXCEPT ![s].pc = "mark", ![s].hashed = rows[j].phash]
    <3>1. slots'[s].job = j /\ \A t \in Slots : t # s => slots'[t] = slots[t]
      BY <1>1, <2>1 DEF Slot
    <3> QED BY <1>0, <1>2, <1>9, <3>1 DEF ReadRecord
  <2> QED BY <1>0, <1>2, <1>7, <1>9, <2>1 DEF ReadRecord
<1>10. CASE MarkProcessing(s) BY <1>0, <1>4, <1>5, <1>10 DEF MarkProcessing
<1>11. CASE RecordPhash(s) BY <1>0, <1>4, <1>5, <1>11 DEF RecordPhash
<1>12. CASE YieldTouch(s) BY <1>0, <1>4, <1>5, <1>12 DEF YieldTouch
<1>13. CASE Persist(s)
  <2>1. CASE j \in Unstorable BY <1>0, <1>5, <1>13, <2>1 DEF Persist
  <2>2. CASE j \notin Unstorable
    BY <1>0, <1>4, <1>7, <1>8, <1>13, <2>2 DEF Persist, Terminal
  <2> QED BY <2>1, <2>2
<1>14. CASE Fail(s)
  <2>1. FailStatus(slots[s].verdict) \in Terminal
    BY DEF FailStatus, Terminal, Failed
  <2> QED BY <1>0, <1>4, <1>7, <1>8, <1>14, <2>1 DEF Fail
<1>15. CASE YieldPush(s)
  <2>1. queue' = Append(queue, j) /\ rows' = rows /\ spent' = spent
    BY <1>3, <1>15 DEF YieldPush, push_to_queue, Applied
  <2>2. \A t \in Slots : t # s => slots'[t] = slots[t]
    <3>1. CASE slots' = [slots EXCEPT ![s].pc = "touch", ![s].again = FALSE]
      BY <1>1, <3>1
    <3> QED BY <1>6, <1>7, <1>15, <3>1 DEF YieldPush
  <2> QED BY <1>0, <1>15, <2>1, <2>2
<1>16. CASE BumpOrOrphan(s)
  BY <1>0, <1>2, <1>5, <1>6, <1>16 DEF BumpOrOrphan
<1>17. CASE Download(s) \/ CacheLookup(s) \/ Detect(s) \/ StoreRaw(s)
            \/ Acquire(s, TRUE) \/ Acquire(s, FALSE) \/ ExtractLimited(s) \/ ExtractDone(s)
  BY <1>0, <1>2, <1>5, <1>6, <1>17 DEF Download, CacheLookup, Detect, StoreRaw, Acquire,
     ExtractLimited, ExtractDone, Postprocess
<1> QED BY <1>0, <1>9, <1>10, <1>11, <1>12, <1>13, <1>14, <1>15, <1>16, <1>17
        DEF execute_task_lifecycle

\* Also with a fault a step of a slot concerns its own job only, and is one
\* fault at most.
OwnStep(s) ==
  LET j == slots[s].job IN
  /\ api' = api /\ spent' \in {spent, spent + 1}
  /\ \A t \in Slots : t # s => slots'[t] = slots[t]
  /\ \A k \in Jobs : k # j => rows'[k] = rows[k]
  /\ queue' = queue \/ queue' = Append(queue, j)

LEMMA StepIsOwn ==
  ASSUME TypeInv, NEW s \in Slots, execute_task_lifecycle(s)
  PROVE  OwnStep(s) /\ slots[s].pc \in Stages /\ slots[s].job \in Jobs
<1> DEFINE j == slots[s].job
<1>0. /\ slots[s].pc \in Stages /\ api' = api
      /\ slots[s].pc # "push" => queue' = queue
  BY DEF execute_task_lifecycle, ReadRecord, MarkProcessing, Download,
     RecordPhash, CacheLookup, Detect, StoreRaw, Persist, BumpOrOrphan, YieldTouch,
     YieldPush, Fail, Acquire, ExtractLimited, ExtractDone, At, Stages
<1>1. slots \in [Slots -> Slot] /\ j \in Jobs /\ rows \in [Jobs -> Row]
  BY <1>0 DEF TypeInv, TypeOK, HeldJobs
<1>2. \A kind : Spend(kind) => spent' = spent + 1 BY DEF Spend
<1>3. \A o : Call(o) => spent' \in {spent, spent + 1} BY <1>2 DEF Call
<1>4. \A row : \A o : PgUpdate(j, row, o) =>
        /\ spent' \in {spent, spent + 1}
        /\ \A k \in Jobs : k # j => rows'[k] = rows[k]
  BY <1>1, <1>3 DEF PgUpdate
<1>5. \A t \in Slots : t # s => slots'[t] = slots[t]
  <2>1. \/ \E stage : Goto(s, stage)
        \/ \E code : FailWith(s, code)
        \/ Release(s)
        \/ slots' = [slots EXCEPT ![s].pc = "mark", ![s].hashed = rows[j].phash]
        \/ \E b : slots' = [slots EXCEPT ![s].pc = "touch", ![s].again = b]
    BY DEF execute_task_lifecycle, ReadRecord, MarkProcessing, Download,
       RecordPhash, CacheLookup, Detect, StoreRaw, Persist, BumpOrOrphan, YieldTouch,
       YieldPush, Fail, Acquire, ExtractLimited, ExtractDone, Postprocess
  <2> QED BY <1>1, <2>1 DEF Goto, FailWith, Release
<1> USE DEF OwnStep, At
<1>6. CASE MarkProcessing(s) \/ RecordPhash(s) \/ YieldTouch(s) \/ Fail(s) \/ Persist(s)
  BY <1>0, <1>1, <1>4, <1>5, <1>6 DEF MarkProcessing, RecordPhash, YieldTouch, Fail, Persist
<1>7. CASE YieldPush(s)
  BY <1>0, <1>1, <1>3, <1>5, <1>7 DEF YieldPush, push_to_queue
<1>8. CASE ReadRecord(s) \/ Download(s) \/ CacheLookup(s) \/ Detect(s) \/ StoreRaw(s)
           \/ BumpOrOrphan(s) \/ Acquire(s, TRUE) \/ Acquire(s, FALSE)
           \/ ExtractLimited(s) \/ ExtractDone(s)
  BY <1>0, <1>1, <1>2, <1>5, <1>8 DEF ReadRecord, Download, CacheLookup, Detect, StoreRaw,
     BumpOrOrphan, Acquire, ExtractLimited, ExtractDone
<1> QED BY <1>6, <1>7, <1>8 DEF execute_task_lifecycle

\* A job that is not lost.
Safe(j) == rows[j].status \in NonTerminal => Carried(j)

\* Every step is free, and then loses nobody, or it is one fault and loses at
\* most the jobs of a set, of as many as a process has slots.
MayLose(X) ==
  /\ IsFiniteSet(X) /\ Cardinality(X) <= Concurrency
  /\ \/ spent' = spent /\ \A k \in Jobs : Safe(k) => Safe(k)'
     \/ spent' = spent + 1 /\ \A k \in Jobs \ X : Safe(k) => Safe(k)'

\* One job is never too many.
LEMMA OneMayLose ==
  ASSUME NEW j,
         \/ spent' = spent /\ \A k \in Jobs : Safe(k) => Safe(k)'
         \/ spent' = spent + 1 /\ \A k \in Jobs : k # j => (Safe(k) => Safe(k)')
  PROVE  MayLose({j})
<1>1. IsFiniteSet({j}) /\ Cardinality({j}) = 1 BY FS_Singleton
<1> QED BY <1>1, ConstantsAssumption DEF MayLose

\* The steps of a slot lose its job at most.
LEMMA SlotStepLoses ==
  ASSUME TypeInv, NEW s \in Slots, SlotStep(s)
  PROVE  \E X : MayLose(X)
<1>0. /\ slots \in [Slots -> Slot] /\ queue \in Seq(Jobs) /\ spent \in Nat
      /\ rows \in [Jobs -> Row] /\ NoJob \notin Jobs
  BY ConstantsAssumption DEF TypeInv, TypeOK
<1>2. CASE pop_from_queue(s)
  <2> PICK j : j = Head(queue) OBVIOUS
  <2>1. /\ slots[s].pc = "idle" /\ slots[s].job \notin Jobs
        /\ UNCHANGED <<api, rows>>
        /\ \/ /\ spent' = spent /\ queue # <<>> /\ queue' = Tail(queue)
              /\ slots' = [slots EXCEPT ![s].pc = "read", ![s].job = j]
           \/ /\ spent' = spent + 1 /\ queue # <<>> /\ queue' = Tail(queue)
              /\ slots' = slots
           \/ /\ spent' = spent + 1 /\ queue' = queue
              /\ slots' = [slots EXCEPT ![s].pc = "dead"]
    BY <1>2 DEF pop_from_queue, At, TypeInv, HeldJobs, Stages, Spend, Goto
  <2>2. \A t \in Slots : t # s => slots'[t] = slots[t] BY <1>0, <2>1
  <2>3. \A k \in Jobs : \A t \in Slots : Holds(t, k) => Holds(t, k)'
    BY <2>1, <2>2 DEF Holds
  <2>4. \A k \in Jobs : k # j /\ In(queue, k) => In(queue', k)
    BY <1>0, <2>1, TailFacts
  <2>5. \A k \in Jobs : k # j => (Safe(k) => Safe(k)')
    BY <2>1, <2>3, <2>4 DEF Safe, Carried, InQueue
  <2>6. CASE spent' = spent
    <3>1. slots'[s].job = j BY <1>0, <2>1, <2>6 DEF Slot
    <3>2. Safe(j)' BY <3>1 DEF Safe, Carried, Holds
    <3> QED BY <2>5, <2>6, <3>2, OneMayLose
  <2>7. CASE spent' = spent + 1 BY <2>5, <2>7, OneMayLose
  <2> QED BY <2>1, <2>6, <2>7
<1>3. CASE execute_task_lifecycle(s)
  <2> PICK j : j = slots[s].job OBVIOUS
  <2>1. OwnStep(s) /\ j \in Jobs BY <1>3, StepIsOwn
  <2>2. In(Append(queue, j), j) /\ \A i : In(queue, i) => In(Append(queue, j), i)
    BY <1>0, <2>1, AppendFacts
  <2>3. ASSUME NEW k \in Jobs, k # j, Safe(k) PROVE Safe(k)'
    <3>1. InQueue(k) => InQueue(k)' BY <2>1, <2>2 DEF OwnStep, InQueue
    <3>2. \A t \in Slots : Holds(t, k) => Holds(t, k)'
      BY <2>1, <2>3 DEF OwnStep, Holds
    <3> QED BY <2>1, <2>3, <3>1, <3>2 DEF Safe, Carried, OwnStep
  <2>4. ASSUME spent' = spent PROVE Safe(j)'
    <3>1. CalmStep(s) BY <1>3, <2>4, StepIsCalm
    <3>2. CASE slots'[s].job = j BY <3>2 DEF Safe, Carried, Holds
    <3>3. CASE queue' = Append(queue, j) BY <2>2, <3>3 DEF Safe, Carried, InQueue
    <3> QED BY <2>1, <3>1, <3>2, <3>3 DEF CalmStep, Safe
  <2>5. spent' = spent \/ spent' = spent + 1 BY <2>1 DEF OwnStep
  <2> QED BY <2>3, <2>4, <2>5, OneMayLose
<1> QED BY <1>2, <1>3 DEF SlotStep

\* A crash loses the jobs of the slots of one process. (Crash)
LEMMA CrashLoses ==
  ASSUME TypeInv, NEW w \in Workers, Crash(w)
  PROVE  \E X : MayLose(X)
<1> DEFINE C == 1..Concurrency
           X == {slots[<<w, i>>].job : i \in C}
<1>1. /\ spent' = spent + 1 /\ UNCHANGED <<rows, queue, api>>
      /\ slots' = [s \in Slots |-> IF s[1] = w THEN IdleSlot ELSE slots[s]]
  BY DEF Crash, Spend
<1>2. IsFiniteSet(C) /\ Cardinality(C) = Concurrency
  BY FS_Interval, ConstantsAssumption
<1>3. IsFiniteSet(X) /\ Cardinality(X) <= Concurrency
  <2> DEFINE f == [i \in C |-> slots[<<w, i>>].job]
  <2>1. f \in Surjection(C, X) BY DEF Surjection
  <2> QED BY <1>2, <2>1, FS_Surjection
<1>4. ASSUME NEW k \in Jobs \ X, NEW t \in Slots, Holds(t, k) PROVE Holds(t, k)'
  <2>1. t[1] = w => t = <<w, t[2]>> /\ t[2] \in C BY DEF Slots
  <2>2. t[1] # w BY <1>4, <2>1 DEF Holds
  <2> QED BY <1>1, <1>4, <2>2 DEF Holds
<1>5. \A k \in Jobs \ X : Safe(k) => Safe(k)'
  BY <1>1, <1>4 DEF Safe, Carried, InQueue
<1> QED BY <1>1, <1>3, <1>5 DEF MayLose

\* The other steps lose at most the job they are about.
LEMMA OtherStepLoses ==
  ASSUME TypeInv,
         \/ \E j \in Jobs : submit_receipt(j) \/ Age(j) \/ CrashApi(j) \/ CounterExpires(j)
         \/ \E w \in Workers : SweeperStep(w) \/ Crash(w)
         \/ \E h \in Hashes : CacheExpires(h)
         \/ Purge
         \/ UNCHANGED vars
  PROVE  \E X : MayLose(X)
<1>0. /\ queue \in Seq(Jobs) /\ spent \in Nat /\ rows \in [Jobs -> Row]
      /\ api \in [Jobs -> ApiSteps \union ApiAnswers]
  BY ConstantsAssumption DEF TypeInv, TypeOK
<1>1. \A kind : Spend(kind) => spent' = spent + 1 BY DEF Spend
<1>2. \A o : Call(o) => (o = "ok" /\ spent' = spent) \/ spent' = spent + 1
  BY <1>1 DEF Call
\* When nobody carries less and no row becomes pending.
<1>3. ASSUME NEW k \in Jobs, Safe(k), slots' = slots,
             rows'[k].status \in NonTerminal => rows[k].status \in NonTerminal,
             InQueue(k) => InQueue(k)', api[k] = "push" => Carried(k)'
      PROVE  Safe(k)'
  BY <1>3 DEF Safe, Carried, Holds
<1>4. ASSUME UNCHANGED <<slots, queue, api>>, spent' \in {spent, spent + 1},
             \A k \in Jobs : rows'[k].status \in NonTerminal => rows[k].status \in NonTerminal
      PROVE  \E X : MayLose(X)
  <2>1. \A k \in Jobs : Safe(k) => Safe(k)'
    BY <1>3, <1>4 DEF Carried, InQueue
  <2>2. spent' = spent \/ spent' = spent + 1 BY <1>4
  <2> QED BY <2>1, <2>2, OneMayLose
<1>5. ASSUME NEW j \in Jobs, submit_receipt(j) \/ CrashApi(j) PROVE \E X : MayLose(X)
  <2>1. /\ slots' = slots /\ spent' \in {spent, spent + 1}
        /\ \A k \in Jobs : k # j => rows'[k] = rows[k] /\ api'[k] = api[k]
        /\ queue' = queue \/ queue' = Append(queue, j)
    BY <1>0, <1>1, <1>2, <1>5 DEF submit_receipt, SubmitBegin, SubmitCheck, SubmitCreate,
       SubmitPush, CrashApi, Answer, PgUpdate, push_to_queue
  <2>2. In(Append(queue, j), j) /\ \A i : In(queue, i) => In(Append(queue, j), i)
    BY <1>0, AppendFacts
  <2>3. \A k \in Jobs : InQueue(k) => InQueue(k)' BY <2>1, <2>2 DEF InQueue
  <2>4. \A k \in Jobs : k # j => (Safe(k) => Safe(k)')
    BY <1>3, <2>1, <2>3 DEF Carried
  <2>5. ASSUME spent' = spent, Safe(j) PROVE Safe(j)'
    <3>1. \A kind : ~Spend(kind) BY <1>0, <1>1, <2>5
    <3>2. CASE SubmitBegin(j) \/ SubmitCheck(j)
      <4>1. rows' = rows /\ api[j] # "push"
        BY <3>2 DEF SubmitBegin, SubmitCheck
      <4> QED BY <1>3, <2>1, <2>3, <2>5, <4>1
    <3>3. CASE SubmitCreate(j)
      <4>1. api'[j] = "push"
        BY <1>0, <3>1, <3>3 DEF SubmitCreate, PgUpdate, Call, Answer
      <4> QED BY <4>1 DEF Safe, Carried
    <3>4. CASE SubmitPush(j)
      <4>1. queue' = Append(queue, j)
        BY <3>1, <3>4 DEF SubmitPush, push_to_queue, Call, Applied
      <4> QED BY <2>2, <4>1 DEF Safe, Carried, InQueue
    <3> QED BY <1>5, <3>1, <3>2, <3>3, <3>4 DEF submit_receipt, CrashApi
  <2>6. spent' = spent \/ spent' = spent + 1 BY <2>1
  <2> QED BY <2>4, <2>5, <2>6, OneMayLose
<1>6. ASSUME NEW j \in Jobs, Age(j) PROVE \E X : MayLose(X)
  <2>1. /\ UNCHANGED <<spent, slots, queue, api>>
        /\ \A k \in Jobs : rows'[k].status = rows[k].status
    BY <1>0, <1>6 DEF Age, Row
  <2> QED BY <1>4, <2>1
<1>7. ASSUME NEW w \in Workers, NEW j \in Jobs, SweepFail(w, j) PROVE \E X : MayLose(X)
  <2>1. /\ UNCHANGED <<slots, queue, api>> /\ spent' \in {spent, spent + 1}
        /\ \A k \in Jobs : rows'[k].status \in NonTerminal => rows[k].status \in NonTerminal
    BY <1>0, <1>2, <1>7 DEF SweepFail, PgUpdate, update_job_status, NonTerminal
  <2> QED BY <1>4, <2>1
<1>8. CASE Purge
  <2>1. /\ UNCHANGED <<spent, slots, queue, api>>
        /\ \A k \in Jobs : rows'[k].status \in NonTerminal => rows[k].status \in NonTerminal
    BY <1>8 DEF Purge, AbsentRow, NonTerminal
  <2> QED BY <1>4, <2>1
<1>9. CASE \/ UNCHANGED vars
           \/ \E w \in Workers : SweepSelect(w)
           \/ \E j \in Jobs : CounterExpires(j)
           \/ \E h \in Hashes : CacheExpires(h)
  <2>1. UNCHANGED <<rows, slots, queue, api>> /\ spent' \in {spent, spent + 1}
    BY <1>1, <1>9 DEF SweepSelect, CounterExpires, CacheExpires, vars
  <2> QED BY <1>4, <2>1
<1> QED BY <1>5, <1>6, <1>7, <1>8, <1>9, CrashLoses DEF SweeperStep

\* What is lost can be counted. (Lost is finite without Jobs being so.)
LossInv == IsFiniteSet(Lost) /\ LossesBounded

\* Sets that grow by a small one.
LEMMA GrowsBy ==
  ASSUME NEW S, NEW T, NEW X, IsFiniteSet(S), IsFiniteSet(X), T \subseteq S \cup X
  PROVE  /\ IsFiniteSet(T) /\ Cardinality(T) \in Nat
         /\ Cardinality(S) \in Nat /\ Cardinality(X) \in Nat
         /\ Cardinality(T) <= Cardinality(S) + Cardinality(X)
<1>1. /\ IsFiniteSet(S \cup X)
      /\ Cardinality(S \cup X) = Cardinality(S) + Cardinality(X) - Cardinality(S \cap X)
  BY FS_Union
<1>2. IsFiniteSet(S \cap X) BY FS_Intersection
<1>3. IsFiniteSet(T) /\ Cardinality(T) <= Cardinality(S \cup X) BY <1>1, FS_Subset
<1>4. /\ Cardinality(S) \in Nat /\ Cardinality(X) \in Nat /\ Cardinality(T) \in Nat
      /\ Cardinality(S \cap X) \in Nat
  BY <1>2, <1>3, FS_CardinalityType
<1> QED BY <1>1, <1>3, <1>4

LEMMA LossesAdd ==
  ASSUME spent \in Nat, LossInv, NEW X, MayLose(X)
  PROVE  LossInv'
<1>0. Concurrency \in Nat BY ConstantsAssumption
<1>1. Lost = {k \in Jobs : ~Safe(k)} /\ Lost' = {k \in Jobs : ~Safe(k)'}
  BY DEF Lost, Safe
<1>2. CASE spent' = spent /\ \A k \in Jobs : Safe(k) => Safe(k)'
  <2>1. Lost' \subseteq Lost BY <1>1, <1>2
  <2>2. IsFiniteSet(Lost') /\ Cardinality(Lost') <= Cardinality(Lost)
    BY <2>1, FS_Subset DEF LossInv
  <2>3. Cardinality(Lost) \in Nat /\ Cardinality(Lost') \in Nat
    BY <2>2, FS_CardinalityType DEF LossInv
  <2>4. Concurrency * spent \in Nat BY <1>0
  <2> QED BY <1>2, <2>2, <2>3, <2>4 DEF LossInv, LossesBounded
<1>3. CASE spent' = spent + 1 /\ \A k \in Jobs \ X : Safe(k) => Safe(k)'
  <2>1. Lost' \subseteq Lost \cup X BY <1>1, <1>3
  <2>2. /\ IsFiniteSet(Lost') /\ Cardinality(Lost') \in Nat
        /\ Cardinality(Lost) \in Nat /\ Cardinality(X) \in Nat
        /\ Cardinality(Lost') <= Cardinality(Lost) + Cardinality(X)
    BY <2>1, GrowsBy DEF LossInv, MayLose
  <2>3. Concurrency * (spent + 1) = Concurrency * spent + Concurrency
        /\ Concurrency * spent \in Nat
    BY <1>0
  <2> QED BY <1>0, <1>3, <2>2, <2>3 DEF LossInv, LossesBounded, MayLose
<1> QED BY <1>2, <1>3 DEF MayLose

\* For any number of jobs, slots and processes, and whatever fails, crashes or
\* is swept: a fault loses at most the jobs of the slots of one process, and
\* nothing else loses any.
THEOREM FaultsBoundLosses == Spec => []LossesBounded
<1>1. ASSUME Init PROVE LossInv
  <2>1. Lost = {} BY <1>1 DEF Init, Lost, AbsentRow, NonTerminal
  <2>2. Concurrency * spent = 0 BY <1>1, ConstantsAssumption DEF Init
  <2> QED BY <2>1, <2>2, FS_EmptySet DEF LossInv, LossesBounded
<1>2. TypeInv /\ LossInv /\ [Next]_vars => LossInv'
  <2> SUFFICES ASSUME TypeInv, LossInv, [Next]_vars PROVE LossInv' OBVIOUS
  <2>1. \E X : MayLose(X)
    BY SlotStepLoses, OtherStepLoses DEF Next, Environment
  <2>2. spent \in Nat BY ConstantsAssumption DEF TypeInv, TypeOK
  <2> QED BY <2>1, <2>2, LossesAdd
<1>3. Spec => []TypeInv BY TypeCorrect DEF TypeInv
<1>4. LossInv => LossesBounded BY DEF LossInv
<1> QED BY <1>1, <1>2, <1>3, <1>4, PTL DEF Spec

-----------------------------------------------------------------------------
(* The perceptual hash on record.                                          *)

\* A job whose submission is not over yet is not carried, so that the INSERT
\* of the submission never replaces a row that somebody works on.
SubmittedInv == \A j \in Jobs : api[j] \in BeforeRow => ~Carried(j)

\* The steps of a slot concern jobs that are carried already.
LEMMA SlotStepSubmitted ==
  ASSUME TypeInv, SubmittedInv, NEW s \in Slots, SlotStep(s)
  PROVE  SubmittedInv'
<1>0. /\ slots \in [Slots -> Slot] /\ queue \in Seq(Jobs) /\ NoJob \notin Jobs
  BY ConstantsAssumption DEF TypeInv, TypeOK
<1> SUFFICES ASSUME NEW k \in Jobs, Carried(k)'
             PROVE  Carried(k) /\ api' = api
  BY DEF SubmittedInv
<1>1. CASE pop_from_queue(s)
  <2>1. /\ api' = api /\ slots[s].job \notin Jobs
        /\ queue' = queue \/ (queue # <<>> /\ queue' = Tail(queue))
        /\ \/ slots' = [slots EXCEPT ![s].pc = "read", ![s].job = Head(queue)] /\ queue # <<>>
           \/ slots' = slots
           \/ slots' = [slots EXCEPT ![s].pc = "dead"]
    BY <1>0, <1>1 DEF pop_from_queue, At, TypeInv, HeldJobs, Stages, Goto
  <2>2. queue # <<>> => /\ In(queue, Head(queue))
                        /\ \A i : In(Tail(queue), i) => In(queue, i)
    BY <1>0, TailFacts
  <2>3. InQueue(k)' => InQueue(k) BY <2>1, <2>2 DEF InQueue
  <2>4. \A t \in Slots : Holds(t, k)' => Holds(t, k) \/ InQueue(k)
    <3>1. \/ queue # <<>> /\ \A t \in Slots : slots'[t].job \in {slots[t].job, Head(queue)}
          \/ \A t \in Slots : slots'[t].job = slots[t].job
      <4>1. slots' = [slots EXCEPT ![s].pc = "read", ![s].job = Head(queue)] =>
              \A t \in Slots : slots'[t].job \in {slots[t].job, Head(queue)}
        BY <1>0 DEF Slot
      <4>2. slots' = [slots EXCEPT ![s].pc = "dead"] =>
              \A t \in Slots : slots'[t].job = slots[t].job
        BY <1>0 DEF Slot
      <4> QED BY <2>1, <4>1, <4>2
    <3> QED BY <2>2, <3>1 DEF Holds, InQueue
  <2> QED BY <2>1, <2>3, <2>4 DEF Carried
<1>2. CASE execute_task_lifecycle(s)
  <2> DEFINE j == slots[s].job
  <2>1. /\ slots[s].pc \in Stages /\ api' = api
        /\ queue' = queue \/ queue' = Append(queue, j)
    BY <1>2 DEF execute_task_lifecycle, ReadRecord, MarkProcessing, Download,
       RecordPhash, CacheLookup, Detect, StoreRaw, Persist, BumpOrOrphan, YieldTouch,
       YieldPush, Fail, Acquire, ExtractLimited, ExtractDone, At, Stages, push_to_queue
  <2>2. \A t \in Slots : slots'[t].job \in {slots[t].job, NoJob}
    <3>1. \/ \E stage : Goto(s, stage)
          \/ \E code : FailWith(s, code)
          \/ Release(s)
          \/ slots' = [slots EXCEPT ![s].pc = "mark", ![s].hashed = rows[j].phash]
          \/ \E b : slots' = [slots EXCEPT ![s].pc = "touch", ![s].again = b]
      BY <1>2 DEF execute_task_lifecycle, ReadRecord, MarkProcessing, Download,
         RecordPhash, CacheLookup, Detect, StoreRaw, Persist, BumpOrOrphan, YieldTouch,
         YieldPush, Fail, Acquire, ExtractLimited, ExtractDone, Postprocess
    <3> QED BY <1>0, <3>1 DEF Goto, FailWith, Release, IdleSlot, Slot
  <2>3. Holds(s, j) /\ j \in Jobs BY <2>1 DEF TypeInv, HeldJobs, Holds
  <2>4. In(queue', k) => In(queue, k) \/ k = j
    <3>1. In(Append(queue, j), k) <=> In(queue, k) \/ k = j BY <1>0, <2>3, AppendFacts
    <3> QED BY <2>1, <3>1
  <2> QED BY <1>0, <2>1, <2>2, <2>3, <2>4 DEF Carried, InQueue, Holds
<1> QED BY <1>1, <1>2 DEF SlotStep

\* The other steps carry a job only when its submission comes to the push.
LEMMA OtherStepSubmitted ==
  ASSUME TypeInv, SubmittedInv,
         \/ \E j \in Jobs : submit_receipt(j) \/ Age(j) \/ CrashApi(j) \/ CounterExpires(j)
         \/ \E w \in Workers : SweeperStep(w) \/ Crash(w)
         \/ \E h \in Hashes : CacheExpires(h)
         \/ Purge
         \/ UNCHANGED vars
  PROVE  SubmittedInv'
<1>0. /\ queue \in Seq(Jobs) /\ NoJob \notin Jobs
      /\ api \in [Jobs -> ApiSteps \union ApiAnswers]
  BY ConstantsAssumption DEF TypeInv, TypeOK
<1> SUFFICES ASSUME NEW k \in Jobs, api'[k] \in BeforeRow
             PROVE  api[k] \in BeforeRow /\ (Carried(k)' => Carried(k))
  BY DEF SubmittedInv
<1>1. CASE UNCHANGED <<api, queue, slots>> BY <1>1 DEF Carried, InQueue, Holds
<1>2. ASSUME NEW j \in Jobs, submit_receipt(j) \/ CrashApi(j)
      PROVE  api[k] \in BeforeRow /\ (Carried(k)' => Carried(k))
  <2>1. /\ slots' = slots
        /\ queue' = queue \/ queue' = Append(queue, j)
        /\ queue' # queue => api[j] = "push"
        /\ \E a : Answer(j, a) /\ (a \in BeforeRow => api[j] \in BeforeRow)
    BY <1>2 DEF submit_receipt, SubmitBegin, SubmitCheck, SubmitCreate, SubmitPush,
       CrashApi, push_to_queue, BeforeRow
  <2>2. /\ api[k] \in BeforeRow /\ api'[k] # "push"
        /\ queue' # queue => k # j
    BY <1>0, <2>1 DEF Answer, BeforeRow
  <2>3. In(queue', k) => In(queue, k)
    <3>1. In(Append(queue, j), k) <=> In(queue, k) \/ k = j BY <1>0, AppendFacts
    <3> QED BY <2>1, <2>2, <3>1
  <2> QED BY <2>1, <2>2, <2>3 DEF Carried, InQueue, Holds
<1>3. ASSUME NEW w \in Workers, Crash(w)
      PROVE  api[k] \in BeforeRow /\ (Carried(k)' => Carried(k))
  <2>1. /\ UNCHANGED <<queue, api>>
        /\ \A t \in Slots : slots'[t] \in {slots[t], IdleSlot}
    BY <1>3 DEF Crash
  <2>2. \A t \in Slots : Holds(t, k)' => Holds(t, k)
    <3>1. IdleSlot.job \notin Jobs BY <1>0 DEF IdleSlot
    <3> QED BY <2>1, <3>1 DEF Holds
  <2> QED BY <2>1, <2>2 DEF Carried, InQueue, BeforeRow
<1> QED BY <1>1, <1>2, <1>3 DEF Age, CounterExpires, SweeperStep, SweepSelect, SweepFail,
     CacheExpires, Purge, vars

\* A job that is not past its INSERT is carried by nobody, whatever fails.
LEMMA SubmittedInvHolds == Spec => []SubmittedInv
<1>1. Init => SubmittedInv
  BY ConstantsAssumption
  DEF Init, SubmittedInv, Carried, InQueue, In, Holds, IdleSlot
<1>2. TypeInv /\ SubmittedInv /\ [Next]_vars => SubmittedInv'
  <2>1. ASSUME TypeInv, SubmittedInv, Next PROVE SubmittedInv'
    BY <2>1, SlotStepSubmitted, OtherStepSubmitted DEF Next, Environment
  <2>2. ASSUME TypeInv, SubmittedInv, UNCHANGED vars PROVE SubmittedInv'
    BY <2>2, OtherStepSubmitted
  <2> QED BY <2>1, <2>2
<1>3. Spec => []TypeInv BY TypeCorrect DEF TypeInv
<1> QED BY <1>1, <1>2, <1>3, PTL DEF Spec

\* A slot that has the hash of its image on record, or has seen it there at
\* step 0, and its job's row, which has the hash or is purged.
HashSeen(s) ==
  \/ slots[s].pc \in {"lookup", "detect", "acquire", "extract", "store", "persist"}
  \/ slots[s].pc \in {"mark", "download"} /\ slots[s].hashed
HashKept(row) == row.status = "absent" \/ row.phash
HashSafe(j) ==
  /\ \A s \in Slots : HashSeen(s) /\ Holds(s, j) => HashKept(rows[j])
  /\ rows[j].status = "SUCCEEDED" => rows[j].phash

\* PhashLands is inductive when a slot that has lost the hash counts as well.
Hashless == {j \in Jobs : ~HashSafe(j)}
HashInv == IsFiniteSet(Hashless) /\ Cardinality(Hashless) <= spent

\* A write that keeps the hash of a row, and the absence of one.
KeepsHash(row, new) ==
  /\ HashKept(row) => HashKept(new)
  /\ new.status = "SUCCEEDED" => row.status = "SUCCEEDED" \/ HashKept(row)

\* No UPDATE of the lifecycle clears a hash, and only the write of the result
\* makes a row SUCCEEDED. (update_job_status, touch_updated_at)
LEMMA UpdatesKeepHashes ==
  ASSUME NEW row \in Row
  PROVE  /\ \A status \in (Terminal \union NonTerminal) \ {"SUCCEEDED"} : \A given :
              KeepsHash(row, update_job_status(row, status, given))
         /\ KeepsHash(row, touch_updated_at(row))
         /\ \A given : LET new == update_job_status(row, "SUCCEEDED", given) IN
              /\ HashKept(row) => HashKept(new)
              /\ new.status = "SUCCEEDED" /\ HashKept(row) => new.phash
         /\ \A status : HashKept(update_job_status(row, status, "phash"))
<1>1. \A status, given : row.phash => HashKept(update_job_status(row, status, given))
  BY DEF HashKept, update_job_status
<1>2. \A status, given : row.status = "absent" => update_job_status(row, status, given) = row
  BY DEF update_job_status
<1>3. \A status, given : row.status # "absent" =>
        update_job_status(row, status, given).status = status
  BY DEF update_job_status
<1>4. KeepsHash(row, touch_updated_at(row))
  BY DEF touch_updated_at, KeepsHash, HashKept, Row
<1>5. \A status : HashKept(update_job_status(row, status, "phash"))
  BY DEF update_job_status, HashKept
<1>6. \A status, given : row.status # "absent" /\ row.phash =>
        update_job_status(row, status, given).phash
  BY DEF update_job_status
<1> QED BY <1>1, <1>2, <1>3, <1>4, <1>5, <1>6 DEF HashKept, KeepsHash

\* What a slot's step without a fault does to hashes.
HashStep(s) ==
  LET j == slots[s].job IN
  /\ \A t \in Slots : t # s => slots'[t] = slots[t]
  /\ \A k \in Jobs : k # j => rows'[k] = rows[k]
  /\ HashKept(rows[j]) => HashKept(rows'[j])
  /\ rows'[j].status = "SUCCEEDED" => rows[j].status = "SUCCEEDED" \/ rows'[j].phash
  /\ HashSeen(s)' => slots'[s].job = j /\ HashKept(rows'[j])

\* Every stage of the lifecycle has that shape when nothing fails.
LEMMA StepKeepsHashes ==
  ASSUME TypeInv, NEW s \in Slots, HashSafe(slots[s].job), execute_task_lifecycle(s),
         spent' = spent
  PROVE  HashStep(s) /\ slots[s].pc \in Stages
<1> DEFINE j == slots[s].job
<1>0. CalmStep(s) /\ slots[s].pc \in Stages BY StepIsCalm
<1>1. /\ slots \in [Slots -> Slot] /\ j \in Jobs /\ rows[j] \in Row /\ rows \in [Jobs -> Row]
      /\ spent \in Nat
  BY <1>0, ConstantsAssumption DEF TypeInv, TypeOK, HeldJobs, CalmStep
<1>2. \A kind : ~Spend(kind) BY <1>1 DEF Spend
<1>4. \A row : \A o : PgUpdate(j, row, o) => o = "ok" /\ rows'[j] = row
  BY <1>1, <1>2 DEF PgUpdate, Applied, Call
<1>5. \A stage : Goto(s, stage) =>
        /\ slots'[s].job = j /\ slots'[s].pc = stage
        /\ slots'[s].hashed = slots[s].hashed
  BY <1>1 DEF Goto, Slot
<1>6. \A code : FailWith(s, code) => slots'[s].pc = "fail"
  BY <1>1 DEF FailWith, Slot
<1>7. Release(s) => slots'[s].pc = "idle"
  BY <1>1 DEF Release, IdleSlot
<1>8. /\ \A t \in Slots : t # s => slots'[t] = slots[t]
      /\ \A k \in Jobs : k # j => rows'[k] = rows[k]
  BY <1>0 DEF CalmStep
<1>9. HashSeen(s) => HashKept(rows[j])
  BY <1>1 DEF HashSafe, Holds
<1>a. ASSUME HashKept(rows[j]) => HashKept(rows'[j]),
             rows'[j].status = "SUCCEEDED" => rows[j].status = "SUCCEEDED" \/ rows'[j].phash,
             HashSeen(s)' => slots'[s].job = j /\ HashKept(rows'[j])
      PROVE  HashStep(s) /\ slots[s].pc \in Stages
  BY <1>0, <1>8, <1>a DEF HashStep
<1>b. ASSUME rows' = rows, HashSeen(s)' => slots'[s].job = j /\ HashKept(rows[j])
      PROVE  HashStep(s) /\ slots[s].pc \in Stages
  BY <1>a, <1>b
<1>c. slots'[s].pc \in {"fail", "idle", "touch", "push", "bump", "phash"} => ~HashSeen(s)'
  BY DEF HashSeen
<1>d. CASE ReadRecord(s)
  <2>1. CASE slots' = [slots EXCEPT ![s].pc = "mark", ![s].hashed = rows[j].phash]
    <3>1. slots'[s].job = j /\ slots'[s].pc = "mark" /\ slots'[s].hashed = rows[j].phash
      BY <1>1, <2>1 DEF Slot
    <3> QED BY <1>b, <1>d, <3>1 DEF ReadRecord, HashSeen, HashKept
  <2> QED BY <1>2, <1>7, <1>b, <1>c, <1>d, <2>1 DEF ReadRecord
<1>10. CASE MarkProcessing(s)
  <2>1. /\ At(s, "mark") /\ Goto(s, "download")
        /\ rows'[j] = update_job_status(rows[j], "PROCESSING", "nothing")
    BY <1>4, <1>10 DEF MarkProcessing
  <2>2. KeepsHash(rows[j], rows'[j])
    BY <1>1, <2>1, UpdatesKeepHashes DEF Terminal, NonTerminal, Failed
  <2>3. rows'[j].status # "SUCCEEDED" \/ rows'[j] = rows[j]
    BY <2>1 DEF update_job_status
  <2>4. HashSeen(s)' => HashSeen(s) /\ slots'[s].job = j
    BY <1>5, <2>1 DEF HashSeen, At
  <2> QED BY <1>9, <1>a, <2>2, <2>3, <2>4 DEF KeepsHash
<1>11. CASE RecordPhash(s)
  <2>1. /\ Goto(s, "lookup")
        /\ rows'[j] = update_job_status(rows[j], "PROCESSING", "phash")
    BY <1>4, <1>11 DEF RecordPhash
  <2>2. HashKept(rows'[j]) BY <1>1, <2>1, UpdatesKeepHashes
  <2>3. rows'[j].status # "SUCCEEDED" \/ rows'[j] = rows[j]
    BY <2>1 DEF update_job_status
  <2> QED BY <1>5, <1>a, <2>1, <2>2, <2>3
<1>12. CASE YieldTouch(s)
  <2>1. Goto(s, "push") /\ rows'[j] = touch_updated_at(rows[j])
    BY <1>4, <1>12 DEF YieldTouch
  <2>2. HashKept(rows[j]) => HashKept(rows'[j])
    BY <1>1, <2>1, UpdatesKeepHashes DEF KeepsHash
  <2>3. rows'[j].status = rows[j].status
    BY <1>1, <2>1 DEF touch_updated_at, Row
  <2> QED BY <1>5, <1>a, <1>c, <2>1, <2>2, <2>3
<1>13. CASE Persist(s)
  <2>1. CASE j \in Unstorable BY <1>5, <1>b, <1>c, <1>13, <2>1 DEF Persist
  <2>2. CASE j \notin Unstorable
    <3>1. /\ At(s, "persist") /\ Release(s)
          /\ rows'[j] = update_job_status(rows[j], "SUCCEEDED", "result")
      BY <1>4, <1>13, <2>2 DEF Persist
    <3>2. HashKept(rows[j]) BY <1>9, <3>1 DEF HashSeen, At
    <3>3. HashKept(rows'[j]) /\ (rows'[j].status = "SUCCEEDED" => rows'[j].phash)
      BY <1>1, <3>1, <3>2, UpdatesKeepHashes
    <3> QED BY <1>7, <1>a, <1>c, <3>1, <3>3
  <2> QED BY <2>1, <2>2
<1>14. CASE Fail(s)
  <2>1. FailStatus(slots[s].verdict) \in Failed
    BY DEF FailStatus, Failed
  <2>2. /\ Release(s)
        /\ \E status \in Failed : \E given : rows'[j] = update_job_status(rows[j], status, given)
    BY <1>4, <1>14, <2>1 DEF Fail
  <2>3. KeepsHash(rows[j], rows'[j])
    BY <1>1, <2>2, UpdatesKeepHashes DEF Terminal, Failed
  <2>4. rows'[j].status # "SUCCEEDED" \/ rows'[j] = rows[j]
    BY <2>2 DEF update_job_status, Failed
  <2> QED BY <1>7, <1>a, <1>c, <2>2, <2>3, <2>4 DEF KeepsHash
<1>15. CASE YieldPush(s)
  <2>1. CASE slots' = [slots EXCEPT ![s].pc = "touch", ![s].again = FALSE]
    <3>1. slots'[s].pc = "touch" BY <1>1, <2>1 DEF Slot
    <3> QED BY <1>b, <1>c, <1>15, <3>1 DEF YieldPush
  <2> QED BY <1>6, <1>7, <1>b, <1>c, <1>15, <2>1 DEF YieldPush
<1>16. CASE BumpOrOrphan(s)
  BY <1>2, <1>5, <1>6, <1>b, <1>c, <1>16 DEF BumpOrOrphan
<1>17. CASE Download(s)
  BY <1>5, <1>6, <1>9, <1>b, <1>c, <1>17 DEF Download, At, HashSeen
<1>18. CASE CacheLookup(s) \/ Detect(s) \/ StoreRaw(s) \/ Acquire(s, TRUE) \/ Acquire(s, FALSE)
            \/ ExtractLimited(s) \/ ExtractDone(s)
  <2>1. rows' = rows /\ HashSeen(s)
    BY <1>18 DEF CacheLookup, Detect, StoreRaw, Acquire, ExtractLimited, ExtractDone, At,
       HashSeen
  <2>2. (\E stage : Goto(s, stage)) \/ (\E code : FailWith(s, code))
    BY <1>18 DEF CacheLookup, Detect, StoreRaw, Acquire, ExtractLimited, ExtractDone,
       Postprocess
  <2> QED BY <1>5, <1>6, <1>9, <1>b, <1>c, <2>1, <2>2
<1> QED BY <1>0, <1>d, <1>10, <1>11, <1>12, <1>13, <1>14, <1>15, <1>16, <1>17, <1>18
        DEF execute_task_lifecycle

\* A step is free, and then costs nobody the hash, or it is one fault and costs
\* at most one job its hash.
MayForget(j) ==
  \/ spent' = spent /\ \A k \in Jobs : HashSafe(k) => HashSafe(k)'
  \/ spent' = spent + 1 /\ \A k \in Jobs : k # j => (HashSafe(k) => HashSafe(k)')

\* The steps of a slot: its job at most.
LEMMA SlotStepHashes ==
  ASSUME TypeInv, NEW s \in Slots, SlotStep(s)
  PROVE  \E j : MayForget(j)
<1>0. slots \in [Slots -> Slot] /\ spent \in Nat
  BY ConstantsAssumption DEF TypeInv, TypeOK
<1>2. CASE pop_from_queue(s)
  <2>1. /\ rows' = rows /\ spent' \in {spent, spent + 1}
        /\ \/ slots' = [slots EXCEPT ![s].pc = "read", ![s].job = Head(queue)]
           \/ slots' = slots
           \/ slots' = [slots EXCEPT ![s].pc = "dead"]
    BY <1>2 DEF pop_from_queue, Spend, Goto
  <2>2. \A t \in Slots : HashSeen(t)' => HashSeen(t) /\ slots'[t] = slots[t]
    BY <1>0, <2>1 DEF HashSeen, Slot
  <2>3. \A k \in Jobs : HashSafe(k) => HashSafe(k)'
    BY <2>1, <2>2 DEF HashSafe, Holds
  <2>4. spent' = spent \/ spent' = spent + 1 BY <2>1
  <2> QED BY <2>3, <2>4 DEF MayForget
<1>3. CASE execute_task_lifecycle(s)
  <2> PICK j : j = slots[s].job OBVIOUS
  <2>1. OwnStep(s) /\ j \in Jobs BY <1>3, StepIsOwn
  <2>2. slots'[s].job \in {j, NoJob}
    <3>1. \/ \E stage : Goto(s, stage)
          \/ \E code : FailWith(s, code)
          \/ Release(s)
          \/ slots' = [slots EXCEPT ![s].pc = "mark", ![s].hashed = rows[j].phash]
          \/ \E b : slots' = [slots EXCEPT ![s].pc = "touch", ![s].again = b]
      BY <1>3 DEF execute_task_lifecycle, ReadRecord, MarkProcessing, Download,
         RecordPhash, CacheLookup, Detect, StoreRaw, Persist, BumpOrOrphan, YieldTouch,
         YieldPush, Fail, Acquire, ExtractLimited, ExtractDone, Postprocess
    <3> QED BY <1>0, <3>1 DEF Goto, FailWith, Release, IdleSlot, Slot
  <2>3. ASSUME NEW k \in Jobs, k # j, HashSafe(k) PROVE HashSafe(k)'
    <3>1. rows'[k] = rows[k] BY <2>1, <2>3 DEF OwnStep
    <3>2. ~Holds(s, k)' BY <2>2, <2>3, ConstantsAssumption DEF Holds
    <3>3. \A t \in Slots : t # s /\ HashSeen(t)' /\ Holds(t, k)' => HashSeen(t) /\ Holds(t, k)
      BY <2>1 DEF OwnStep, HashSeen, Holds
    <3> QED BY <2>3, <3>1, <3>2, <3>3 DEF HashSafe
  <2>4. ASSUME spent' = spent, HashSafe(j) PROVE HashSafe(j)'
    <3>1. HashStep(s) BY <1>3, <2>4, StepKeepsHashes
    <3>2. ASSUME NEW t \in Slots, HashSeen(t)', Holds(t, j)' PROVE HashKept(rows'[j])
      <4>1. CASE t = s BY <3>1, <3>2, <4>1 DEF HashStep
      <4>2. CASE t # s
        <5>1. HashSeen(t) /\ Holds(t, j) BY <3>1, <3>2, <4>2 DEF HashStep, HashSeen, Holds
        <5> QED BY <2>4, <3>1, <5>1 DEF HashStep, HashSafe
      <4> QED BY <4>1, <4>2
    <3>3. rows'[j].status = "SUCCEEDED" => rows'[j].phash
      BY <2>4, <3>1 DEF HashStep, HashSafe, HashKept
    <3> QED BY <3>2, <3>3 DEF HashSafe
  <2>5. spent' = spent \/ spent' = spent + 1 BY <2>1 DEF OwnStep
  <2> QED BY <2>3, <2>4, <2>5 DEF MayForget
<1> QED BY <1>2, <1>3 DEF SlotStep

\* The other steps cost nobody the hash: the INSERT touches the row of nobody's
\* job.
LEMMA OtherStepHashes ==
  ASSUME TypeInv, SubmittedInv,
         \/ \E j \in Jobs : submit_receipt(j) \/ Age(j) \/ CrashApi(j) \/ CounterExpires(j)
         \/ \E w \in Workers : SweeperStep(w) \/ Crash(w)
         \/ \E h \in Hashes : CacheExpires(h)
         \/ Purge
         \/ UNCHANGED vars
  PROVE  \E j : MayForget(j)
<1>0. slots \in [Slots -> Slot] /\ rows \in [Jobs -> Row]
  BY DEF TypeInv, TypeOK
<1>1. \A kind : Spend(kind) => spent' = spent + 1 BY DEF Spend
<1>2. \A o : Call(o) => spent' = spent \/ spent' = spent + 1 BY <1>1 DEF Call
<1>3. ASSUME \A t \in Slots : slots'[t] \in {slots[t], IdleSlot},
             spent' = spent \/ spent' = spent + 1,
             \A k \in Jobs : /\ HashKept(rows[k]) => HashKept(rows'[k])
                             /\ rows'[k].status = "SUCCEEDED" =>
                                  rows[k].status = "SUCCEEDED" /\ (rows[k].phash => rows'[k].phash)
      PROVE  \E j : MayForget(j)
  <2>1. \A k \in Jobs : \A t \in Slots :
          HashSeen(t)' /\ Holds(t, k)' => HashSeen(t) /\ Holds(t, k)
    BY <1>3, ConstantsAssumption DEF HashSeen, Holds, IdleSlot
  <2>2. ASSUME NEW k \in Jobs, HashSafe(k) PROVE HashSafe(k)'
    <3>1. \A t \in Slots : HashSeen(t)' /\ Holds(t, k)' => HashKept(rows'[k])
      BY <1>3, <2>1, <2>2 DEF HashSafe
    <3>2. rows'[k].status = "SUCCEEDED" => rows'[k].phash
      BY <1>3, <2>2 DEF HashSafe
    <3> QED BY <3>1, <3>2 DEF HashSafe
  <2> QED BY <1>3, <2>2 DEF MayForget
<1>4. ASSUME NEW j \in Jobs, SubmitCreate(j) PROVE \E i : MayForget(i)
  <2>1. /\ slots' = slots /\ api[j] \in BeforeRow
        /\ spent' = spent \/ spent' = spent + 1
        /\ rows' = rows \/ rows' = [rows EXCEPT ![j] = [AbsentRow EXCEPT !.status = "PENDING"]]
    BY <1>2, <1>4 DEF SubmitCreate, PgUpdate, BeforeRow
  <2>2. \A t \in Slots : ~Holds(t, j)' BY <2>1 DEF SubmittedInv, Carried, Holds
  <2>3. rows'[j] = rows[j] \/ rows'[j].status = "PENDING"
    BY <1>0, <2>1 DEF AbsentRow
  <2>4. \A k \in Jobs : k # j => rows'[k] = rows[k]
    BY <1>0, <2>1
  <2>5. \A k \in Jobs : HashSafe(k) => HashSafe(k)'
    BY <2>1, <2>2, <2>3, <2>4 DEF HashSafe, HashSeen, Holds
  <2> QED BY <2>1, <2>5 DEF MayForget
<1>5. ASSUME NEW j \in Jobs, Age(j) PROVE \E i : MayForget(i)
  <2>1. /\ UNCHANGED <<spent, slots>>
        /\ \A k \in Jobs : /\ rows'[k].status = rows[k].status
                           /\ rows'[k].phash = rows[k].phash
    BY <1>0, <1>5 DEF Age, Row
  <2> QED BY <1>3, <2>1 DEF HashKept
<1>6. ASSUME NEW w \in Workers, NEW j \in Jobs, SweepFail(w, j) PROVE \E i : MayForget(i)
  <2> DEFINE new == update_job_status(rows[j], "FAILED_TRANSIENT", "stale_timeout")
  <2>1. /\ slots' = slots /\ \A k \in Jobs : k # j => rows'[k] = rows[k]
        /\ spent' = spent \/ spent' = spent + 1
        /\ rows'[j] = rows[j] \/ rows'[j] = new
    BY <1>0, <1>2, <1>6 DEF SweepFail, PgUpdate
  <2>2. HashKept(rows[j]) => HashKept(new)
    BY <1>0, UpdatesKeepHashes DEF KeepsHash, Terminal, Failed
  <2>3. new.status = "SUCCEEDED" => new = rows[j]
    BY DEF update_job_status
  <2> QED BY <1>3, <2>1, <2>2, <2>3
<1>7. CASE Purge
  <2>1. /\ UNCHANGED <<spent, slots>>
        /\ \A k \in Jobs : rows'[k] = rows[k] \/ rows'[k].status = "absent"
    BY <1>7 DEF Purge, AbsentRow
  <2> QED BY <1>3, <2>1 DEF HashKept
<1>8. CASE \/ UNCHANGED vars
           \/ \E w \in Workers : SweepSelect(w) \/ Crash(w)
           \/ \E j \in Jobs : \/ CounterExpires(j) \/ CrashApi(j)
                              \/ SubmitBegin(j) \/ SubmitCheck(j) \/ SubmitPush(j)
           \/ \E h \in Hashes : CacheExpires(h)
  <2>1. rows' = rows /\ (spent' = spent \/ spent' = spent + 1)
    BY <1>1, <1>2, <1>8 DEF SweepSelect, Crash, CounterExpires, CrashApi, SubmitBegin,
       SubmitCheck, SubmitPush, push_to_queue, CacheExpires, vars
  <2>2. \A t \in Slots : slots'[t] \in {slots[t], IdleSlot}
    BY <1>8 DEF SweepSelect, Crash, CounterExpires, CrashApi, SubmitBegin,
       SubmitCheck, SubmitPush, CacheExpires, vars
  <2> QED BY <1>3, <2>1, <2>2
<1> QED BY <1>4, <1>5, <1>6, <1>7, <1>8 DEF submit_receipt, SweeperStep

LEMMA HashesAdd ==
  ASSUME spent \in Nat, HashInv, NEW j, MayForget(j)
  PROVE  HashInv'
<1>1. Hashless = {k \in Jobs : ~HashSafe(k)} /\ Hashless' = {k \in Jobs : ~HashSafe(k)'}
  BY DEF Hashless
<1>2. IsFiniteSet({j}) /\ Cardinality({j}) = 1 /\ IsFiniteSet({}) /\ Cardinality({}) = 0
  BY FS_Singleton, FS_EmptySet
<1>3. CASE spent' = spent /\ \A k \in Jobs : HashSafe(k) => HashSafe(k)'
  <2>1. Hashless' \subseteq Hashless \cup {} BY <1>1, <1>3
  <2>2. /\ IsFiniteSet(Hashless') /\ Cardinality(Hashless') \in Nat
        /\ Cardinality(Hashless) \in Nat
        /\ Cardinality(Hashless') <= Cardinality(Hashless) + Cardinality({})
    BY <1>2, <2>1, GrowsBy DEF HashInv
  <2> QED BY <1>2, <1>3, <2>2 DEF HashInv
<1>4. CASE spent' = spent + 1 /\ \A k \in Jobs : k # j => (HashSafe(k) => HashSafe(k)')
  <2>1. Hashless' \subseteq Hashless \cup {j} BY <1>1, <1>4
  <2>2. /\ IsFiniteSet(Hashless') /\ Cardinality(Hashless') \in Nat
        /\ Cardinality(Hashless) \in Nat
        /\ Cardinality(Hashless') <= Cardinality(Hashless) + Cardinality({j})
    BY <1>2, <2>1, GrowsBy DEF HashInv
  <2> QED BY <1>2, <1>4, <2>2 DEF HashInv
<1> QED BY <1>3, <1>4 DEF MayForget

\* Whatever fails, at most as many jobs succeed without a hash on record as
\* there were faults, whoever wrote it and however often jobs were given back.
THEOREM HashIsRecorded == Spec => []PhashLands
<1>1. ASSUME Init PROVE HashInv
  <2>1. Hashless = {} BY <1>1 DEF Init, Hashless, HashSafe, HashSeen, IdleSlot, AbsentRow
  <2> QED BY <1>1, <2>1, FS_EmptySet DEF Init, HashInv
<1>2. TypeInv /\ SubmittedInv /\ HashInv /\ [Next]_vars => HashInv'
  <2> SUFFICES ASSUME TypeInv, SubmittedInv, HashInv, [Next]_vars PROVE HashInv' OBVIOUS
  <2>1. \E j : MayForget(j)
    BY SlotStepHashes, OtherStepHashes DEF Next, Environment
  <2>2. spent \in Nat BY ConstantsAssumption DEF TypeInv, TypeOK
  <2> QED BY <2>1, <2>2, HashesAdd
<1>3. Spec => []TypeInv BY TypeCorrect DEF TypeInv
<1>4. TypeInv /\ HashInv => PhashLands
  <2> SUFFICES ASSUME TypeInv, HashInv PROVE PhashLands OBVIOUS
  <2> DEFINE S == {j \in Jobs : rows[j].status = "SUCCEEDED" /\ ~rows[j].phash}
  <2>1. S \subseteq Hashless BY DEF Hashless, HashSafe
  <2>2. /\ Cardinality(S) <= Cardinality(Hashless)
        /\ Cardinality(S) \in Nat /\ Cardinality(Hashless) \in Nat
    BY <2>1, FS_Subset, FS_CardinalityType DEF HashInv
  <2>3. spent \in Nat BY ConstantsAssumption DEF TypeInv, TypeOK
  <2> QED BY <2>2, <2>3 DEF PhashLands, HashInv
<1> QED BY <1>1, <1>2, <1>3, <1>4, SubmittedInvHolds, PTL DEF Spec

-----------------------------------------------------------------------------
(* Counting the copies of a job.                                           *)

One(b) == IF b THEN 1 ELSE 0

\* Two finite sets that differ in one element at most.
LEMMA OneMember ==
  ASSUME NEW S, NEW T, NEW x, IsFiniteSet(S), \A y : y # x => (y \in T <=> y \in S)
  PROVE  /\ IsFiniteSet(T) /\ Cardinality(S) \in Nat /\ Cardinality(T) \in Nat
         /\ Cardinality(T) = Cardinality(S) + One(x \in T) - One(x \in S)
<1>1. Cardinality(S) \in Nat BY FS_CardinalityType
<1>2. CASE x \in T
  <2>1. T = S \cup {x} BY <1>2
  <2>2. /\ IsFiniteSet(T)
        /\ Cardinality(T) = IF x \in S THEN Cardinality(S) ELSE Cardinality(S) + 1
    BY <2>1, FS_AddElement
  <2> QED BY <1>1, <1>2, <2>2 DEF One
<1>3. CASE x \notin T
  <2>1. T = S \ {x} BY <1>3
  <2>2. /\ IsFiniteSet(T)
        /\ Cardinality(T) = IF x \in S THEN Cardinality(S) - 1 ELSE Cardinality(S)
    BY <2>1, FS_RemoveElement
  <2>3. Cardinality(T) \in Nat BY <2>2, FS_CardinalityType
  <2> QED BY <1>1, <1>3, <2>2, <2>3 DEF One
<1> QED BY <1>2, <1>3

\* Where the messages of a job are in a queue, and how many.
Places(q, j) == {i \in 1..Len(q) : q[i] = j}

LEMMA PlacesType ==
  ASSUME NEW q \in Seq(Jobs), NEW j
  PROVE  IsFiniteSet(Places(q, j)) /\ Cardinality(Places(q, j)) \in Nat
<1>1. IsFiniteSet(1..Len(q)) BY FS_Interval
<1>2. Places(q, j) \in SUBSET (1..Len(q)) BY DEF Places
<1> QED BY <1>1, <1>2, FS_Subset, FS_CardinalityType

\* LPUSH makes one message more of its job. (push_to_queue)
LEMMA AppendCounts ==
  ASSUME NEW q \in Seq(Jobs), NEW j \in Jobs, NEW k
  PROVE  Cardinality(Places(Append(q, j), k)) = Cardinality(Places(q, k)) + One(k = j)
<1> DEFINE r == Append(q, j)
           n == Len(q) + 1
<1>1. /\ Len(r) = n /\ Len(q) \in Nat /\ r[n] = j
      /\ \A i \in 1..Len(q) : r[i] = q[i]
  OBVIOUS
<1> HIDE DEF r
<1>2. 1..n = (1..Len(q)) \cup {n} /\ n \notin 1..Len(q) BY <1>1
<1>3. \A i : i # n => (i \in Places(r, k) <=> i \in Places(q, k))
  BY <1>1, <1>2 DEF Places
<1>4. n \notin Places(q, k) /\ (n \in Places(r, k) <=> k = j)
  BY <1>1, <1>2 DEF Places
<1>5. /\ Cardinality(Places(q, k)) \in Nat
      /\ Cardinality(Places(r, k)) =
           Cardinality(Places(q, k)) + One(n \in Places(r, k)) - One(n \in Places(q, k))
  BY <1>3, PlacesType, OneMember
<1> QED BY <1>4, <1>5 DEF One, r

\* BRPOP makes one message less of the job at the head. (pop_from_queue)
LEMMA TailCounts ==
  ASSUME NEW q \in Seq(Jobs), q # <<>>, NEW k
  PROVE  Cardinality(Places(Tail(q), k)) = Cardinality(Places(q, k)) - One(k = Head(q))
<1> DEFINE r == Tail(q)
           P == Places(q, k) \ {1}
           shift == [i \in Places(r, k) |-> i + 1]
<1>1. /\ r \in Seq(Jobs) /\ Len(r) = Len(q) - 1 /\ Len(q) \in Nat /\ Len(q) > 0
      /\ Head(q) = q[1] /\ \A i \in 1..Len(r) : r[i] = q[i + 1]
  OBVIOUS
<1> HIDE DEF r
<1>2. \A i \in Places(r, k) : i \in Int /\ i + 1 \in P
  BY <1>1 DEF Places
<1>3. \A i \in P : i \in Int /\ i - 1 \in Places(r, k)
  <2> SUFFICES ASSUME NEW i \in P PROVE i \in Int /\ i - 1 \in Places(r, k) OBVIOUS
  <2>1. i \in 2..Len(q) /\ q[i] = k BY <1>1 DEF Places
  <2>2. i - 1 \in 1..Len(r) /\ (i - 1) + 1 = i BY <1>1, <2>1
  <2> QED BY <1>1, <2>1, <2>2 DEF Places
<1>4. shift \in [Places(r, k) -> P] BY <1>2
<1>5. \A a, b \in Places(r, k) : shift[a] = shift[b] => a = b BY <1>2
<1>6. \A p \in P : \E i \in Places(r, k) : shift[i] = p
  <2> SUFFICES ASSUME NEW p \in P PROVE \E i \in Places(r, k) : shift[i] = p OBVIOUS
  <2>1. p \in Int /\ p - 1 \in Places(r, k) BY <1>3
  <2>2. shift[p - 1] = p BY <2>1
  <2> QED BY <2>1, <2>2
<1>7. ExistsBijection(Places(r, k), P)
  <2> HIDE DEF shift, P
  <2>1. shift \in Bijection(Places(r, k), P) BY <1>4, <1>5, <1>6, Fun_IsBij
  <2> QED BY <2>1 DEF ExistsBijection
<1>8. Cardinality(P) = Cardinality(Places(r, k)) BY <1>1, <1>7, PlacesType, FS_Bijection
<1>9. Cardinality(P) = IF 1 \in Places(q, k) THEN Cardinality(Places(q, k)) - 1
                                             ELSE Cardinality(Places(q, k))
  BY PlacesType, FS_RemoveElement
<1>10. 1 \in Places(q, k) <=> k = Head(q) BY <1>1 DEF Places
<1>11. Cardinality(Places(q, k)) \in Nat BY PlacesType
<1> QED BY <1>8, <1>9, <1>10, <1>11 DEF One, r

Runners(j) == {s \in Slots : Working(s, j)}
Twice(j) == {s \in Slots : Working(s, j) /\ slots[s].again}

\* CopiesBounded is inductive together with SubmittedInv and two facts: a slot
\* that runs no job owes nothing, and finitely many slots run one.
CopiesInv ==
  /\ \A s \in Slots : slots[s].again => slots[s].pc \in Stages
  /\ \A j \in Jobs : IsFiniteSet(Runners(j))
  /\ CopiesBounded

LEMMA CopiesSum ==
  \A j : Copies(j) = Cardinality(Places(queue, j)) + Cardinality(Runners(j))
                     + Cardinality(Twice(j)) + One(api[j] = "push")
<1> QED BY DEF Copies, Places, Runners, Twice, One

\* The messages a slot still owes: its own, and a second one.
Owed(s) == IF slots[s].pc = "fail" \/ slots[s].job \notin Jobs THEN 0
           ELSE IF slots[s].again THEN 2 ELSE 1

\* What a slot's step does to the messages of its job, whatever fails: what it
\* pushes and what it owes afterwards is what it owed before, and one more at
\* most when it is a fault that made it so.
CountedStep(s) ==
  LET j == slots[s].job IN
  /\ api' = api
  /\ \A t \in Slots : t # s => slots'[t] = slots[t]
  /\ slots'[s].job \in {j, NoJob}
  /\ slots'[s].again => slots'[s].pc \in Stages
  /\ \/ queue' = queue /\ Owed(s)' <= Owed(s) + (spent' - spent)
     \/ queue' = Append(queue, j) /\ Owed(s)' + 1 <= Owed(s) + (spent' - spent)

LEMMA StepIsCounted ==
  ASSUME TypeInv, NEW s \in Slots, execute_task_lifecycle(s)
  PROVE  CountedStep(s) /\ slots[s].pc \in Stages /\ (spent' = spent \/ spent' = spent + 1)
<1> DEFINE j == slots[s].job
<1>0. /\ slots[s].pc \in Stages /\ api' = api
      /\ slots[s].pc # "push" => queue' = queue
  BY DEF execute_task_lifecycle, ReadRecord, MarkProcessing, Download,
     RecordPhash, CacheLookup, Detect, StoreRaw, Persist, BumpOrOrphan, YieldTouch,
     YieldPush, Fail, Acquire, ExtractLimited, ExtractDone, At, Stages
<1>1. /\ slots \in [Slots -> Slot] /\ j \in Jobs /\ spent \in Nat /\ NoJob \notin Jobs
      /\ slots[s].again \in BOOLEAN
  BY <1>0, ConstantsAssumption DEF TypeInv, TypeOK, HeldJobs, Slot
<1>2. \A o : Call(o) => IF o = "ok" THEN spent' = spent ELSE spent' = spent + 1
  BY ConstantsAssumption DEF Call, Spend, FaultKinds
<1>3. spent' \in {spent, spent + 1}
  BY <1>2 DEF execute_task_lifecycle, ReadRecord, MarkProcessing, Download,
     RecordPhash, CacheLookup, Detect, StoreRaw, Persist, BumpOrOrphan, YieldTouch,
     YieldPush, Fail, Acquire, ExtractLimited, ExtractDone, PgUpdate, push_to_queue, Spend
<1>4. \A stage \in Stages : Goto(s, stage) =>
        /\ slots'[s].job = j /\ slots'[s].pc = stage /\ slots'[s].again = slots[s].again
        /\ \A t \in Slots : t # s => slots'[t] = slots[t]
  BY <1>1 DEF Goto, Slot
<1>5. \A code : FailWith(s, code) =>
        /\ slots'[s].job = j /\ slots'[s].pc = "fail"
        /\ \A t \in Slots : t # s => slots'[t] = slots[t]
  BY <1>1 DEF FailWith, Slot
<1>6. Release(s) =>
        /\ slots'[s].job = NoJob /\ ~slots'[s].again
        /\ \A t \in Slots : t # s => slots'[t] = slots[t]
  BY <1>1 DEF Release, IdleSlot
<1>7. Owed(s) = IF slots[s].pc = "fail" THEN 0 ELSE IF slots[s].again THEN 2 ELSE 1
  BY <1>1 DEF Owed
<1>d. spent' = spent \/ spent' = spent + 1 BY <1>3
<1>n. Owed(s) \in Nat BY <1>7
\* A step without a push, which owes no more than before.
<1>8. ASSUME queue' = queue, slots[s].pc # "fail" \/ Release(s),
             (\E stage \in Stages : Goto(s, stage)) \/ (\E code : FailWith(s, code))
             \/ Release(s)
      PROVE  CountedStep(s) /\ slots[s].pc \in Stages /\ (spent' = spent \/ spent' = spent + 1)
  <2>0. ASSUME Owed(s)' <= Owed(s), Owed(s)' \in Nat
        PROVE  Owed(s)' <= Owed(s) + (spent' - spent)
    BY <1>1, <1>d, <1>n, <2>0
  <2>1. CASE \E stage \in Stages : Goto(s, stage)
    <3>1. PICK stage \in Stages : Goto(s, stage) BY <2>1
    <3>2. CASE Release(s)
      <4>1. Owed(s)' = 0 BY <1>1, <1>6, <3>2 DEF Owed
      <4>2. Owed(s)' <= Owed(s) + (spent' - spent) BY <1>n, <2>0, <4>1
      <4> QED BY <1>0, <1>d, <1>6, <1>8, <3>2, <4>2 DEF CountedStep
    <3>3. CASE slots[s].pc # "fail"
      <4>1. Owed(s)' <= Owed(s) BY <1>1, <1>4, <1>7, <3>1, <3>3 DEF Owed
      <4>2. Owed(s)' \in Nat BY DEF Owed
      <4>3. Owed(s)' <= Owed(s) + (spent' - spent) BY <2>0, <4>1, <4>2
      <4>4. slots'[s].again => slots[s].pc \in Stages BY <1>0
      <4> QED BY <1>0, <1>d, <1>4, <1>8, <3>1, <4>3, <4>4 DEF CountedStep
    <3> QED BY <1>8, <3>2, <3>3
  <2>2. CASE \E code : FailWith(s, code)
    <3>1. Owed(s)' = 0 BY <1>5, <2>2 DEF Owed
    <3>2. Owed(s)' <= Owed(s) + (spent' - spent) BY <1>n, <2>0, <3>1
    <3>3. slots'[s].pc \in Stages BY <1>5, <2>2 DEF Stages
    <3> QED BY <1>0, <1>d, <1>5, <1>8, <2>2, <3>2, <3>3 DEF CountedStep
  <2>3. CASE Release(s)
    <3>1. Owed(s)' = 0 BY <1>1, <1>6, <2>3 DEF Owed
    <3>2. Owed(s)' <= Owed(s) + (spent' - spent) BY <1>n, <2>0, <3>1
    <3> QED BY <1>0, <1>d, <1>6, <1>8, <2>3, <3>2 DEF CountedStep
  <2> QED BY <1>8, <2>1, <2>2, <2>3
<1>9. CASE ReadRecord(s)
  <2>1. CASE slots' = [slots EXCEPT ![s].pc = "mark", ![s].hashed = rows[j].phash]
    <3>1. /\ slots'[s].job = j /\ slots'[s].pc = "mark" /\ slots'[s].again = slots[s].again
          /\ \A t \in Slots : t # s => slots'[t] = slots[t]
      BY <1>1, <2>1 DEF Slot
    <3>2. queue' = queue /\ slots[s].pc = "read" BY <1>9 DEF ReadRecord, At
    <3>3. Owed(s)' = Owed(s) BY <1>1, <1>7, <3>1, <3>2 DEF Owed
    <3>4. Owed(s)' <= Owed(s) + (spent' - spent) BY <1>1, <1>d, <1>n, <3>3
    <3>5. slots'[s].pc \in Stages BY <3>1 DEF Stages
    <3> QED BY <1>0, <1>d, <3>1, <3>2, <3>4, <3>5 DEF CountedStep
  <2> QED BY <1>0, <1>3, <1>8, <1>1, <1>9, <2>1 DEF ReadRecord, At, Stages
<1>10. CASE BumpOrOrphan(s)
  <2>1. CASE slots' = [slots EXCEPT ![s].pc = "touch", ![s].again = TRUE] /\ spent' = spent + 1
    <3>1. /\ slots'[s].job = j /\ slots'[s].pc = "touch" /\ slots'[s].again
          /\ \A t \in Slots : t # s => slots'[t] = slots[t]
      BY <1>1, <2>1 DEF Slot
    <3>2. Owed(s)' = 2 /\ Owed(s) \in {1, 2} /\ queue' = queue
      BY <1>1, <1>7, <1>10, <3>1 DEF Owed, BumpOrOrphan, At
    <3> QED BY <1>0, <1>1, <1>3, <2>1, <3>1, <3>2 DEF CountedStep, Stages
  <2> QED BY <1>0, <1>1, <1>3, <1>8, <1>10, <2>1 DEF BumpOrOrphan, At, Stages, Spend
<1>11. CASE YieldPush(s)
  <2>1. PICK o \in PushOutcomes :
          /\ push_to_queue(j, o)
          /\ IF o # "ok" THEN FailWith(s, "storage_transient")
             ELSE IF slots[s].again
             THEN slots' = [slots EXCEPT ![s].pc = "touch", ![s].again = FALSE]
             ELSE Release(s)
    BY <1>11 DEF YieldPush
  <2>2. Owed(s) = IF slots[s].again THEN 2 ELSE 1
    BY <1>7, <1>11 DEF YieldPush, At
  <2>3. queue' = queue \/ queue' = Append(queue, j) BY <2>1 DEF push_to_queue
  <2>4. CASE o # "ok"
    <3>1. spent' = spent + 1 BY <1>2, <2>1, <2>4 DEF push_to_queue
    <3>2. Owed(s)' = 0 BY <1>5, <2>1, <2>4 DEF Owed
    <3> QED BY <1>0, <1>1, <1>3, <1>5, <2>1, <2>2, <2>3, <2>4, <3>1, <3>2
            DEF CountedStep, Stages
  <2>5. CASE o = "ok"
    <3>1. spent' = spent /\ queue' = Append(queue, j)
      BY <1>2, <2>1, <2>5 DEF push_to_queue, Applied
    <3>2. CASE slots[s].again
      <4>1. /\ slots'[s].job = j /\ slots'[s].pc = "touch" /\ ~slots'[s].again
            /\ \A t \in Slots : t # s => slots'[t] = slots[t]
        BY <1>1, <2>1, <2>5, <3>2 DEF Slot
      <4>2. Owed(s)' = 1 BY <1>1, <4>1 DEF Owed
      <4> QED BY <1>0, <1>1, <1>3, <2>2, <3>1, <3>2, <4>1, <4>2 DEF CountedStep, Stages
    <3>3. CASE ~slots[s].again
      <4>1. Release(s) BY <2>1, <2>5, <3>3
      <4>2. Owed(s)' = 0 BY <1>1, <1>6, <4>1 DEF Owed
      <4> QED BY <1>0, <1>1, <1>3, <1>6, <2>2, <3>1, <3>3, <4>1, <4>2 DEF CountedStep
    <3> QED BY <3>2, <3>3
  <2> QED BY <1>0, <1>d, <2>4, <2>5
<1>12. CASE Fail(s)
  BY <1>8, <1>12 DEF Fail
<1>13. CASE \/ MarkProcessing(s) \/ Download(s) \/ RecordPhash(s) \/ CacheLookup(s) \/ Detect(s)
            \/ StoreRaw(s) \/ Persist(s) \/ YieldTouch(s) \/ Acquire(s, TRUE)
            \/ Acquire(s, FALSE) \/ ExtractLimited(s) \/ ExtractDone(s)
  <2>1. slots[s].pc \notin {"push", "fail"}
    BY <1>13 DEF MarkProcessing, Download,
       RecordPhash, CacheLookup, Detect, StoreRaw, Persist, YieldTouch,
       Acquire, ExtractLimited, ExtractDone, At
  <2>2. (\E stage \in Stages : Goto(s, stage)) \/ (\E code : FailWith(s, code)) \/ Release(s)
    BY <1>13 DEF MarkProcessing, Download,
       RecordPhash, CacheLookup, Detect, StoreRaw, Persist, YieldTouch,
       Acquire, ExtractLimited, ExtractDone, Postprocess, Stages
  <2>3. queue' = queue BY <1>0, <2>1
  <2> QED BY <1>8, <2>1, <2>2, <2>3
<1> QED BY <1>9, <1>10, <1>11, <1>12, <1>13, <1>0, <1>d DEF execute_task_lifecycle

\* What slot s adds to the copies of job k.
Load(s, k) == One(Working(s, k)) + One(Working(s, k) /\ slots[s].again)

\* The steps of a slot keep CopiesInv.
LEMMA SlotStepCounts ==
  ASSUME TypeInv, CopiesInv, NEW s \in Slots, SlotStep(s), TypeInv'
  PROVE  CopiesInv'
<1>0. /\ slots \in [Slots -> Slot] /\ queue \in Seq(Jobs) /\ NoJob \notin Jobs
      /\ spent \in Nat /\ spent' \in Nat /\ queue' \in Seq(Jobs)
  BY ConstantsAssumption DEF TypeInv, TypeOK
\* The sets of slots change at most at s.
<1>a. ASSUME NEW k \in Jobs, \A t \in Slots : t # s => slots'[t] = slots[t]
      PROVE  /\ IsFiniteSet(Runners(k)') /\ IsFiniteSet(Twice(k)) /\ IsFiniteSet(Twice(k)')
             /\ Cardinality(Runners(k)) \in Nat /\ Cardinality(Runners(k)') \in Nat
             /\ Cardinality(Twice(k)) \in Nat /\ Cardinality(Twice(k)') \in Nat
             /\ Cardinality(Runners(k)') = Cardinality(Runners(k)) + One(Working(s, k)')
                                             - One(Working(s, k))
             /\ Cardinality(Twice(k)') =
                  Cardinality(Twice(k)) + One(Working(s, k)' /\ slots'[s].again)
                    - One(Working(s, k) /\ slots[s].again)
  <2>1. IsFiniteSet(Runners(k)) BY DEF CopiesInv
  <2>2. Twice(k) \in SUBSET Runners(k) BY DEF Twice, Runners
  <2>3. IsFiniteSet(Twice(k)) BY <2>1, <2>2, FS_Subset
  <2>4. \A y : y # s => (y \in Runners(k)' <=> y \in Runners(k))
    BY <1>a DEF Runners, Working, Holds
  <2>5. \A y : y # s => (y \in Twice(k)' <=> y \in Twice(k))
    BY <1>a DEF Twice, Working, Holds
  <2>6. /\ s \in Runners(k) <=> Working(s, k)
        /\ s \in Runners(k)' <=> Working(s, k)'
        /\ s \in Twice(k) <=> Working(s, k) /\ slots[s].again
        /\ s \in Twice(k)' <=> Working(s, k)' /\ slots'[s].again
    BY DEF Runners, Twice
  <2>7. /\ IsFiniteSet(Runners(k)') /\ Cardinality(Runners(k)) \in Nat
        /\ Cardinality(Runners(k)') \in Nat
        /\ Cardinality(Runners(k)') = Cardinality(Runners(k)) + One(s \in Runners(k)')
                                        - One(s \in Runners(k))
    BY <2>1, <2>4, OneMember
  <2>8. /\ IsFiniteSet(Twice(k)') /\ Cardinality(Twice(k)) \in Nat
        /\ Cardinality(Twice(k)') \in Nat
        /\ Cardinality(Twice(k)') = Cardinality(Twice(k)) + One(s \in Twice(k)')
                                      - One(s \in Twice(k))
    BY <2>3, <2>5, OneMember
  <2> QED BY <2>3, <2>6, <2>7, <2>8 DEF One
<1>b. \A k \in Jobs : /\ Copies(k) <= 1 + spent
                      /\ Cardinality(Places(queue, k)) \in Nat
                      /\ Cardinality(Places(queue, k)') \in Nat
                      /\ One(api[k] = "push") \in Nat
                      /\ Copies(k)' = Cardinality(Places(queue, k)') + Cardinality(Runners(k)')
                                        + Cardinality(Twice(k)') + One(api'[k] = "push")
  <2>1. \A k \in Jobs : Copies(k) <= 1 + spent BY DEF CopiesInv, CopiesBounded
  <2>2. \A k \in Jobs : Places(queue, k)' = Places(queue', k) BY DEF Places
  <2>3. \A k \in Jobs : Copies(k)' = Cardinality(Places(queue, k)') + Cardinality(Runners(k)')
                                       + Cardinality(Twice(k)') + One(api'[k] = "push")
    BY DEF Copies, Places, Runners, Twice, One
  <2> QED BY <1>0, <2>1, <2>2, <2>3, PlacesType DEF One
\* The sum for one job.
<1>c. ASSUME NEW k \in Jobs, \A t \in Slots : t # s => slots'[t] = slots[t], api' = api,
             Cardinality(Places(queue, k)') + Load(s, k)' + spent
               <= Cardinality(Places(queue, k)) + Load(s, k) + spent'
      PROVE  Copies(k)' <= 1 + spent'
  <2>1. PICK q \in Nat, q1 \in Nat, p \in Nat :
          /\ q = Cardinality(Places(queue, k)) /\ q1 = Cardinality(Places(queue, k)')
          /\ p = One(api[k] = "push")
    BY <1>b
  <2>2. PICK T \in Nat, T1 \in Nat :
          /\ T = Cardinality(Runners(k)) + Cardinality(Twice(k))
          /\ T1 = Cardinality(Runners(k)') + Cardinality(Twice(k)')
    BY <1>a, <1>c
  <2>3. PICK L \in Nat, L1 \in Nat : L = Load(s, k) /\ L1 = Load(s, k)'
    BY DEF Load, One
  <2>4. T1 + L = T + L1
    BY <1>a, <1>c, <2>2, <2>3 DEF Load, One
  <2>5. q + T + p <= 1 + spent
    BY <1>a, <1>b, <1>c, <2>1, <2>2, CopiesSum
  <2>6. Copies(k)' = q1 + T1 + p
    BY <1>a, <1>b, <1>c, <2>1, <2>2
  <2>7. q1 + L1 + spent <= q + L + spent' BY <1>c, <2>1, <2>3
  <2>8. PICK f \in Nat, f1 \in Nat : f = spent /\ f1 = spent' BY <1>0
  <2>9. q1 + T1 + p <= 1 + f1
    <3>1. q + T + p <= 1 + f /\ q1 + L1 + f <= q + L + f1 BY <2>5, <2>7, <2>8
    <3> QED BY <2>4, <3>1
  <2> QED BY <2>6, <2>8, <2>9
<1>1. CASE pop_from_queue(s)
  <2>1. /\ slots[s].pc = "idle" /\ slots[s].job \notin Jobs
        /\ ~slots[s].again /\ api' = api
    BY <1>0, <1>1 DEF pop_from_queue, At, TypeInv, HeldJobs, Stages, CopiesInv
  <2>2. \A k \in Jobs : ~Working(s, k) BY <2>1 DEF Working, Holds
  <2>3. CASE queue # <<>> /\ queue' = Tail(queue) /\ spent' = spent
             /\ slots' = [slots EXCEPT ![s].pc = "read", ![s].job = Head(queue)]
    <3>1. /\ \A t \in Slots : t # s => slots'[t] = slots[t]
          /\ slots'[s].job = Head(queue) /\ slots'[s].pc = "read" /\ ~slots'[s].again
      BY <1>0, <2>1, <2>3 DEF Slot
    <3>2. \A k \in Jobs : Working(s, k)' <=> k = Head(queue) BY <3>1 DEF Working, Holds
    <3>3. ASSUME NEW k \in Jobs PROVE Copies(k)' <= 1 + spent'
      <4>1. Cardinality(Places(queue, k)') = Cardinality(Places(queue, k)) - One(k = Head(queue))
        <5>1. Places(queue, k)' = Places(queue', k) BY DEF Places
        <5> QED BY <1>0, <2>3, <5>1, TailCounts
      <4>2. Cardinality(Places(queue, k)') + Load(s, k)' + spent
              <= Cardinality(Places(queue, k)) + Load(s, k) + spent'
        <5>1. Load(s, k) = 0 BY <2>2 DEF Load, One
        <5>2. Load(s, k)' = One(k = Head(queue)) BY <3>1, <3>2 DEF Load, One
        <5>3. One(k = Head(queue)) \in Nat BY DEF One
        <5> QED BY <1>0, <1>b, <2>3, <4>1, <5>1, <5>2, <5>3
      <4> QED BY <1>c, <2>1, <3>1, <4>2
    <3>4. \A k \in Jobs : IsFiniteSet(Runners(k)') BY <1>a, <3>1
    <3>5. \A t \in Slots : slots'[t].again => slots'[t].pc \in Stages
      BY <3>1 DEF CopiesInv
    <3> QED BY <3>3, <3>4, <3>5 DEF CopiesInv, CopiesBounded
  <2>4. CASE /\ queue' = queue \/ (queue # <<>> /\ queue' = Tail(queue))
             /\ slots' = slots \/ Goto(s, "dead")
             /\ spent' = spent + 1
    <3>1. /\ \A t \in Slots : t # s => slots'[t] = slots[t]
          /\ slots'[s].job = slots[s].job /\ ~slots'[s].again
      BY <1>0, <2>1, <2>4 DEF Slot, Goto
    <3>2. \A k \in Jobs : ~Working(s, k)' BY <2>1, <3>1 DEF Working, Holds
    <3>3. ASSUME NEW k \in Jobs PROVE Copies(k)' <= 1 + spent'
      <4>1. Cardinality(Places(queue, k)') <= Cardinality(Places(queue, k))
        <5>1. CASE queue' = queue
          <6>1. Places(queue, k)' = Places(queue, k) BY <5>1 DEF Places
          <6> QED BY <1>b, <6>1
        <5>2. CASE queue # <<>> /\ queue' = Tail(queue)
          <6>1. Cardinality(Places(queue, k)') = Cardinality(Places(queue, k)) - One(k = Head(queue))
            <7>1. Places(queue, k)' = Places(queue', k) BY DEF Places
            <7> QED BY <1>0, <5>2, <7>1, TailCounts
          <6> QED BY <1>b, <6>1 DEF One
        <5> QED BY <2>4, <5>1, <5>2
      <4>2. Cardinality(Places(queue, k)') + Load(s, k)' + spent
              <= Cardinality(Places(queue, k)) + Load(s, k) + spent'
        <5>1. Load(s, k) = 0 /\ Load(s, k)' = 0 BY <2>2, <3>2 DEF Load, One
        <5> QED BY <1>0, <1>b, <2>4, <4>1, <5>1
      <4> QED BY <1>c, <2>1, <3>1, <4>2
    <3>4. \A k \in Jobs : IsFiniteSet(Runners(k)') BY <1>a, <3>1
    <3>5. \A t \in Slots : slots'[t].again => slots'[t].pc \in Stages
      BY <3>1 DEF CopiesInv
    <3> QED BY <3>3, <3>4, <3>5 DEF CopiesInv, CopiesBounded
  <2> QED BY <1>1, <2>3, <2>4 DEF pop_from_queue, Spend
<1>2. CASE execute_task_lifecycle(s)
  <2>0. CountedStep(s) /\ slots[s].pc \in Stages /\ (spent' = spent \/ spent' = spent + 1)
    BY <1>2, StepIsCounted
  <2>1. PICK j \in Jobs : j = slots[s].job BY <2>0 DEF TypeInv, HeldJobs
  <2>2. /\ api' = api /\ \A t \in Slots : t # s => slots'[t] = slots[t]
        /\ slots'[s].job \in {j, NoJob}
        /\ \/ queue' = queue /\ Owed(s)' <= Owed(s) + (spent' - spent)
           \/ queue' = Append(queue, j) /\ Owed(s)' + 1 <= Owed(s) + (spent' - spent)
    BY <2>0, <2>1 DEF CountedStep
  <2>3. /\ Owed(s) = Load(s, j) /\ Owed(s)' = Load(s, j)'
        /\ Load(s, j) \in Nat /\ Load(s, j)' \in Nat
    BY <1>0, <2>1, <2>2 DEF Owed, Working, Holds, One, Load
  <2>4. ASSUME NEW k \in Jobs PROVE Copies(k)' <= 1 + spent'
    <3>1. CASE k = j
      <4>1. \/ /\ Cardinality(Places(queue, k)') = Cardinality(Places(queue, k))
               /\ Owed(s)' <= Owed(s) + (spent' - spent)
            \/ /\ Cardinality(Places(queue, k)') = Cardinality(Places(queue, k)) + 1
               /\ Owed(s)' + 1 <= Owed(s) + (spent' - spent)
        <5>1. Places(queue, k)' = Places(queue', k) BY DEF Places
        <5>2. queue' = Append(queue, j) =>
                Cardinality(Places(queue, k)') = Cardinality(Places(queue, k)) + 1
          BY <1>0, <3>1, <5>1, AppendCounts DEF One
        <5> QED BY <2>2, <5>1, <5>2
      <4>2. /\ Cardinality(Places(queue, k)) \in Nat /\ Cardinality(Places(queue, k)') \in Nat
            /\ Load(s, k) \in Nat /\ Load(s, k)' \in Nat
            /\ Owed(s) = Load(s, k) /\ Owed(s)' = Load(s, k)'
        BY <1>b, <2>3, <3>1
      <4>3. Cardinality(Places(queue, k)') + Load(s, k)' + spent
              <= Cardinality(Places(queue, k)) + Load(s, k) + spent'
        BY <1>0, <4>1, <4>2
      <4> QED BY <1>c, <2>2, <4>3
    <3>2. CASE k # j
      <4>1. ~Working(s, k) /\ ~Working(s, k)'
        BY <1>0, <2>1, <2>2, <3>2 DEF Working, Holds
      <4>2. Cardinality(Places(queue, k)') = Cardinality(Places(queue, k))
        <5>1. Places(queue, k)' = Places(queue', k) BY DEF Places
        <5>2. queue' = Append(queue, j) =>
                Cardinality(Places(queue, k)') = Cardinality(Places(queue, k)) + 0
          BY <1>0, <3>2, <5>1, AppendCounts DEF One
        <5> QED BY <1>b, <2>2, <5>1, <5>2
      <4>3. Cardinality(Places(queue, k)') + Load(s, k)' + spent
              <= Cardinality(Places(queue, k)) + Load(s, k) + spent'
        <5>1. Load(s, k) = 0 /\ Load(s, k)' = 0 BY <4>1 DEF Load, One
        <5>2. spent <= spent' BY <1>0, <2>0
        <5> QED BY <1>0, <1>b, <4>2, <5>1, <5>2
      <4> QED BY <1>c, <2>2, <4>3
    <3> QED BY <3>1, <3>2
  <2>5. \A k \in Jobs : IsFiniteSet(Runners(k)') BY <1>a, <2>2
  <2>6. \A t \in Slots : slots'[t].again => slots'[t].pc \in Stages
    BY <2>0, <2>2 DEF CopiesInv, CountedStep
  <2> QED BY <2>4, <2>5, <2>6 DEF CopiesInv, CopiesBounded
<1> QED BY <1>1, <1>2 DEF SlotStep

\* The other steps keep it: the INSERT starts from no copy at all, the push of
\* a submission moves one, and a crash only takes copies away.
LEMMA OtherStepCounts ==
  ASSUME TypeInv, SubmittedInv, CopiesInv, TypeInv',
         \/ \E j \in Jobs : submit_receipt(j) \/ Age(j) \/ CrashApi(j) \/ CounterExpires(j)
         \/ \E w \in Workers : SweeperStep(w) \/ Crash(w)
         \/ \E h \in Hashes : CacheExpires(h)
         \/ Purge
         \/ UNCHANGED vars
  PROVE  CopiesInv'
<1>0. /\ queue \in Seq(Jobs) /\ NoJob \notin Jobs /\ spent \in Nat /\ spent' \in Nat
      /\ api \in [Jobs -> ApiSteps \union ApiAnswers]
  BY ConstantsAssumption DEF TypeInv, TypeOK
<1>f. ASSUME NEW k \in Jobs
      PROVE  /\ IsFiniteSet(Runners(k)) /\ IsFiniteSet(Twice(k))
             /\ Cardinality(Runners(k)) \in Nat /\ Cardinality(Twice(k)) \in Nat
             /\ Cardinality(Places(queue, k)) \in Nat
             /\ One(api[k] = "push") \in Nat /\ One(api'[k] = "push") \in Nat
             /\ Copies(k) <= 1 + spent
             /\ Copies(k) = Cardinality(Places(queue, k)) + Cardinality(Runners(k))
                              + Cardinality(Twice(k)) + One(api[k] = "push")
             /\ Copies(k)' = Cardinality(Places(queue', k)) + Cardinality(Runners(k)')
                              + Cardinality(Twice(k)') + One(api'[k] = "push")
  <2>1. IsFiniteSet(Runners(k)) /\ Copies(k) <= 1 + spent
    BY DEF CopiesInv, CopiesBounded
  <2>2. Twice(k) \in SUBSET Runners(k) BY DEF Twice, Runners
  <2>3. IsFiniteSet(Twice(k)) BY <2>1, <2>2, FS_Subset
  <2>4. Copies(k)' = Cardinality(Places(queue', k)) + Cardinality(Runners(k)')
                       + Cardinality(Twice(k)') + One(api'[k] = "push")
    BY DEF Copies, Places, Runners, Twice, One
  <2>5. One(api[k] = "push") \in Nat /\ One(api'[k] = "push") \in Nat BY DEF One
  <2> QED BY <1>0, <2>1, <2>3, <2>4, <2>5, CopiesSum, PlacesType, FS_CardinalityType
<1>1. ASSUME UNCHANGED <<queue, slots>>, spent' = spent \/ spent' = spent + 1,
             \A k \in Jobs : api'[k] = "push" => api[k] = "push"
      PROVE  CopiesInv'
  <2>1. \A k \in Jobs : Runners(k)' = Runners(k) /\ Twice(k)' = Twice(k)
    BY <1>1 DEF Runners, Twice, Working, Holds
  <2>2. ASSUME NEW k \in Jobs PROVE Copies(k)' <= 1 + spent'
    <3>1. One(api'[k] = "push") <= One(api[k] = "push") BY <1>1 DEF One
    <3>2. Copies(k)' <= Copies(k) BY <1>1, <1>f, <2>1, <3>1
    <3>3. Copies(k)' \in Nat /\ Copies(k) \in Nat BY <1>1, <1>f, <2>1
    <3>4. Copies(k) <= 1 + spent BY <1>f
    <3> QED BY <1>0, <1>1, <3>2, <3>3, <3>4
  <2> QED BY <1>1, <1>f, <2>1, <2>2 DEF CopiesInv, CopiesBounded
<1>2. ASSUME NEW j \in Jobs, SubmitCreate(j) PROVE CopiesInv'
  <2>1. PICK o \in PgOutcomes : Call(o) /\ Answer(j, IF o = "ok" THEN "push" ELSE "503")
    BY <1>2 DEF SubmitCreate, PgUpdate
  <2>2. UNCHANGED <<queue, slots>> /\ api[j] = "create" BY <1>2 DEF SubmitCreate
  <2>3. spent' = spent \/ spent' = spent + 1 BY <2>1 DEF Call, Spend
  <2>4. \A k \in Jobs : k # j => api'[k] = api[k] BY <1>0, <2>1 DEF Answer
  <2>5. \A k \in Jobs : Runners(k)' = Runners(k) /\ Twice(k)' = Twice(k)
    BY <2>2 DEF Runners, Twice, Working, Holds
  <2>6. Copies(j)' <= 1 + spent'
    <3>1. ~Carried(j) BY <2>2 DEF SubmittedInv, BeforeRow
    <3>2. Places(queue, j) = {} /\ Runners(j) = {} /\ Twice(j) = {}
      BY <3>1 DEF Carried, InQueue, In, Places, Runners, Twice, Working
    <3>3. Cardinality({}) = 0 BY FS_EmptySet
    <3>4. /\ Cardinality(Places(queue', j)) = 0 /\ Cardinality(Runners(j)') = 0
          /\ Cardinality(Twice(j)') = 0
      BY <2>2, <2>5, <3>2, <3>3
    <3>5. Copies(j)' = One(api'[j] = "push") BY <1>f, <3>4
    <3>6. One(api'[j] = "push") \in {0, 1} BY DEF One
    <3> QED BY <1>0, <3>5, <3>6
  <2>7. ASSUME NEW k \in Jobs, k # j PROVE Copies(k)' <= 1 + spent'
    <3>1. Copies(k)' = Copies(k) BY <1>f, <2>2, <2>4, <2>5, <2>7
    <3>2. Copies(k) \in Nat /\ Copies(k) <= 1 + spent BY <1>f
    <3> QED BY <1>0, <2>3, <3>1, <3>2
  <2> QED BY <1>f, <2>2, <2>5, <2>6, <2>7 DEF CopiesInv, CopiesBounded
<1>3. ASSUME NEW j \in Jobs, SubmitPush(j) PROVE CopiesInv'
  <2>1. PICK o \in PushOutcomes :
          push_to_queue(j, o) /\ Answer(j, IF o = "ok" THEN "202" ELSE "503")
    BY <1>3 DEF SubmitPush
  <2>2. UNCHANGED slots /\ api[j] = "push" BY <1>3 DEF SubmitPush
  <2>3. /\ spent' = spent \/ spent' = spent + 1
        /\ queue' = queue \/ queue' = Append(queue, j)
    BY <2>1 DEF push_to_queue, Call, Spend
  <2>4. api'[j] # "push" /\ \A k \in Jobs : k # j => api'[k] = api[k]
    BY <1>0, <2>1 DEF Answer
  <2>5. \A k \in Jobs : Runners(k)' = Runners(k) /\ Twice(k)' = Twice(k)
    BY <2>2 DEF Runners, Twice, Working, Holds
  <2>6. ASSUME NEW k \in Jobs PROVE Copies(k)' <= 1 + spent'
    <3>1. \/ Cardinality(Places(queue', k)) = Cardinality(Places(queue, k))
          \/ Cardinality(Places(queue', k)) = Cardinality(Places(queue, k)) + One(k = j)
      <4>1. Cardinality(Places(Append(queue, j), k)) = Cardinality(Places(queue, k)) + One(k = j)
        BY <1>0, AppendCounts
      <4> QED BY <2>3, <4>1
    <3>2. One(api'[k] = "push") + One(k = j) = One(api[k] = "push")
      BY <2>2, <2>4 DEF One
    <3>3. One(k = j) \in Nat BY DEF One
    <3>4. Copies(k)' <= Copies(k) BY <1>f, <2>5, <3>1, <3>2, <3>3
    <3>5. Copies(k) \in Nat /\ Copies(k)' \in Nat /\ Copies(k) <= 1 + spent
      BY <1>f, <2>5, <3>1, <3>3
    <3> QED BY <1>0, <2>3, <3>4, <3>5
  <2> QED BY <1>f, <2>2, <2>5, <2>6 DEF CopiesInv, CopiesBounded
<1>4. ASSUME NEW w \in Workers, Crash(w) PROVE CopiesInv'
  <2>1. /\ UNCHANGED <<queue, api>> /\ spent' = spent + 1
        /\ \A t \in Slots : slots'[t] = slots[t] \/ slots'[t] = IdleSlot
    BY <1>4 DEF Crash, Spend
  <2>2. IdleSlot.job \notin Jobs /\ ~IdleSlot.again BY <1>0 DEF IdleSlot
  <2>3. \A k \in Jobs : Runners(k)' \in SUBSET Runners(k) /\ Twice(k)' \in SUBSET Twice(k)
    BY <2>1, <2>2 DEF Runners, Twice, Working, Holds
  <2>4. ASSUME NEW k \in Jobs
        PROVE  IsFiniteSet(Runners(k)') /\ Copies(k)' <= 1 + spent'
    <3>1. /\ IsFiniteSet(Runners(k)') /\ IsFiniteSet(Twice(k)')
          /\ Cardinality(Runners(k)') <= Cardinality(Runners(k))
          /\ Cardinality(Twice(k)') <= Cardinality(Twice(k))
      BY <1>f, <2>3, FS_Subset
    <3>2. Cardinality(Runners(k)') \in Nat /\ Cardinality(Twice(k)') \in Nat
      BY <3>1, FS_CardinalityType
    <3>3. Copies(k)' <= Copies(k) BY <1>f, <2>1, <3>1, <3>2
    <3>4. Copies(k) \in Nat /\ Copies(k)' \in Nat /\ Copies(k) <= 1 + spent
      BY <1>f, <2>1, <3>2
    <3> QED BY <1>0, <2>1, <3>1, <3>3, <3>4
  <2>5. \A t \in Slots : slots'[t].again => slots'[t].pc \in Stages
    BY <2>1, <2>2 DEF CopiesInv
  <2> QED BY <2>4, <2>5 DEF CopiesInv, CopiesBounded
<1>5. ASSUME NEW j \in Jobs, SubmitBegin(j) \/ SubmitCheck(j) \/ CrashApi(j) PROVE CopiesInv'
  <2>1. /\ UNCHANGED <<queue, slots>>
        /\ spent' = spent \/ spent' = spent + 1
        /\ \E a \in {"check", "429", "create", "400", "gone"} : Answer(j, a)
    BY <1>5 DEF SubmitBegin, SubmitCheck, CrashApi, Spend
  <2>2. \A k \in Jobs : api'[k] = "push" => api[k] = "push"
    BY <1>0, <2>1 DEF Answer
  <2> QED BY <1>1, <2>1, <2>2
<1>6. CASE UNCHANGED <<queue, slots, api>> /\ (spent' = spent \/ spent' = spent + 1)
  BY <1>1, <1>6
<1> QED BY <1>2, <1>3, <1>4, <1>5, <1>6
        DEF submit_receipt, Age, CounterExpires, SweeperStep, SweepSelect, SweepFail,
        PgUpdate, Call, Spend, CacheExpires, Purge, vars

\* Whatever fails, crashes or is lost, a job has no more messages, counting
\* those its slots still owe, than there were faults, plus one: for any number
\* of jobs, processes, slots and faults.
THEOREM FaultsBoundCopies == Spec => []CopiesBounded
<1>1. Init => CopiesInv
  <2> SUFFICES ASSUME Init PROVE CopiesInv OBVIOUS
  <2>1. \A j \in Jobs : Places(queue, j) = {} /\ Runners(j) = {} /\ Twice(j) = {}
                        /\ api[j] # "push"
    BY ConstantsAssumption DEF Init, Places, Runners, Twice, Working, Holds, IdleSlot
  <2>2. ASSUME NEW j \in Jobs PROVE Copies(j) = 0
    <3>1. Cardinality({}) = 0 BY FS_EmptySet
    <3>2. /\ Cardinality(Places(queue, j)) = 0 /\ Cardinality(Runners(j)) = 0
          /\ Cardinality(Twice(j)) = 0 /\ One(api[j] = "push") = 0
      BY <2>1, <3>1 DEF One
    <3> QED BY <3>2, CopiesSum
  <2>3. \A j \in Jobs : IsFiniteSet(Runners(j)) BY <2>1, FS_EmptySet
  <2> QED BY <2>2, <2>3 DEF Init, CopiesInv, CopiesBounded, IdleSlot
<1>2. TypeInv /\ TypeInv' /\ SubmittedInv /\ CopiesInv /\ [Next]_vars => CopiesInv'
  <2>1. ASSUME TypeInv, TypeInv', SubmittedInv, CopiesInv, Next PROVE CopiesInv'
    BY <2>1, SlotStepCounts, OtherStepCounts DEF Next, Environment
  <2>2. ASSUME TypeInv, TypeInv', SubmittedInv, CopiesInv, UNCHANGED vars PROVE CopiesInv'
    BY <2>2, OtherStepCounts
  <2> QED BY <2>1, <2>2
<1>3. Spec => []TypeInv BY TypeCorrect DEF TypeInv
<1>4. CopiesInv => CopiesBounded BY DEF CopiesInv
<1> QED BY <1>1, <1>2, <1>3, <1>4, SubmittedInvHolds, PTL DEF Spec
=============================================================================

CONSTANTS
  j1 = j1
  j2 = j2
  w1 = w1
  w2 = w2
  NoJob = NoJob
  Jobs <- OneJob
  Workers <- TwoWorkers
  Concurrency = 1
  Hash <- SameImage
  Unstorable <- NoneUnstorable
  RequeueMax = 1
  RejectDepth = 1
  Faults = {"pg_lost", "pg_ambiguous", "push_lost", "push_ambiguous", "pop_lost", "pop_error", "cache", "ttl", "crash", "bump"}
  MaxFaults = 1
  Prompt = FALSE
SPECIFICATION FairSpec
INVARIANT CopiesBounded
PROPERTY Settles
PROPERTY Drains

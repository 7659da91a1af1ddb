CONSTANTS
  j1 = j1
  j2 = j2
  w1 = w1
  w2 = w2
  NoJob = NoJob
  Jobs <- TwoJobs
  Workers <- TwoWorkers
  Concurrency = 1
  Hash <- SameImage
  Unstorable <- SecondUnstorable
  RequeueMax = 1
  RejectDepth = 1
  Faults = {"pg_lost", "push_lost", "cache", "pop_lost", "pop_error", "crash", "ttl"}
  MaxFaults = 2
  Prompt = TRUE
SPECIFICATION Spec
INVARIANT RefusedNeverRuns
INVARIANT SweepsOnlyAbandoned
 
INVARIANT PhashLands
INVARIANT OneCopy
INVARIANT BoundedRequeue
PROPERTY ImplementsContract
SYMMETRY Symmetry

CONSTANTS
  j1 = j1
  j2 = j2
  w1 = w1
  w2 = w2
  NoJob = NoJob
  Jobs <- OneJob
  Workers <- OneWorker
  Concurrency = 1
  Hash <- SameImage
  Unstorable <- NoneUnstorable
  RequeueMax = 1
  RejectDepth = 1
  Faults = {}
  MaxFaults = 0
  Prompt = FALSE
SPECIFICATION Spec
PROPERTY FinalAnswer

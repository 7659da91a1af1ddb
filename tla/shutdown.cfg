CONSTANTS
  p1 = p1
  p2 = p2
  t1 = t1
  t2 = t2
  t3 = t3
  Processes <- OneProcess
  Tasks <- ThreeTasks
  WorkerId <- OwnIds
  PurgeWorkerId = p1
SPECIFICATION FairSpec
INVARIANT StoresOutliveTheirUsers
INVARIANT OneLastJob
PROPERTY ShutdownEnds
CHECK_DEADLOCK FALSE

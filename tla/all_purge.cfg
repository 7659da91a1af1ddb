CONSTANTS
  p1 = p1
  p2 = p2
  t1 = t1
  t2 = t2
  t3 = t3
  Processes <- TwoProcesses
  Tasks <- OneTask
  WorkerId <- DefaultIds
  PurgeWorkerId = p1
SPECIFICATION Spec
INVARIANT PurgesOnce
CHECK_DEADLOCK FALSE

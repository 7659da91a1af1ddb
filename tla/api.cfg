CONSTANTS
  r1 = r1
  r2 = r2
  r3 = r3
  s1 = s1
  s2 = s2
  Requests <- ThreeRequests
  Slots <- TwoSlots
  Reject = 2
  MaxFaults = 2
SPECIFICATION ApiFairSpec
INVARIANT QueueBounded
INVARIANT RequestsMeetOpenStores
INVARIANT ServesMigrated
PROPERTY StopEnds

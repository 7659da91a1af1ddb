CONSTANTS
  s1 = s1
  s2 = s2
  Slots <- TwoSlots
  Unit = 2
  Rates <- SlowOrFast
  Bursts <- OneOrTwo
  InitRate = 4
  InitBurst = 2
  MaxRate = 4
  MaxBurst = 2
  Backoffs <- OneBackoff
  MaxTime = 3
SPECIFICATION Spec
INVARIANT GrantsWithinQuota
INVARIANT CallsWithinRetries
SYMMETRY Symmetry
CHECK_DEADLOCK FALSE

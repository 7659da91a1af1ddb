CONSTANTS
  a = a
  b = b
  v1 = v1
  v2 = v2
  Sessions <- TwoSessions
  Versions <- TwoVersions
  MaxRuns = 2
  MaxReports = 5
  MaxFaults = 1
SPECIFICATION Spec
INVARIANT RowsShowOwnReport
INVARIANT BudgetUpToFaults
INVARIANT CountedIsLogged
SYMMETRY Symmetry
CHECK_DEADLOCK FALSE

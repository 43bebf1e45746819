SPECIFICATION Spec
CONSTANTS
  MaxRecnt = 3
  MaxStmts = 1
INVARIANTS
  FailureReportIsTrue

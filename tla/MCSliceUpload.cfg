SPECIFICATION Spec
CONSTANTS
  Workers = {w1, w2}
  N = 3
  MaxFaults = 2
INVARIANTS
  CompletedIsWhole
PROPERTIES
  MissingOnlyAfterFault
  Uploaded

SPECIFICATION Spec
CONSTANTS
  MaxRecnt = 3
  MaxStmts = 2
INVARIANTS
  AckedExactlyOnce
  NeverTwice
  AffairsAtomic
  IdleSessionAutocommits
  FreshRequestServed
PROPERTIES
  Terminates

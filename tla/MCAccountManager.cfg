SPECIFICATION MCSpec
CONSTANTS
  Workers = {w1, w2}
  Users = {u1}
  Passwords = {p, q, bad}
  Refused = {bad}
  Disks = {d1, d2}
  None = None
  Unset = Unset
  Processes = {w1, w2}
  Secrets = {d, s, t}
  Default = d
  Absent = Absent
  Lifetime = 1
  MaxClock = 2
  Servers = {w1, w2}
  Names = {n1, n2}
  Texts <- MCTexts
  Hole = Hole
  Inodes = {i1, i2, i3, i4}
  Ranges <- MCRanges
  Whole = Whole
  Other = Other
  NoFile = NoFile
  Unknown = Unknown
  MaxErrors = 2
INVARIANTS
  RowHasAccount
  OneCreator
  RollbackIsHarmless
PROPERTIES
  RemovedIsGone
  LoginIsCurrent
  CalmIsAtomic
SYMMETRY Symmetry

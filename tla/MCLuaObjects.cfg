SPECIFICATION MCSpec
CONSTANTS
  Names = {"api"}
  Paths = {".", "logs"}
  Levels = {7}
  Handles = {h1, h2}
  MaxDay = 1
  Nil = Nil
  Conns = {c1}
  MoreConns = {c1, c2}
  Curs = {k1, k2}
  Stmts = {s1, s2}
  Env = Env
  NULL = NULL
  Objs = {o1, o2}
  Fds = {f1, f2}
  Invalid = Invalid
  Lists <- MCLists
INVARIANTS
  DescriptorsAreOwned
  RecordInItsDay
  HandlesAreOwned
  FreedIsUntouched
  SocketsAreOwned
PROPERTIES
  DroppedIsFreed
CHECK_DEADLOCK FALSE

SPECIFICATION RedisSpec
CONSTANTS
  Coroutines = {r1, r2}
  Conns = {c1, c2}
  Configured <- MCConfigured
  Added <- MCAdded
  Batches <- MCBatches
  MAX_RECNT = 2
  KeepAlive = 1
  MaxCalls = 2
  MaxFaults = 3
  None = None
INVARIANTS
  ReplyIsOwn
  RunsMatchAnswer
  OneStaleIsAbsorbed
SYMMETRY Symmetric
CHECK_DEADLOCK FALSE

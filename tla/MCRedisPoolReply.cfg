SPECIFICATION RedisSpec
CONSTANTS
  Coroutines = {r1}
  Conns = {c1}
  Configured <- MCConfigured
  Added <- MCAdded
  Batches <- MCBatches
  MAX_RECNT = 2
  KeepAlive = 1
  MaxCalls = 2
  MaxFaults = 1
  None = None
INVARIANT ReplyIsTrue
CHECK_DEADLOCK FALSE

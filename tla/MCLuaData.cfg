SPECIFICATION MCSpec
CONSTANTS
  Capacity = 3
  Values = {a, b}
  Nil = Nil
  Null = 0
  Freed <- MCFreed
  Nodes <- MCNodes
  HashOf <- MCHashOf
  Objects <- MCObjects
  MaxFailed = 1
  None = None
  Text = Text
  CR = CR
  LF = LF
  BUF_SIZE = 2
  STEPSIZE = 2
  Counts = {1, 2}
  Timeouts <- MCTimeouts
  MaxIn = 2
  MaxOut = 3
  MaxRoom = 1
  MaxTime = 2
  Forever <- MCForever
  MaxAddrs = 2
  AskSize = 2
  Answers <- MCAnswers
  Stray <- MCStray
  DEFAULT_RECV_SIZE = 4
  SLACK = 1
  Limits = {0, 7}
  Alphabet <- MCAlphabet
  MaxText = 5
  Chunk = 2
  LineLengths = {4, 5}
  Markers <- MCMarkers
INVARIANTS
  WindowIsFull
  TreeIsRedBlack
  LookupIsRight
  StreamIsExact
  WaitsWhenDue
  AskIsSound
  FiltersAreExact
PROPERTIES
  ImplementsFifo
  OnlyOneNodesObjectsMove
  ImplementsRing
CHECK_DEADLOCK FALSE

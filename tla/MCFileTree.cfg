SPECIFICATION Spec
CONSTANTS
  Workers = {w1, w2}
  Paths <- MCPaths
  Length <- MCLength
PROPERTIES
  QuietSucceeds
  AnsweredIsDone
  Terminates

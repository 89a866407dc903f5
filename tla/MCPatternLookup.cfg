SPECIFICATION LookupSpec
CONSTANTS
  Pids <- MCPids
  Scripts <- MCScripts
  MaxFlushes = 2
  WindowSize = 4
  ByteSize = 8
  CodeOfL = 3
  IntLimit = 16
  Garbled <- MCGarbled
INVARIANTS
  EncodingIsLossless
  AnswersAreRecords
  UndisturbedUnitsAnswer
CHECK_DEADLOCK FALSE

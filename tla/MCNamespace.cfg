SPECIFICATION Spec
CONSTANTS
  n1 = n1
  n2 = n2
  Nodes = {n1, n2}
  Names <- MCNames
  Backends = 2
  Canon <- MCCanon
  Home <- MCHome
  MaxFiles = 2
  BufferSize = 1
  Calls <- MCCalls
  Faults = {"mkdir", "rename", "rmtree", "opendir", "crash"}
  MaxFaults = 1
INVARIANTS
  FilesHaveTheirDroppings
  ListingsAreComplete
CHECK_DEADLOCK FALSE

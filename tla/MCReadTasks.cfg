SPECIFICATION Spec
CONSTANTS
  Droppings <- MCDroppings
  Pids <- MCPids
  Containers <- MCContainers
  PoolSizes = {1, 2}
  Workers = {1, 2}
  Faults = {"readdir", "mmap", "close"}
  Calls <- MCCalls
  Requests <- MCRequests
  Disks <- MCDisks
  Length = 3
INVARIANTS
  UnitsLeadHome
  IndexIsComplete
  DescriptorsAreKept
  ReadsAreExact
PROPERTY ReadsReturn
CHECK_DEADLOCK FALSE

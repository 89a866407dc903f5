CONSTANTS
  Sizes = {1, 2, 3, 4, 5}
  Hints = {"paropen", "broadcast", "alone"}
  Jobs <- MCJobs
  Faults = {"count", "list", "read", "open"}
  MaxFaults = 1
SPECIFICATION OpenSpec
INVARIANTS EveryDroppingOnce
PROPERTIES OpenReturns
CHECK_DEADLOCK FALSE

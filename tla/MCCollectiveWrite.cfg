CONSTANTS
  Jobs <- MCJobs
  MaxOffset = 2
  Faults = {"mkdir", "open", "record", "trunc"}
  MaxFaults = 1
SPECIFICATION Spec
INVARIANTS NoSiblingBeatsUs MetaCoversEveryRank
PROPERTIES CloseReturns
CHECK_DEADLOCK FALSE

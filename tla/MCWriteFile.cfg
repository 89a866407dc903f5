SPECIFICATION FairSpec
CONSTANTS
  t1 = t1
  t2 = t2
  p1 = p1
  p2 = p2
  Thread <- MCThread
  Pid <- MCPid
  PidOf <- MCPidOf
  Offsets <- MCOffsets
  Sizes <- MCSizes
  TruncOffsets = {0, 3}
  MayFail = {"write", "flush", "restore"}
  MaxWrites = 2
  MaxTruncs = 1
  MaxOpens = 1
INVARIANTS
  TypeOK
  PlacedUnlessMerged
  RecordsInsideDropping
  NoWriteForgotten
  SyncedIsDurable
  SizeCoversWrites
  OpenersKeepTheirFd
PROPERTY CallsReturn
CHECK_DEADLOCK FALSE

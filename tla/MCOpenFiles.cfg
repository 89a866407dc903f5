SPECIFICATION Spec
CONSTANTS
  h1 = h1
  h2 = h2
  h3 = h3
  o1 = o1
  o2 = o2
  p1 = p1
  p2 = p2
  Path <- MCPath
  Pid <- MCPid
  OpenFile <- MCOpenFile
  Flags = {"r", "w", "rw"}
  Handle <- MCHandle
  MayFail = {"addWriter", "populateIndex"}
  MaxFiles = 2
  MaxRenames = 2
SYMMETRY Symmetry
INVARIANTS
  HandleOutlivesItsOpens
  OpensShareUnlessDragged
  TableIsCurrentUnlessDragged
  WritersAreRecordedUnlessDragged
  ClosedFilesAreFinal
CHECK_DEADLOCK FALSE

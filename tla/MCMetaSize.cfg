SPECIFICATION Spec
CONSTANTS
  Hosts = {h1, h2}
  Statters = {c1}
  Truncaters = {c2}
  MaxOffset = 2
  MaxBytes = 3
  MaxOpens = 2
  Width = 2
  NoHandle = NoHandle
SYMMETRY Symmetry
INVARIANTS
  StatSeesClosedWrites
  SizeIsExactAtRest
  BytesAreCounted
CHECK_DEADLOCK FALSE

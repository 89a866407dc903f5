SPECIFICATION DetectFairSpec
CONSTANTS
  Inputs <- MCInputs
  SearchWindow = 4
INVARIANTS
  StackEncodesPrefix
  EveryElemHasItsInit
  DecodesToInput
PROPERTY Returns
CHECK_DEADLOCK FALSE

SPECIFICATION Spec
CONSTANTS
  Missing = Missing
  StackSize = 4
  WordBits = 16
  BigEndian = TRUE
  Configs <- MCConfigs
  Calls = 2
  HostCells <- Host
  Inputs <- CallInputs
  TextPool = 20000
  DataPool = 24000
  StaleTypes = {1, 2, 5}
  StaleReal = {0, 6}
INVARIANTS
  RunsAsWritten
  StaysInBlock
  StacksBalanced
  OwnSource

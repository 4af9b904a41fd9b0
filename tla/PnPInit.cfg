\* Every configuration of up to three devices of the pool.
CONSTANTS
  l1 = l1  l2 = l2  l3 = l3
  NULL = NULL
  MaxDevices = 3
  Lids <- MCLids
  Slots <- MCSlots
  HashOf <- MCHashOf
  Configs <- MCConfigs
SPECIFICATION Spec
INVARIANTS DevnosUnique PrivateTables BoundAsConfigured
           VerdictCorrect LidResolves
PROPERTY InitEnds
\* init() returns once.
CHECK_DEADLOCK FALSE

\* String constants as lids: four buffers, two entries, colliding lids.
CONSTANTS
  d1 = d1  d2 = d2  d3 = d3  x = x
  b1 = b1  b2 = b2  b3 = b3  b4 = b4
  NULL = NULL
  Lids <- MCLids
  Registered <- MCRegistered
  Bufs <- MCBufs
  MaxOpen = 2
  Slots <- MCSlots
  HashOf <- MCHashOf
  Reuse = FALSE
SPECIFICATION Spec
INVARIANTS TypeOK ChainsInv TablesAgree
PROPERTY HandlePromise
\* exit(1) on an unknown lid ends the program.
CHECK_DEADLOCK FALSE

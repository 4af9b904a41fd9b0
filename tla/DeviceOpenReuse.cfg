\* The application rewrites its lid buffers between calls.
CONSTANTS
  d1 = d1  d2 = d2  d3 = d3  x = x
  b1 = b1  b2 = b2  b3 = b3  b4 = b4
  NULL = NULL
  Lids <- MCLids
  Registered <- MCRegistered
  Bufs <- MCSmallBufs
  MaxOpen = 3
  Slots <- MCSlots
  HashOf <- MCHashOf
  Reuse = TRUE
SPECIFICATION Spec
INVARIANTS EntriesAccountedFor
SYMMETRY MCBufSymmetry
\* exit(1) on an unknown lid ends the program.
CHECK_DEADLOCK FALSE

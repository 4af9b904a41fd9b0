\* Two entries for four devices, every API on every handle.
CONSTANTS
  g1 = g1  g2 = g2  f1 = f1  m1 = m1  unknown = unknown  again = again
  NULL = NULL
  Lids <- MCLids
  Bufs <- MCBufs
  Literals <- MCLiterals
  Slots <- MCSlots
  HashOf <- MCHashOf
  Config <- MCConfig
  MaxOpen = 2
  MaxRuns = 2
SPECIFICATION Spec
INVARIANTS OpenSequenceOnce OnlyConfiguredOperations CallAnswered
           DataBelongsToCall EffectFits
\* exit(1) on an unknown lid or an empty entry ends the program.
CHECK_DEADLOCK FALSE

\* Calls from two depths of the stack, three schemes.
CONSTANTS
  v1 = v1  v2 = v2  s1 = s1
  NULL = NULL
  Schemes <- MCSchemes
  Post <- MCPost
  HasPrecondition = TRUE
  Holds <- MCHolds
  Arrays <- MCArrays
  Byte = 4
  WordBytes = 2
  ShortBytes = 1
  Variables <- MCVariables
  Shorts <- MCShorts
  Depths = {1, 2}
SPECIFICATION Spec
INVARIANTS AssembledInPlace OthersUntouched FetchAligned
\* A scheme without code blocks ends the program.
CHECK_DEADLOCK FALSE

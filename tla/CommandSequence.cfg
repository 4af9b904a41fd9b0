\* Packages are reset, or destroyed and made anew at the block malloc gives out again.
CONSTANTS
  a1 = a1  a2 = a2
  NULL = NULL
  Elements <- MCElements
  Byte = 4
  WordBytes = 2
  Compute <- MCCompute
  PutValues <- MCPutValues
  ByAddress = {1}
  Addrs <- MCOneAddr
  MayDestroy = TRUE
SPECIFICATION Spec
INVARIANTS BytesCurrent FrameSound FetchAligned
PROPERTY FillEnds

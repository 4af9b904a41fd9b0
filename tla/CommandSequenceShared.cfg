\* Two parameters with one code block, as in src/test/device.xml.
CONSTANTS
  a1 = a1  a2 = a2
  NULL = NULL
  Elements <- MCShared
  Byte = 4
  WordBytes = 2
  Compute <- MCCompute
  PutValues <- MCPutValues
  ByAddress = {0, 1}
  Addrs <- MCOneAddr
  MayDestroy = FALSE
SPECIFICATION Spec
INVARIANT ParameterInjected

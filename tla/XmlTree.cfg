CONSTANTS
  Node <- MCNode
  NULL = 0
  Kinds = {"element", "text"}
  MaxRefs = 2
  Star = Star
  SomeNode = Star
  Starts <- MCStarts
  Names = {1, 2, 3}
  CDATA = {2, 3}
  AttrNames = {1, 2}
  Values = {1, 2}
  NoIndex = NoIndex
  Paths <- MCPaths
SPECIFICATION Spec
INVARIANTS
  PointersRepresent NothingDangles
  WalkInOrder SearchFinds IndexFinds DataKept
PROPERTIES DeletesSubtree DeletionEnds
CHECK_DEADLOCK FALSE

CONSTANTS
  NULL = NULL
  Star = Star
  Root = Root
  Docs <- MCDocs
SPECIFICATION Spec
INVARIANTS DevicesAsWritten ReadsWhole
PROPERTY ParseEnds
CHECK_DEADLOCK FALSE

CONSTANTS
  MaxChunks = 1
SPECIFICATION Spec
INVARIANTS
  RequestIsNamed
CHECK_DEADLOCK FALSE

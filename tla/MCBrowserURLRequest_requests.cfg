CONSTANTS
  MaxChunks = 2
SPECIFICATION FairSpec
INVARIANTS
  CompletedTwiceAtMost
  LateDataBounded
PROPERTIES
  KeepsContract
  EndIsReported
CHECK_DEADLOCK FALSE

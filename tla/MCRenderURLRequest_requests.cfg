CONSTANTS
  MaxChunks = 2
SPECIFICATION FairSpec
INVARIANTS
  CompletedAsDecided
  LateNoticesBounded
PROPERTIES
  KeepsContract
  EndIsReported
CHECK_DEADLOCK FALSE

CONSTANTS
  MaxBytes = 3
  BufSize = 2
  MaxCookies = 2
  MaxTasks = 3
SPECIFICATION FairSpec
INVARIANTS
  NoDanglingCallback
  WaitingReadIsKnown
  LeftAloneOnceCanceled
  LengthKept
PROPERTIES
  OwnerIsTold
CHECK_DEADLOCK FALSE

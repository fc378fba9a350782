CONSTANTS
  Directory = {d1}
  d1 = d1
  MaxCalls = 3
SPECIFICATION FairSpec
INVARIANTS
  OncePlaced
  OnlyEarlyGoAstray
  StoreAsAsked
PROPERTIES
  EveryCallAnswered
CHECK_DEADLOCK FALSE

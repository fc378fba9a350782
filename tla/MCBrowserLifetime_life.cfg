CONSTANTS
  MaxCloses = 2
  MaxPosted = 2
SPECIFICATION FairLifetimeSpec
INVARIANTS
  EndsOnce
  AcceptedIsWarranted
  AttemptInProgress
PROPERTIES
  WindowTakesBrowserAlong
  ForcedCloseProceeds
CHECK_DEADLOCK FALSE

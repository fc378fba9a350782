CONSTANTS
  Region = {r1}
  Size = {s1, s2}
  Popups = 2
  MaxTasks = 1
SPECIFICATION FairSpec
INVARIANTS
  FrameKept
  PopupShownOnce
PROPERTIES
  NoResizeDuringPaint
  AskedIsDone
CHECK_DEADLOCK FALSE

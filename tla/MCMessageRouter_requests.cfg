CONSTANTS
  Browser = {b1}
  Handler = {h1}
  NoHandler = NoHandler
  Frame = {main, sub}
  MainFrame = main
  ReentrantRemoval = FALSE
  MaxRequests = 2
  MaxEpochs = 1
  MaxQueries = 2
  MaxUiTasks = 1
  MaxAnswers = 1
SPECIFICATION Spec
INVARIANTS
  NoOrphans
  RemovedHandlerIsIdle
  CallbackUsedOnce

CONSTANTS
  Browser = {b1}
  Handler = {h1}
  NoHandler = NoHandler
  Frame = {main}
  MainFrame = main
  ReentrantRemoval = FALSE
  MaxRequests = 1
  MaxEpochs = 2
  MaxQueries = 2
  MaxUiTasks = 0
  MaxAnswers = 1
SPECIFICATION SystemSpec
INVARIANTS
  QueriesEndWithProcess
PROPERTIES
  KeepsContract
  HandlerIsReleased
  EveryQueryIsAnswered

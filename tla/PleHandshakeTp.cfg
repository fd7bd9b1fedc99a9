SPECIFICATION Spec
CONSTANTS
  DpSize = 1
  TpSize = 3
  NumLayers = 2
  Plans <- BootThenServe
  MaxConcurrentBatches = 1
  MayTimeout = TRUE
INVARIANTS TypeOK InputsStable NothingSkipped QueueNeverFull
PROPERTIES ServesForwards ConsumedBeforeLaunch EveryForwardEnds
CHECK_DEADLOCK FALSE

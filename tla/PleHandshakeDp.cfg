SPECIFICATION Spec
CONSTANTS
  DpSize = 2
  TpSize = 1
  NumLayers = 2
  Plans <- Serve
  MaxConcurrentBatches = 1
  MayTimeout = FALSE
INVARIANTS OwnResult
PROPERTIES EveryForwardEnds
CHECK_DEADLOCK FALSE

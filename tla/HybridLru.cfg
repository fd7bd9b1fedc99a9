SPECIFICATION RecencySpec
CONSTANTS
  NumGlobal = 5
  NumLocal = 4
  OrigMap <- MCOrigMap
  CacheSize = 3
  Tensors = {w, scale}
  Rankings <- MCRankings
  TopK = 1
  MaxTokens = 2
  MaxBatch = 3
  HalfInt = 64
  ClockLimit = 5
INVARIANTS IInv BatchResident
PROPERTIES ServesOwnBytes EvictsLeastRecent

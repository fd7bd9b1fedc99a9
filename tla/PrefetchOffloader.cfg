SPECIFICATION Spec
CONSTANTS
  Counts = {1, 2, 4}
  PrefetchStep = 2
  MaxForwards = 6
INVARIANTS TypeOK ReadsOwnWeights WaitsWithinCapture CaptureJoined
CHECK_DEADLOCK FALSE

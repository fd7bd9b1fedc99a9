SPECIFICATION Spec
CONSTANTS
  NumWorkers = 2
  MaxForwards = 2
INVARIANTS NoUseAfterRelease OnlyRegistrations
PROPERTIES DeathEndsWait ChildEnds
CHECK_DEADLOCK FALSE

SPECIFICATION FairSpec
CONSTANTS
  Capacity = 2
  MaxCollected = 2
INVARIANT CleanShutdown
CHECK_DEADLOCK FALSE

SPECIFICATION FairSpec
CONSTANTS
  Containers = {k1, k2}
  MaxClock = 1
  k1 = k1
  k2 = k2
INVARIANTS
  NoChannelPanic
  GatheredExactly
PROPERTIES
  CacheNeverOlder
  EndsUnlessDockerSilent
CHECK_DEADLOCK FALSE

SPECIFICATION FairSpec
CONSTANTS
  Capacity = 2
  MaxCollected = 4
INVARIANTS
  PanicOnlyInShutdown
PROPERTIES
  DeliveredOnceInOrder
  ShutdownCompletes
  LossNoticed
  NoSnapshotStuck
CHECK_DEADLOCK FALSE

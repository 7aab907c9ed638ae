SPECIFICATION FairSpec
CONSTANTS
  Callers = {c1, c2, c3, c4}
  Capacity = 3
  MaxPushes = 8
  c1 = c1
  c2 = c2
  c3 = c3
  c4 = c4
INVARIANTS
  TypeOK
  NewestInOrder
  NoLostWakeup
PROPERTIES
  BlockedPopsServed
  ImplementsBoundedLog
CHECK_DEADLOCK FALSE

SPECIFICATION Spec
CONSTANTS
  SampleKey = SampleKey
  InitialFiles <- AnyFirstFile
  Services = 5
  MaxKeys = 4
  MaxStarts = 4
INVARIANTS
  KeyOnDisk
  KeylessNeedsTorn
  PanicNeedsGivenIntervals
PROPERTY IdentityStable
CHECK_DEADLOCK FALSE

SPECIFICATION FairSpec
CONSTANTS
  MaxDials = 3
  UnitCalls = 4
INVARIANTS
  DialsBounded
  EmptyNeedsRefusalOrDrop
PROPERTY EndsUnlessBusSilent

SPECIFICATION ProcSpec
CONSTANTS
  MaxClock = 3
  Second = 2
INVARIANTS
  ProcTypeOK
  StoredPairConsistent
  InflationNeedsOverlap

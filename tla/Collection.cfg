SPECIFICATION AllSpec
CONSTANTS
  Collectors = {"cpu", "network"}
  MaxRounds = 2
  NetWidth = 4
  MaxBytes = 1
  Hosts <- MCHosts
INVARIANTS
  SnapshotComplete
  RegularHostSurvives
  WrapNeedsReset
PROPERTY RoundsEnd
CHECK_DEADLOCK FALSE

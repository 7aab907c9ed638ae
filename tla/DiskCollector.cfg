SPECIFICATION Spec
CONSTANTS
  Width = 8
  MaxIO = 1
INVARIANTS
  WrapNeedsOverlapOrRestart
  StatsMissingNeedsBadName
PROPERTY OlderAnswerNeedsLap

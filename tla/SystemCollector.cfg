SPECIFICATION Spec
INVARIANTS
  AnswerSampled
  MissingStaticNeedsMishap
PROPERTY StaticLossIsPermanent

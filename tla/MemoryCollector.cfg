SPECIFICATION FairSpec
INVARIANTS
  StaticKept
  AnswerSampled
  MissingStaticNeedsMishap
PROPERTY CollectAnswers

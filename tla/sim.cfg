SPECIFICATION HostSpec
CONSTANTS
  Cycles = 14
  MaxTicks = 5
INVARIANT PassMeansHandled
INVARIANT AnswerIsReported
INVARIANT PassIsEvidence
INVARIANT FailIsDeserved
CHECK_DEADLOCK FALSE

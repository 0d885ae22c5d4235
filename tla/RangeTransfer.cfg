SPECIFICATION FairSpec
CONSTANTS
  w1 = w1
  w2 = w2
  w3 = w3
  Worker = {w1, w2, w3}
  Total = 3
  Hedging = TRUE
  Stalled = 1
INVARIANTS
  AttemptsAccounted
PROPERTIES
  FailureIsFinal
  CoverageKept
  StopEndsTransfer
  StallSurvived
CHECK_DEADLOCK FALSE

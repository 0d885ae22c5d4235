SPECIFICATION Spec
CONSTANTS
  MinRequest = 1
  MaxRequest = 2
  ChunksPerWorker = 1
  MaxRequests = 4
  MaxCompleted = 3
  Second = 4
  SpeedWindow = 4
  MinRateSpan = 2
  MaxSamples = 4
  StabilityRatio = 4
  MaxRate = 8
  Total = 6
  Workers = 4
  MaxRetries = 2
  BaseDelay = 2
  MaxDelay = 3
  MaxRetryAfter = 5
  Guidance = {4, 6}
  Entropy = {0, 3}
  Steps = {1, 2}
  MaxRuns = 2
INVARIANTS
  WorkIsExact
  NeverRefused
  EstimateIsCurrent
  RetryIsPolite
CHECK_DEADLOCK FALSE

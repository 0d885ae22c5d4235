SPECIFICATION FairSpec
CONSTANTS
  Chunk = {c1, c2}
  b1 = b1
  b2 = b2
  Body = {b1, b2}
  Blank = Blank
  NoTask = NoTask
  NoResource = NoResource
  NoFile = NoFile
  NoRun = NoRun
  Offers <- SingleOffers
  Checksums = {Blank}
  KeepPartialOnFailure = FALSE
  MaxRetries = 0
  MaxPartials = 1
  MaxRuns = 2
  MaxFaults = 0
  MaxCrashes = 1
  MaxChanges = 1
CHECK_DEADLOCK FALSE
INVARIANTS
  PublishedWhole
  CoverageTrustworthy
PROPERTIES
  StopAnswered
  ShutdownExits

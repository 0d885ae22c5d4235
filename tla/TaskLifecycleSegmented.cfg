SPECIFICATION Spec
CONSTANTS
  Chunk = {c1, c2}
  b1 = b1
  b2 = b2
  Body = {b1, b2}
  Blank = Blank
  NoTask = NoTask
  NoResource = NoResource
  NoFile = NoFile
  NoRun = NoRun
  Offers <- SegmentedOffers
  Checksums = {b1, b2, Blank}
  KeepPartialOnFailure = TRUE
  MaxRetries = 1
  MaxPartials = 1
  MaxRuns = 2
  MaxFaults = 1
  MaxCrashes = 1
  MaxChanges = 1
INVARIANTS
  TypeOK
  PublishedWhole
  CompletedIsVerified
  CoverageTrustworthy
  RevisionIdentifiesRecord
  RestIsDurable
  NotStranded
  RecordLoads
PROPERTIES
  AcceptedStopHonoured
  ImplementsDownload
CHECK_DEADLOCK FALSE

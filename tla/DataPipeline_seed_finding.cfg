SPECIFICATION Spec
CONSTANTS
  None = None
  Row <- MCRow
  Revision <- MCRevision
  Upstream <- MCUpstream
  Attr <- MCAttr
  Queue <- MCQueue
  Text <- MCText
  LabelRank <- MCLabelRank
  Seed <- MCSeed
  SeededRank <- MCSeededRank
  SizeTolerance = 1
  ClassTolerance = 1
  Config <- MCSeeds
  Platform = {"laptop"}
  Retries = 1
  MaxJobs = 3
  MaxFaults = 1
CHECK_DEADLOCK FALSE
INVARIANT
  IngestionUsesItsSeed

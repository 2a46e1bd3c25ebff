SPECIFICATION Spec
CONSTANTS
  None = None
  Row <- MCRow
  Revision <- MCRevision
  Upstream <- MCUpstream
  Attr <- MCAttr
  Queue <- MCQueue
  Text <- MCText
  LabelRank <- MCLabelRank
  Seed <- MCSeed
  SeededRank <- MCSeededRank
  SizeTolerance = 1
  ClassTolerance = 1
  Config <- MCConfig
  Platform = {"container", "laptop"}
  Retries = 1
  MaxJobs = 4
  MaxFaults = 2
CHECK_DEADLOCK FALSE
INVARIANTS
  PipelineTypeOK
  VerifiedSplitsAreOneSplit
  IngestionIsReproducible
  ForcedIngestionRecovers
  FailedDownloadKeepsSnapshot
PROPERTIES
  NoSilentReplacement

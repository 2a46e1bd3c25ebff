SPECIFICATION Spec
CONSTANTS
  None = None
  Process = {p1, p2}
  Workflow = {w1}
  Candidate <- MCCandidate
  Baseline <- MCBaseline
  Class <- MCClass
  Guardrails <- MCGuardrails
  NameRank <- MCNameRank
  Version <- MCVersion
  Measured <- MCMeasured
  Latency = {1, 2}
  FallbackAllowed = {TRUE, FALSE}
  QuietData = TRUE
  MaxAttempts = 2
  MaxSeconds = 1
SYMMETRY Symmetry
CHECK_DEADLOCK FALSE
INVARIANTS
  ExperimentsTypeOK
  LeaderboardIsBacked
  OneSelectedPerExperiment
  TrainedOnRecordedData

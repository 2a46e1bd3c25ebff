SPECIFICATION Spec
CONSTANTS
  None = None
  Process = {p1}
  Workflow = {w1}
  Candidate <- MCCandidate
  Baseline <- MCBaseline
  Class <- MCClass
  Guardrails <- MCGuardrails
  NameRank <- MCNameRank
  Version <- MCVersion
  Measured <- MCMeasured
  Latency = {1, 2}
  FallbackAllowed = {TRUE, FALSE}
  QuietData = FALSE
  MaxAttempts = 1
  MaxSeconds = 0
CHECK_DEADLOCK FALSE
INVARIANTS
  TrainedOnRecordedData

CONSTANTS
    p1 = p1
    e1 = e1
    e2 = e2
    NoRun = NoRun
    PriorRuns = {p1}
    FinalRuns = {e1, e2}
    TrainRuns = {}
    MinimumMacroF1 = 4
    MaximumMacroF1Regression = 1
    MinimumRecall = 2
    MaximumLatency = 3
    RequireModelLoad = TRUE
    RequireContract = TRUE
    RequireSignature = TRUE
    Evidence <- MCEvidence
    Serial = FALSE
    Flaky = TRUE
    Recoverers = {r1}
    Clients = {e1, e2, r1}
    MaxVersions = 6
    MaxStops = 1
SPECIFICATION Spec
INVARIANTS
    TypeOK
    OpenedOnlyUnderAudit
    CompletedAuditNamesGatedVersion
    RegisteredWasEvaluated

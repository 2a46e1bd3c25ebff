CONSTANTS
    p1 = p1
    e1 = e1
    e2 = e2
    t1 = t1
    t2 = t2
    NoRun = NoRun
    PriorRuns = {p1}
    FinalRuns = {e1, e2}
    TrainRuns = {t1}
    Recoverers = {r1}
    Promoters = {o1}
    Clients = {e1, e2, t1, r1, o1}
    Evidence <- MCEvidence
    MinimumMacroF1 = 4
    MaximumMacroF1Regression = 1
    MinimumRecall = 2
    MaximumLatency = 3
    RequireModelLoad = TRUE
    RequireContract = TRUE
    RequireSignature = TRUE
    Serial = TRUE
    Flaky = FALSE
    MaxVersions = 4
    MaxStops = 2
    Retries = 1
SPECIFICATION LifecycleFairSpec
INVARIANTS
    LifecycleTypeOK
    SealedTestOpenedOnce
    OneVersionPerRun
    ChampionWasTestEvaluated
PROPERTIES
    AuditMovesForward
    SealedTestProtocol
    RecoveryCompletes
    ChampionPassedGates

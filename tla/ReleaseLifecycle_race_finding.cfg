CONSTANTS
    p1 = p1
    e1 = e1
    e2 = e2
    t1 = t1
    t2 = t2
    NoRun = NoRun
    PriorRuns = {p1}
    FinalRuns = {e1}
    TrainRuns = {t1}
    Recoverers = {}
    Promoters = {o1}
    Clients = {e1, t1, o1}
    Evidence <- MCEvidence
    MinimumMacroF1 = 4
    MaximumMacroF1Regression = 1
    MinimumRecall = 2
    MaximumLatency = 3
    RequireModelLoad = TRUE
    RequireContract = TRUE
    RequireSignature = TRUE
    Serial = FALSE
    Flaky = FALSE
    MaxVersions = 3
    MaxStops = 0
    Retries = 0
SPECIFICATION LifecycleSpec
INVARIANTS
    ChampionWasTestEvaluated

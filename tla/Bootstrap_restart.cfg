CONSTANTS
    NoRun = NoRun
    PriorRuns = {p1}
    FinalRuns = {e1, e2, e3, e4}
    TrainRuns = {}
    Recoverers = {r1}
    Promoters = {o1}
    Clients = {e1, e2, e3, e4, r1, o1}
    Evidence <- MCEvidence
    MinimumMacroF1 = 4
    MaximumMacroF1Regression = 1
    MinimumRecall = 2
    MaximumLatency = 3
    RequireModelLoad = TRUE
    RequireContract = TRUE
    RequireSignature = TRUE
    Serial = TRUE
    Flaky = FALSE
    MaxVersions = 3
    MaxStops = 3
    PromoteChampion = TRUE
SPECIFICATION BootstrapFairSpec
INVARIANTS
    BootstrapNeverAmbiguous
    BootstrapOpensTestOnce
PROPERTIES
    BootstrapReachesChampion

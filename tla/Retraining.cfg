CONSTANTS
    NoFile = NoFile
    NoText = NoText
    t1 = t1
    t2 = t2
    t3 = t3
    RetrainRuns = {f1}
    MonitorRuns = {m1}
    InboxFiles <- MCFiles
    KnownLabels = {"billing", "sales"}
    Holdout = {t3}
    ParentRecords <- MCRecords
    Lookback = 4
    InboxMayChange = FALSE
    Observations <- MCTwoWindows
    MinimumEvents = 3
    MinimumFeedback = 2
    WarningLevel <- MCWarning
    CriticalLevel <- MCCritical
    MinimumWarningSignals = 2
    MinimumCriticalSignals = 2
    MinimumNewLabels = 3
    RequiredWindows = 2
    DeclineTolerance = 1
    ConfidenceTolerance = 1
    Retries = 1
    MaxFaults = 1
    MaxDeaths = 1
    MaxExecutions = 2
SPECIFICATION Spec
INVARIANTS
    RetrainTypeOK
    CandidateLineage
PROPERTIES
    SustainedEvidence
    SnapshotIsImmutable
CHECK_DEADLOCK FALSE

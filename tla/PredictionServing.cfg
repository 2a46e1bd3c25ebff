CONSTANTS
    p1 = p1
    r1 = r1
    r2 = r2
    v1 = v1
    v2 = v2
    billing = billing
    sales = sales
    support = support
    NoModel = NoModel
    PredictCalls = {p1}
    FeedbackCalls = {f1, f2}
    Requests = {r1, r2}
    Batch <- MCBatch
    Versions = {v1, v2}
    Labels = {billing, sales, support}
    LabelsOf <- MCLabelsOf
    MaxRestarts = 2
SPECIFICATION FairSpec
INVARIANTS
    ServingTypeOK
    AcceptedFeedbackIsStored
    DuplicateMeansStored
    FeedbackNamesAnsweringModel
PROPERTIES
    CreateOnceStore
    CallsAreAnswered


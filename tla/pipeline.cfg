SPECIFICATION FairSpec
CONSTANTS
    a1 = a1
    v0 = v0
    None = None
    NoOffset = NoOffset
    NoOwner = NoOwner
    Other = Other
    Malformed = Malformed
    Runners = {w1, r1}
    Workers = {w1}
    Requests = {r1}
    DeliveryIds = {d1}
    Shas = {a1}
    BaseVersion = v0
    PinnedBaseline = FALSE
    Verdict <- MCVerdict
    MaxTransientRetries = 3
    MaxRetries = 1
    MaxLog = 1
    MaxRuns = 6
    MaxFaults = 3
INVARIANTS
    NothingLeftBehind
    AssessedOnce
PROPERTIES
    ImplementsAnalysisLife
    EveryRequestDecided
CHECK_DEADLOCK FALSE

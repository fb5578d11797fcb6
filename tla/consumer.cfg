SPECIFICATION FairSpec
CONSTANTS
    NoOffset = NoOffset
    NoOwner = NoOwner
    Events = {event}
    Malformed = Malformed
    Workers = {w1, w2}
    MaxTransientRetries = 3
    InitialCommitted = 0
    MaxLog = 2
    MaxFaults = 2
INVARIANTS
    NothingSkipped
PROPERTIES
    CommittedMonotonic
    EveryMessageSettled
CHECK_DEADLOCK FALSE

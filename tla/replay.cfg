SPECIFICATION FairSpec
CONSTANTS
    base = base
    i1 = i1
    i2 = i2
    tool2 = tool2
    None = None
    NoReplay = NoReplay
    Nobody = Nobody
    Requests = {q1, q2, q3}
    Keys = {key}
    Trajectories <- MCTrajectories
    Versions = {base, v1}
    OtherVersions = {tool2}
    InvocationIds = {i1, i2}
INVARIANTS
    EvidenceMatchesStatus
    
    AnswersHold
PROPERTIES
    EveryRequestAnswered
CHECK_DEADLOCK FALSE

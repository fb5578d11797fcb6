SPECIFICATION RunSpec
CONSTANTS
    a1 = a1
    a2 = a2
    v0 = v0
    None = None
    Runners = {p1, p2}
    Shas = {a1, a2}
    BaseVersion = v0
    PinnedBaseline = TRUE
    Verdict <- MCVerdict
    MaxRetries = 1
    MaxRuns = 3
    MaxFaults = 1
SYMMETRY RunnerSymmetry
INVARIANTS
    EvidenceBeforePublish
    StatusBackedByEvidence
    ExactShaPinning
CHECK_DEADLOCK FALSE

SPECIFICATION FairSpec
CONSTANTS
    small = small
    other = other
    oversize = oversize
    Rejected = Rejected
    None = None
    NoRow = NoRow
    Nobody = Nobody
    Requests = {q1, q2, q3}
    Runs = {run}
    Environments = {prod, test}
    ExternalIds = {x}
    Payloads = {small, other, oversize}
    Stored <- MCStored
INVARIANTS
    GaplessSequence
    AnswerMatchesRecord
PROPERTIES
    TerminalIsFrozen
    EveryRequestAnswered
CHECK_DEADLOCK FALSE

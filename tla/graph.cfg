SPECIFICATION FairSpec
CONSTANTS
    p = p
    q = q
    r = r
    None = None
    Clients = {p, q, r}
    Keys <- MCKeys
    VersionNames = {v1, v2, v3}
    RelationshipTypes = {"CALLS", "DEPENDS_ON"}
    Depths = {1, 3}
    Starts <- MCStarts
INVARIANTS
    RegistryAndGraphConsistent
    SearchSound
PROPERTIES
    NodeNeverGoesBack
    EveryRequestAnswered
CHECK_DEADLOCK FALSE

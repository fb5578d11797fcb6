SPECIFICATION Spec
CONSTANTS
    None = None
    NoRow = NoRow
    NewRow = NewRow
    Other = Other
    Requests = {r1, r2, r3}
    DeliveryIds = {d1, d2}
    Shas = {a1, a2}
    MaxLog = 3
    MaxFaults = 2
SYMMETRY IngressSymmetry
INVARIANTS
    DispatchedOnce
    InlineRunsDoNotOverlap
    AnnouncedIsRecorded
    AuditTrail
CHECK_DEADLOCK FALSE

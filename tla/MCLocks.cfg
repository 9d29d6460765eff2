SPECIFICATION FairLocksSpec
CONSTANTS
    Endpoints = {e1}
    Keys = {k1}
    Bodies = {b1, b2}
    Requests = {r1, r2}
    Workers = {w1, w2}
    Replays = {p1}
    MaxAttempts = 2
    Connections = 2
    NULL = NULL
INVARIANTS
    EventsAreCarried
    AcceptedAgree
    ConflictsAreReal
    KnownDeadlocks
    FewLateClaims
PROPERTIES
    NothingAfterDisable
    EverythingSettles
    ImplementsLedger

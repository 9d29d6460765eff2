SPECIFICATION Spec
CONSTANTS
    Workers = {w1, w2}
    Requests = {q1, q2}
    NULL = NULL
CHECK_DEADLOCK FALSE
INVARIANTS
    ReportedEndIsClean
    RequestsAreServed
PROPERTIES
    ProcessEnds

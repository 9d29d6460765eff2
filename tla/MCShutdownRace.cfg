SPECIFICATION Spec
CONSTANTS
    Workers = {w1}
    Requests = {}
    NULL = NULL
CHECK_DEADLOCK FALSE
INVARIANTS
    GracefulShutdown

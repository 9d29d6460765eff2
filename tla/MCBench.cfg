SPECIFICATION Spec
CONSTANTS
    Requests = 3
    Concurrency = 2
    Durations = {1, 2}
    NULL = NULL
CHECK_DEADLOCK FALSE
INVARIANTS
    ReportIsTrue
    QuantilesAreRanks
PROPERTIES
    BenchEnds

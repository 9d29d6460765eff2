SPECIFICATION Spec
CONSTANTS
    NULL = NULL
    NaN = NaN
    Unit = 5
    Second = 10
    Millisecond = 1
    Endpoints = {e1}
    MasterKeys = {k1, k2}
    Settings <- SomeSettings
    Inputs <- SomeInputs
    Lookups <- SomeLookups
INVARIANTS
    NoBlockedConnection
    DiscardsExplained
    BlocksExplained
    LeaseCoversAttempt

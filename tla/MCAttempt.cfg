SPECIFICATION Spec
CONSTANTS
    NULL = NULL
    NaN = NaN
    Unit = 4
    Second = 2
    Millisecond = 2
    Settings <- AllSettings
    Samples <- AllSamples
    StatusCodes <- AllCodes
    ResponseBodies = {"plain", "nul", "malformed", "wide"}
    ErrorMessages = {"plain", "nul", "malformed", "wide"}
    Elapsed <- SteppingClock
    MaxAttempts = 4
CHECK_DEADLOCK FALSE
INVARIANTS
    RefusalsExplained
    DelayFollowsSchedule
    ChargedIsRetried

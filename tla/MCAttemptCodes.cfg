SPECIFICATION Spec
CONSTANTS
    NULL = NULL
    NaN = NaN
    Unit = 4
    Second = 2
    Millisecond = 2
    Settings <- PartialJitter
    Samples <- AllSamples
    StatusCodes <- UnknownCodes
    ResponseBodies = {"plain"}
    ErrorMessages = {"plain"}
    Elapsed = {0, 1}
    MaxAttempts = 4
CHECK_DEADLOCK FALSE
INVARIANTS
    EveryAnswerRecorded

SPECIFICATION InspectSpec
CONSTANTS
    Endpoints = {e1}
    Deliveries = {d1}
    Workers = {w1}
    NULL = NULL
    AttemptLimits = {1, 2}
    Leases = {2}
    Thresholds = {2}
    Cooldowns = {1}
    RetryDelays = {1}
    MaxTxAge = 1
    RecoverLimit = 1
    MaxInt32 = 3
    MaxTime = 3
    Readers = {r1}
INVARIANTS
    DetailsFitTogether

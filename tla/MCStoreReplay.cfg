SPECIFICATION Spec
CONSTANTS
    Endpoints = {e1}
    Deliveries = {d1}
    Workers = {w1}
    NULL = NULL
    AttemptLimits = {2}
    Leases = {2}
    Thresholds = {2}
    Cooldowns = {1}
    RetryDelays = {1}
    MaxTxAge = 1
    RecoverLimit = 1
    MaxInt32 = 4
    MaxTime = 3
PROPERTIES
    ReplayGrantsFreshBudget

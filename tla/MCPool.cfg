SPECIFICATION FairPoolSpec
CONSTANTS
    w1 = w1
    w2 = w2
    i1 = i1
    i2 = i2
    Endpoints = {e1}
    Deliveries = {d1}
    Workers = {w1, w2}
    Instances = {i1, i2}
    InstanceOf <- TwoProcesses
    NULL = NULL
    AttemptLimits = {1, 2}
    SettingsOf <- TwoSettings
    Leases = {3, 4}
    Thresholds = {1, 2}
    Cooldowns = {1}
    RetryDelays = {1}
    MaxTxAge = 1
    RecoverLimit = 1
    MaxInt32 = 2
    MaxTime = 5
    Timeout = 1
INVARIANTS
    PoolTypeOK
    LeaseHeld
    NoDoubleDispatch
PROPERTIES
    ShutdownCompletes

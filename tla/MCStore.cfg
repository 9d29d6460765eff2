SPECIFICATION Spec
CONSTANTS
    Endpoints = {e1}
    Deliveries = {d1, d2}
    Workers = {w1}
    NULL = NULL
    AttemptLimits = {1, 2}
    Leases = {2}
    Thresholds = {1, 2}
    Cooldowns = {1, 2}
    RetryDelays = {1}
    MaxTxAge = 1
    RecoverLimit = 1
    MaxInt32 = 3
    MaxTime = 3
SYMMETRY Symmetry
INVARIANTS
    TypeOK
    SchemaConstraints
    AttemptLimitFits
    NoStrandedDelivery
    HistoryComplete
    VerdictRecorded
    CircuitCoherent
PROPERTIES
    LeaseHonoured
    CircuitMonotone
    ImplementsLifecycle

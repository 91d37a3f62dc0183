\* Two frames while the treasury throttles, reserves and recovers, with a
\* shutdown at any point.
SPECIFICATION LiveSpec
CONSTANTS
    Kinds = {"normal", "anomaly"}
    MaxFrames = 2
    MinInterval = 1
    BootElapsed = 1
    OracleInterval = 1
    Throttle = 250
    Reserve = 70
    PaymentQueueMax = 1
    PaymentAmount = 10
    PaymentLogMax = 1
    SceneInterval = 2
    SceneQueueMax = 1
    ScoringMinPayments = 2
    ScoringMinCompliance = 1
    HasProvider = TRUE
    Adjustments = {"throttle", "reserve"}
    NoFrame = NoFrame
    NoTask = NoTask
CHECK_DEADLOCK FALSE
INVARIANT
    SamplingNeverStarves
PROPERTIES
    ComplianceNotBlockedByPayments
    ShutdownCompletes

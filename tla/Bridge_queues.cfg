\* Four frames of every kind, a payment queue of one and a ring of two.
SPECIFICATION Spec
CONSTANTS
    Kinds = {"normal", "anomaly", "sentinel"}
    MaxFrames = 4
    MinInterval = 2
    BootElapsed = 2
    OracleInterval = 1
    Throttle = 250
    Reserve = 70
    PaymentQueueMax = 1
    PaymentAmount = 10
    PaymentLogMax = 2
    SceneInterval = 5
    SceneQueueMax = 2
    ScoringMinPayments = 2
    ScoringMinCompliance = 1
    HasProvider = TRUE
    Adjustments = {}
    NoFrame = NoFrame
    NoTask = NoTask
CHECK_DEADLOCK FALSE
INVARIANTS
    ComplianceAccounting
    JoinMeansHandled
    OneOutcomePerFrame

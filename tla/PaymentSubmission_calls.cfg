\* Every provider, with and without lost answers.
SPECIFICATION LiveSpec
CONSTANTS
    Keys = {"k1", "k2"}
    MaxCalls = 2
    MaxRetries = 2
    Providers = {"direct", "private", "fallback"}
CHECK_DEADLOCK FALSE
INVARIANTS
    PaidOnceIfAnswered
    SignatureMeansProcessed
PROPERTY
    CallReturns

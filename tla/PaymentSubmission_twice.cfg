\* The direct provider; the answer about a transaction that landed is lost.
SPECIFICATION Spec
CONSTANTS
    Keys = {"k1", "k2"}
    MaxCalls = 1
    MaxRetries = 2
    Providers = {"direct"}
CHECK_DEADLOCK FALSE
INVARIANT
    PaidAtMostOnce

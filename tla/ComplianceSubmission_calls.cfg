\* With and without raised execution errors and lost answers.
SPECIFICATION LiveSpec
CONSTANTS
    Keys = {"k1"}
    MaxCalls = 2
    MaxRetries = 2
    MaxWalks = 2
    SubIndexes = 2
    Ahead = 0
    MaxSlot = 1
    MaxOthers = 1
CHECK_DEADLOCK FALSE
INVARIANTS
    LoggedOnceIfAnswered
    SignatureMeansExecuted
PROPERTY
    CallReturns

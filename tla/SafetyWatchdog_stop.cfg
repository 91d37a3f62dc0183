\* Requests may fail or be lost, the node may crash twice.
SPECIFICATION LiveSpec
CONSTANTS
    Consecutive = 3
    Outcomes = {"success", "failure", "lost"}
    MaxCrashes = 2
INVARIANTS
    OneRequest
PROPERTIES
    NoSpuriousStop
    StopLatched
    OverloadHaltsArm

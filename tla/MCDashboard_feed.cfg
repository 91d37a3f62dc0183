\* Two sticky kinds, two connection objects, any number of reconnects.
SPECIFICATION LiveSpec
CONSTANTS
    Kinds = {"risk", "treasury"}
    Sticky = {"risk", "treasury"}
    Limit <- FeedLimit
    Conns = {1, 2}
    HighWater = 0
    NoConn = 0
    MaxDelay = 2
    MaxSeen = 1
    Markers = {}
    MaxEvents = 1
    MaxReports = 0
CHECK_DEADLOCK FALSE
INVARIANTS
    ShowsLatest
PROPERTIES
    NeverBackwards
    BroadcastsEnd
    Reconnects

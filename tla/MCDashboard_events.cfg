\* Two compliance events, the second a session marker, on the bridge's feed and the chain's.
SPECIFICATION Spec
CONSTANTS
    Kinds = {"risk", "compliance"}
    Sticky = {"risk"}
    Limit <- FeedLimit
    Conns = {1, 2}
    HighWater = 0
    NoConn = 0
    MaxDelay = 1
    MaxSeen = 2
    Markers = {2}
    MaxEvents = 2
    MaxReports = 3
CHECK_DEADLOCK FALSE
INVARIANTS
    CountedOnce
    RowsOncePerFeed

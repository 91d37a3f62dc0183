\* The recorded and the ROS 2 source, three rows, four video frames.
SPECIFICATION Spec
CONSTANTS
    MaxSignals = 2
    Period = 2
    Stale = 2
    QueueMax = 2
    MaxFrames = 5
    Workers = {"payment", "scene"}
    Callers = {"payment", "scene"}
    Scene = "scene"
    NoWorker = "none"
    Rows = 3
    MapLen = 4
    MaxLoops = 2
    Timeout = 2
    Attempts = 2
    TaskMax = 1
    Cameras = {"wrist", "third"}
    Kinds = {"ros2", "recorded"}
    Providers = {"direct", "umbra"}
CHECK_DEADLOCK FALSE
INVARIANTS
    SilenceReported
    NewestKept
    FrameAsAsked
    DecidesInTime
    PictureOfItsFrame

\* A call that cannot be routed: expects a violation.
SPECIFICATION FairSpec
CONSTANTS
    Mode = "enforce"
    Inputs = {"allowed", "malformed"}
    Sizes = {"short"}
    MayQuit = FALSE
    MayCrash = FALSE
    PipeHolds = 2
    ReaderHolds = 1
    HighWater = 1
    MaxLines = 3
    MaxLogs = 0
CHECK_DEADLOCK FALSE
PROPERTIES
    EndsWithClient

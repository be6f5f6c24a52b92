\* Every kind of line, a client and a child that may die.
SPECIFICATION Spec
CONSTANTS
    Mode = "enforce"
    Inputs = {"plain", "allowed", "denied", "unnamed", "malformed", "long"}
    Sizes = {"short", "long"}
    MayQuit = TRUE
    MayCrash = TRUE
    PipeHolds = 2
    ReaderHolds = 1
    HighWater = 0
    MaxLines = 3
    MaxLogs = 1
INVARIANTS
    LinesAccounted
    CallsAudited
    Backpressure
    NoAnswerLost
    NoStandstill
PROPERTIES
    ImplementsFilteredChannel

\* Lines that can be routed, a client that reads, a child that may die.
SPECIFICATION FairSpec
CONSTANTS
    Mode = "enforce"
    Inputs = {"plain", "allowed", "denied"}
    Sizes = {"short"}
    MayQuit = FALSE
    MayCrash = TRUE
    PipeHolds = 1
    ReaderHolds = 0
    HighWater = 0
    MaxLines = 3
    MaxLogs = 1
PROPERTIES
    EveryLineSettled
    EndsWithClient
    EndsWithChild

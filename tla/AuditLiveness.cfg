\* Audit mode with Redis: every request ends, and only policy denials go on;
\* one fault.
SPECIFICATION FairSpec
CONSTANTS
    s1 = s1
    s2 = s2
    s3 = s3
    w1 = w1
    w2 = w2
    c1 = c1
    Slots = {s1, s2}
    Workers = {w1, w2}
    WorkerOf <- TwoWorkers
    Callers = {c1}
    Inputs <- ModeMatters
    Mode = "audit"
    Store = "redis"
    Broker = "none"
    DefaultTarget = TRUE
    MaxCalls = 1
    MaxRecords = 1
    MaxRows = 1
    MaxFaults = 1
PROPERTIES
    EveryRequestEnds
INVARIANTS
    FailClosed

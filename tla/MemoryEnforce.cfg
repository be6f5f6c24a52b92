\* The in-memory store, enforce mode, STS credentials: two requests at a time
\* of every kind, the worker stopping, crashing and restarting once.
SPECIFICATION Spec
CONSTANTS
    s1 = s1
    s2 = s2
    s3 = s3
    w1 = w1
    w2 = w2
    c1 = c1
    Slots = {s1, s2}
    Workers = {w1}
    WorkerOf <- OneWorker
    Callers = {c1}
    Inputs <- AllKindsOfOne
    Mode = "enforce"
    Store = "memory"
    Broker = "aws_sts"
    DefaultTarget = FALSE
    MaxCalls = 2
    MaxRecords = 3
    MaxRows = 2
    MaxFaults = 1
SYMMETRY SlotSymmetry
INVARIANTS
    FailClosed
    CredentialsConfined
    AuditIsTruthful

\* The Redis store shared by two workers: three requests of a caller at
\* a time, stale replies, failing commands, one stop, crash or loss.
SPECIFICATION Spec
CONSTANTS
    s1 = s1
    s2 = s2
    s3 = s3
    w1 = w1
    w2 = w2
    c1 = c1
    Slots = {s1, s2, s3}
    Workers = {w1, w2}
    WorkerOf <- ThreeSlots
    Callers = {c1}
    Inputs <- GoodOfOne
    Mode = "enforce"
    Store = "redis"
    Broker = "none"
    DefaultTarget = FALSE
    MaxCalls = 2
    MaxRecords = 2
    MaxRows = 2
    MaxFaults = 1
SYMMETRY SlotSymmetry
INVARIANTS
    CallQuotaBound
    RecordQuotaBound
    SpentNeverExecutes
    AuditIsTruthful
PROPERTIES
    ImplementsSoftQuota

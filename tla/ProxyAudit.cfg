\* Three requests of every kind, both modes, every sink, one end.
SPECIFICATION FairSpec
CONSTANTS
    Requests <- ThreeRequests
    Inputs <- MCInputs
    MayBe <- MCMayBe
    Modes = {"enforce", "audit"}
    Agents <- MCAgents
    NonAscii = {"tx"}
    Limit = 1
    MaxEnds = 1
CHECK_DEADLOCK FALSE
INVARIANTS
    NothingDeniedForwarded
    EventsTellTheTruth
    AnsweredIsLogged
    EventsAccounted
    FollowedOnce
PROPERTIES
    ImplementsAuditTrail
    DrainEnds
    QueueIsWorkedOff

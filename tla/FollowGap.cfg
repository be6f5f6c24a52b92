\* A follower of the audit log: expects a violation.
SPECIFICATION Spec
CONSTANTS
    Requests <- ThreeRequests
    Inputs <- MCInputs
    MayBe <- MCMayBe
    Modes = {"enforce"}
    Agents <- MCAgents
    NonAscii = {"tx"}
    Limit = 1
    MaxEnds = 0
CHECK_DEADLOCK FALSE
INVARIANT FollowMissesNothing

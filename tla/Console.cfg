\* Two scenarios and a run of the dashboard, a restart.
SPECIFICATION Spec
CONSTANTS
    Secrets = {"s1", "s2"}
    Provider = "local"
    Ttl = 1
    MaxTime = 1
    Runs <- MCRuns
    Live <- MCLive
    Calls <- MCCalls
    Replies <- MCReplies
    Fallback <- MCFallback
    Modes = {"enforce", "audit"}
    Limits <- MCLimits
    MaxReboots = 1
CHECK_DEADLOCK FALSE
INVARIANTS
    FunnelAdds
    LogIsOfTheAnswered
    QuotaIsExact
    OnlyPermittedWrites
PROPERTIES
    AccessIsEarned
    SpentUntilReboot

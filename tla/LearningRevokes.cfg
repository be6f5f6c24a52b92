\* A merge takes away what was allowed.
SPECIFICATION Spec
CONSTANTS
    Methods <- MCMethods
    Ops <- MCOps
    Tables <- MCTables
    Values <- MCValues
    Keywords <- MCKeywords
    Hosts <- MCHosts
    LinkLocal <- MCLinkLocal
    Traffic <- MCTraffic
    StartPolicies <- MCStartPolicies
    MaxEvents = 3
PROPERTY NothingRevoked

\* Two tools, policies with and without lists, three different events.
SPECIFICATION Spec
CONSTANTS
    Methods <- MCMethods
    Ops <- MCOps
    Tables <- MCTables
    Values <- MCValues
    Keywords <- MCKeywords
    Hosts <- MCHosts
    LinkLocal <- MCLinkLocal
    Traffic <- MCTraffic
    StartPolicies <- MCStartPolicies
    MaxEvents = 3
INVARIANTS SuggestionsSuffice Converges SurfacesAgree
PROPERTIES NothingInvented AdditiveWhereListed

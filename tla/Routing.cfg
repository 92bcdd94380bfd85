\* Two requests and a reroute: five look-ups, of which two share a list.
SPECIFICATION FairSpec
CONSTANTS
    MaxRequests = 2
    MaxReroutes = 1
    MaxCalls = 2
INVARIANTS
    ShownIsNavigated
    RerouteToDestination
PROPERTIES
    AnswersReachUser
\* When all requests are made and no route is there, nothing more happens.
CHECK_DEADLOCK FALSE

\* Navigation is started, stopped, rerouted and started anew at any time.
SPECIFICATION FairSpec
CONSTANTS
    w1 = w1
    Workers <- MCWorkers
    LastStep = 0
    TriggerCount = 2
    MaxReroutes = 1
    MaxWatches = 1
    MaxLookups = 1
    MaxCalls = 1
    MaxEvents = 1
INVARIANTS
    RerouteLimit
    GuiAgrees
    Watched
PROPERTIES
    WorkersEnd
    DivergenceEnds

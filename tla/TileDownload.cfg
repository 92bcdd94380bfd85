\* Two requests for a tile and two for one without a URL: handlers overlap, workers die
\* and the stack is full;
\* the network option; a shutdown once at most one request has been made.
SPECIFICATION FairSpec
CONSTANTS
    t1 = t1
    t2 = t2
    m1 = m1
    m2 = m2
    w1 = w1
    w2 = w2
    Requests = {1, 2, 3, 4}
    Tiles <- MCTiles
    BadTiles <- MCBadTiles
    TileOf <- MCTileOf
    TagOf <- MCTagOf
    Workers <- MCWorkers
    TaskBufferSize = 0
    Networks = {TRUE, FALSE}
    ShutdownBound = 1
INVARIANTS
    RegisteredIsActive
    ReportedOnce
    AWorkerSurvives
    SuccessIsStored
PROPERTIES
    RequestsSettle
\* All requests are handled in the end.
CHECK_DEADLOCK FALSE

\* Two searches of one page, with up to three calls under way.
SPECIFICATION SearchSpec
CONSTANTS
    t1 = t1
    t2 = t2
    gui = gui
    pool = pool
    address = address
    NoThread = NoThread
    MaxSuffix = 2
    MaxCalls = 3
    Threads <- TwoThreads
    Bases <- OneBase
    Callers <- OneCaller
    Waiters <- OneWaiter
INVARIANTS
    TableExact
    BusyMeansWork
PROPERTIES
    SearchesSettle
\* Once every search has ended nothing more happens.
CHECK_DEADLOCK FALSE

\* Two workers over a queue of two: every leak and the shutdown of a full stack.
SPECIFICATION FairSpec
CONSTANTS
    w1 = w1
    w2 = w2
    Tasks <- MCTasks
    Workers <- MCWorkers
    TaskBufferSize = 0
INVARIANTS
    CountsUnfinished
    NoTaskLost
    TerminatorsOnTop
PROPERTIES
    NoStartAfterShutdown
    NewestFirst
    ShutdownEnds
    ImplementsTaskPool
\* Once every task is submitted or the pool is shut down nothing more happens.
CHECK_DEADLOCK FALSE

\* Two storage databases, with failures and restarts at every step.
SPECIFICATION Spec
CONSTANTS
    t1 = t1
    t2 = t2
    Tiles <- MCTiles
    Extensions = {1, 2}
    Sizes = {1, 2}
    Databases = {0, 1}
    MaxSize = 3
    FailureBound = 2
SYMMETRY MCSymmetry
INVARIANTS
    RowsAreListed
    OldOrNew
PROPERTIES
    WithinLimit

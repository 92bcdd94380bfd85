\* One storage database, no failure, no restart: is what is listed there?
SPECIFICATION Spec
CONSTANTS
    t1 = t1
    t2 = t2
    Tiles <- MCTiles
    Extensions = {1}
    Sizes = {1, 2}
    Databases = {0}
    MaxSize = 3
    FailureBound = 0
INVARIANTS
    MentionedIsStored

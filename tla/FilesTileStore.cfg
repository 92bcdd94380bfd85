\* Three threads store one tile while a fourth looks for it.
SPECIFICATION Spec
CONSTANTS
    t1 = t1
    a = a
    b = b
    c = c
    r1 = r1
    Tiles <- MCTiles
    Writers <- MCWriters
    Readers <- MCReaders
SYMMETRY WriterSymmetry
INVARIANTS
    FinalIsWhole
    SettlesWhole
    FoundIsThere

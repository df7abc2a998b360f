SPECIFICATION Spec
CONSTANTS
    Vertices = {0, 1, 2, 3, 4}
    BlockSize = 2
    Writers = {w1}
    Readers = {r1}
    Programs <- SmallBatches
    Loaded = {0, 1, 2, 3, 4}
    Parlay = TRUE
    Absent = Absent
    NoSnapshot = NoSnapshot
INVARIANTS
    DegreeIsNeighbors

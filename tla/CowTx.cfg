SPECIFICATION Spec
CONSTANTS
    Vertices = {0, 1, 2, 3, 4}
    BlockSize = 2
    Writers = {w1, w2}
    Readers = {r1}
    Programs <- TwoWriters
    Loaded = {0, 1, 2, 3}
    Parlay = FALSE
    Absent = Absent
    NoSnapshot = NoSnapshot
INVARIANTS
    RecordsHold
    CountersExact
    NothingLost
    FlagHeld

SPECIFICATION Spec
CONSTANTS
    Vertices = {1, 2, 3}
    Left <- LeftChild
    Right <- RightChild
    RootVertex = 2
    NumNodes = 12
    NumBlocks = 12
    Writer = w
    Readers = {r1, r2}
    Quiet = TRUE
    MaxWrites = 2
    ReadOps <- Reads
    NoSnapshot = NoSnapshot
    NoAnswer = NoAnswer
INVARIANTS
    SnapshotKept
    NothingDangling
    CountsExact
PROPERTIES
    TreesImplementStore
SYMMETRY Symmetry

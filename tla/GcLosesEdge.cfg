SPECIFICATION Spec
CONSTANTS
    Writers = {w1}
    Handles = {h1}
    EdgeSets <- TwoEdges
    Kinds <- Shared
    NumVertices = 2
    MaxTimestamp = 4
    MaxActive = 2
    Indexes = {"hashmap"}
PROPERTIES
    CutsSpareSnapshots
CHECK_DEADLOCK FALSE

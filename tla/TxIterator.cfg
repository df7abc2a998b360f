SPECIFICATION Spec
CONSTANTS
    Writers = {w1, w2}
    Readers = {r1}
    Loader = loader
    Nobody = nobody
    NoAnswer = noAnswer
    Txs <- OneEdgeTxs
    ReadOps <- IterateOps
    NumVertices = 2
    Loaded = 2
    MaxTxs = 1
    MaxReads = 1
INVARIANTS
    SnapshotReads
CHECK_DEADLOCK FALSE

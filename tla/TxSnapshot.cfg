SPECIFICATION FairSpec
CONSTANTS
    Writers = {w1, w2}
    Readers = {r1}
    Loader = loader
    Nobody = nobody
    NoAnswer = noAnswer
    Txs <- EdgeTxs
    ReadOps <- EdgeOps
    NumVertices = 3
    Loaded = 3
    MaxTxs = 1
    MaxReads = 2
INVARIANTS
    TypeOK
    SnapshotReads
    ChainsMatchLog
    DegreesMatchEdges
    NewestFirst
PROPERTIES
    ImplementsStore
    CommitsReturn
    ReadsReturn
CHECK_DEADLOCK FALSE

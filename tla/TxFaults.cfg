SPECIFICATION Spec
CONSTANTS
    Writers = {w1, w2}
    Readers = {r1}
    Loader = loader
    Nobody = nobody
    NoAnswer = noAnswer
    Txs <- FaultTxs
    ReadOps <- FaultOps
    NumVertices = 3
    Loaded = 0
    MaxTxs = 2
    MaxReads = 2
INVARIANTS
    NoLockLeft
    ChainsMatchLog
    OnlyNewVerticesThrow
CHECK_DEADLOCK FALSE

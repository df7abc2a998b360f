SPECIFICATION FairSpec
CONSTANTS
    Actors = {a1, a2, a3}
    Excl = 4
    HoldLimit = 2
    MaxCalls = 2
INVARIANTS
    TypeOK
    WordCountsHolders
    MutualExclusion
    AssertionsHold
PROPERTIES
    ImplementsRWLock
    LockIsGranted
CHECK_DEADLOCK FALSE

SPECIFICATION IndexSpec
CONSTANTS
    SkipLevels = 3
    SkipBlock = 2
    SegmentSize = 4
    FilterSizes = {4}
    Open = Open
    Destinations <- DestMC
    VectorSize = 3
    Descending <- DescendingMC
    Draws <- Heights
    MaxTime = 2
    MaxInserts <- InsertsMC
    MaxRepeats <- RepeatsMC
    MaxLate <- LateMC
INVARIANTS
    ReadsFind
    ScansYieldOnce
    DegreeCounts
    StructureHolds
CHECK_DEADLOCK FALSE

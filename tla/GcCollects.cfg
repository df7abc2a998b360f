SPECIFICATION FairSpec
CONSTANTS
    Writers = {w1}
    Handles = {h1, h2}
    EdgeSets <- AgainAndMore
    Kinds <- AllKinds
    NumVertices = 2
    MaxTimestamp = 3
    MaxActive = 1
    Indexes = {"vector", "hashmap"}
INVARIANTS
    TypeOK
    LatestSurvives
    OnceInsertedSurvives
PROPERTIES
    DestructorReturns
CHECK_DEADLOCK FALSE

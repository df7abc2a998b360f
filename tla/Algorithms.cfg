SPECIFICATION FairSpec
CONSTANTS
    NumVertices = 6
    NumThreads = 3
    Graphs <- Shapes
    Builds = {TRUE, FALSE}
    Sources = {0, 5}
    Alphas = {2, 5}
    Beta = 2
    WordBits = 4
    Starts = {0, 5}
    Delta = 2
INVARIANTS
    PathsDescend
    ComponentsFound
    BfsExact
    BfsSound
    QueueFits
    SsspExact
PROPERTIES
    AlgorithmsReturn
CHECK_DEADLOCK FALSE

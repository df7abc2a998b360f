SPECIFICATION Spec
CONSTANTS
    NumVertices = 6
    NumThreads = 2
    Graphs <- Shapes
    Builds = {FALSE}
    Sources = {0}
    Alphas = {2, 5}
    Beta = 2
    WordBits = 1
    Starts = {0}
    Delta = 2
INVARIANTS
    DistancesExact
CHECK_DEADLOCK FALSE

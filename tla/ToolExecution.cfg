SPECIFICATION FairSpec
CONSTANTS
    MaxCalls = 3
    Ids = {x, y}
    Parallel = 2
    MaxCrashes = 1
    MaxRuns = 2
INVARIANTS TypeOK  
PROPERTIES NoResultOfThisRunReused ToolPhaseEnds
CHECK_DEADLOCK FALSE

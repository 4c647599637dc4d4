SPECIFICATION Spec
CONSTANTS
    MaxTurns = 2
    MaxRuns = 2
    MaxCrashes = 1
    OutputRetries = 1
    Options = {"guard", "schema", "compactor", "token_budget"}
INVARIANTS TypeOK WireValid   OutputOrError
PROPERTY OnlyCompactionForgets
CHECK_DEADLOCK FALSE

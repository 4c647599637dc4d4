SPECIFICATION Spec
CONSTANTS
    Tasks = {t1, t2}
    Calls = {k1, k2}
    MaxSpawns = 2
    MaxBuilds = 2
    MaxRuns = 3
    MaxTurns = 2
INVARIANTS ClosingReleases SpawnBudget
SYMMETRY Symmetry
CHECK_DEADLOCK FALSE

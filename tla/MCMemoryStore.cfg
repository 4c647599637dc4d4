CONSTANTS
    n1 = n1
    n2 = n2
    b1 = b1
    b2 = b2
    Clients = {c1, c2}
    Names = {n1, n2}
    MaxSuffix = 4
    Bodies = {b1, b2}
    Mentions <- MCMentions
    MaxOps = 4
    MaxCrashes = 1
SPECIFICATION FairSpec
CHECK_DEADLOCK FALSE
INVARIANTS
    TypeOK
    PointersAgree
PROPERTIES
    NothingOverwritten
    OperationsEnd

SPECIFICATION Spec
CONSTANTS
    Writers = {w1, w2}
    Durability = "fsync"
    SealEvery = 2
    LegacyLines = 2
    Sizes = {"small", "big"}
    TornWrites = TRUE
    MaxLines = 5
    MaxCrashes = 1
INVARIANTS TypeOK FileVerifies AckedIsKept AnchorVerifies
SYMMETRY Symmetry
CHECK_DEADLOCK FALSE

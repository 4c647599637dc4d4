SPECIFICATION RecallSpec
CONSTANTS
    Recallers = {r1, r2}
    Writers = {w1}
    Memories = {s1, s2}
    MaxWrites = 3
INVARIANTS RecallTypeOK RecallsWhatWasSaved
SYMMETRY Symmetry
CHECK_DEADLOCK FALSE

SPECIFICATION DlqSpec
CONSTANTS
    Writers = {w1, w2}
    RotateCount = 3
    MaxSize = 1
    MaxWrites = 9
    w1 = w1
    w2 = w2
SYMMETRY WriterSymmetry
INVARIANTS OldestLostFirst
PROPERTIES OnlyLastGenerationDiscarded
CHECK_DEADLOCK FALSE

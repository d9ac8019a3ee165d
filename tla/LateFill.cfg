SPECIFICATION Spec
CONSTANTS
    Workers = {w1, w2}
    Keys = {k1, k2}
    None = None
    FillCounts = {0, 2}
    MaxMoves = 1
    MaxWorkload = 2
    MaxChanges = 1
    MaxFailures = 1
SYMMETRY Symmetric
CHECK_DEADLOCK FALSE
INVARIANT NoFillIsForgotten

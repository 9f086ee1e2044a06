SPECIFICATION Spec
CONSTANTS
    Key = {k1}
    NoKey = NoKey
    Row = {r1, r2}
    NoRow = NoRow
    Modes = {"column"}
    Filtered = {}
    Unreadable = {}
    MaxBatch = 1
    MaxAttempts = 2
    MaxLosses = 0
INVARIANT NoDuplicates
CHECK_DEADLOCK FALSE

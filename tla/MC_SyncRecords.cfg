SPECIFICATION Spec
CONSTANTS
    Key = {k1, k2, k3}
    NoKey = NoKey
    Row = {r1, r2, r3}
    NoRow = NoRow
    Modes = {"column", "external", "stamped", "linked", "derived"}
    Filtered = {k3}
    Unreadable = {k2}
    MaxBatch = 2
    MaxAttempts = 2
    MaxLosses = 1
SYMMETRY Symmetry
INVARIANTS TypeOK SerialAttemptsDoNotDuplicate DoneMeansStored StatsAddUp
PROPERTY AnswersStay
\* The activity ends.
CHECK_DEADLOCK FALSE

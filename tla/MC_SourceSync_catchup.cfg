SPECIFICATION Spec
CONSTANTS
    Item = {a, b}
    ChunkSize = 1
    AskLimit = 1
    KeepsOrder = TRUE
    MaxAttempts = 2
    Minutes <- MCMinutes
    MaxVersion = 1
    MaxSignals = 2
    MaxFaults = 0
    RunsCap = 1
INVARIANT ResumeCatchesUp
CHECK_DEADLOCK FALSE

SPECIFICATION Spec
CONSTANTS
    Item = {a, b}
    ChunkSize = 1
    AskLimit = 1
    KeepsOrder = TRUE
    MaxAttempts = 2
    Minutes <- MCMinutes
    MaxVersion = 1
    MaxSignals = 0
    MaxFaults = 1
    RunsCap = 1
INVARIANT PauseExplained
CHECK_DEADLOCK FALSE

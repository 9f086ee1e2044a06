SPECIFICATION FairSpec
CONSTANTS
    Item = {a, b}
    ChunkSize = 1
    AskLimit = 1
    KeepsOrder = TRUE
    MaxAttempts = 2
    Minutes <- MCMinutes
    MaxVersion = 1
    MaxSignals = 2
    MaxFaults = 2
    RunsCap = 1
PROPERTIES EventuallyMirrored RevocationParks RequestsServed
\* Every bound can be used up while the workflow is paused.
CHECK_DEADLOCK FALSE

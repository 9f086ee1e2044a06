SPECIFICATION Spec
CONSTANTS
    Item = {a, b}
    ChunkSize = 1
    AskLimit = 1
    KeepsOrder = TRUE
    MaxAttempts = 2
    Minutes <- MCMinutes
    MaxVersion = 2
    MaxSignals = 3
    MaxFaults = 2
    RunsCap = 1
SYMMETRY Symmetry
INVARIANTS TypeOK RequestsSurvive AuthStops
PROPERTIES SuccessMeansMirrored ImplementsMirror
\* Every bound can be used up while the workflow is paused.
CHECK_DEADLOCK FALSE

SPECIFICATION FairSpec
CONSTANTS
    MaxAttempts = 2
    MaxFaults = 0
    MaxSignals = 0
PROPERTY PauseNeedsHuman
\* Every bound can be used up while the workflow is paused.
CHECK_DEADLOCK FALSE

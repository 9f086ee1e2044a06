SPECIFICATION FairSpec
CONSTANTS
    MaxAttempts = 2
    MaxFaults = 3
    MaxSignals = 3
INVARIANTS TypeOK PausedOnlyAfterWarm
PROPERTIES DeadLoginPauses SyncsAgain
\* Every bound can be used up while the workflow is paused.
CHECK_DEADLOCK FALSE

SPECIFICATION FairSpec
CONSTANTS
    MaxGrants = 2
    MaxGen = 2
    RefreshesBeforeContinue = 2
    MaxAttempts = 2
    Refusals <- Unnamed
    MaxSignals = 1
    MaxFaults = 1
PROPERTY DeadGrantParks
\* Every bound can be used up while the workflow is parked.
CHECK_DEADLOCK FALSE

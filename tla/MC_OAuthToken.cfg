SPECIFICATION FairSpec
CONSTANTS
    MaxGrants = 2
    MaxGen = 2
    RefreshesBeforeContinue = 2
    MaxAttempts = 2
    Refusals <- Named
    MaxSignals = 3
    MaxFaults = 2
INVARIANTS TypeOK NeverLockedOut RejectionParks
PROPERTIES ImplementsCredential HealsItself HealsInPlace DeadGrantParks
\* Every bound can be used up while the workflow is parked.
CHECK_DEADLOCK FALSE

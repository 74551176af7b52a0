SPECIFICATION RecoveryFairSpec
CONSTANTS
    i1 = i1
    i2 = i2
    Nobody = Nobody
    Instances <- MCInstances
    MaxRevisions = 2
    MaxLeases = 2
    MaxPublications = 2
INVARIANTS
    RecoveryTypeOK
    OneStoryOwner
    FenceAgreement
    RunningStoryIsOwned
    EndedCaseIsQuiet
PROPERTIES
    RunningAttemptEndsProven
    StaleLeaseStartsNothing
    ImplementsDispatch
    ReconcilableOwnerIsReplaced
CHECK_DEADLOCK FALSE

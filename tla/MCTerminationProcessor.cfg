SPECIFICATION MCSpec
CONSTANTS
    i1 = i1
    i2 = i2
    s1 = s1
    s2 = s2
    Instances <- MCInstances
    Runtimes <- MCRuntimes
    OwnerOf <- MCOwnerOf
    MaxFaults = 1
    Nobody = Nobody
INVARIANTS
    NothingRunsAfterTheEnd
    QuarantineHasReason
PROPERTIES
    TerminationSettles
CHECK_DEADLOCK FALSE

SPECIFICATION RecoveryFairSpec
CONSTANTS
    i1 = i1
    i2 = i2
    Nobody = Nobody
    Instances <- MCInstances
    MaxRevisions = 1
    MaxLeases = 2
    MaxPublications = 2
PROPERTIES
    AbandonedOwnerSettles
CHECK_DEADLOCK FALSE

CONSTANTS
    c1 = c1
    c2 = c2
    w1 = w1
    w2 = w2
    Claims <- MCClaims
    Work <- MCOneWork
    WorkOf <- MCRetried
    Legacy = TRUE
    MaxRequests = 2
    MaxOwnerAttempts = 2
SPECIFICATION LifecycleSpec
CHECK_DEADLOCK FALSE
INVARIANT OneRuntimePerWork

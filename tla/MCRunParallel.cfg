CONSTANTS
    c1 = c1
    c2 = c2
    w1 = w1
    w2 = w2
    Claims <- MCClaims
    Work <- MCTwoWork
    WorkOf <- MCParallel
    Legacy = FALSE
    MaxRequests = 1
    MaxOwnerAttempts = 2
SPECIFICATION LifecycleSpec
CHECK_DEADLOCK FALSE
INVARIANT LifecycleTypeOK DrainProofHolds OwnerKeepsRun TerminalRunIsQuiet AcceptedIsWholeTruth
PROPERTY ReceiptNotRevoked NothingStartsUnderTermination

SPECIFICATION EffectsSpec
CONSTANTS
    Effects <- MCEffects
    Observable <- MCObservable
    MaxOwners = 3
    MaxAttempts = 2
INVARIANTS
    CrashesDoNotRepeat
    GivenUpAfterLastAttempt
PROPERTIES
    ImplementsReceipt
    EveryReceiptSettles
CHECK_DEADLOCK FALSE

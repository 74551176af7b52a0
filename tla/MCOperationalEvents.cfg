SPECIFICATION MCSpec
CONSTANTS
    e1 = e1
    e2 = e2
    p1 = p1
    p2 = p2
    w1 = w1
    w2 = w2
    t1 = t1
    t2 = t2
    t3 = t3
    Events <- MCEvents
    ValidEvents <- MCValidEvents
    Consumers <- MCConsumers
    Publishers <- MCPublishers
    Workers <- MCWorkers
    ConsumerOf <- MCConsumerOf
    Tokens <- MCTokens
    LeaseTokens <- MCTokens
    AttemptLimit = 2
    MaxFaults = 1
    None = None
    Nobody = Nobody
INVARIANTS
    CanonicalIffPublished
    QuarantineIsEarned
    DeliveryTypeOK
    OneSinkCallPerAttempt
    ReceiptIsOfLastClaim
PROPERTIES
    LiveLeaseIsExclusive
    ImplementsLedger
    RecordedEventIsHandedOn

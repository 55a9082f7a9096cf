SPECIFICATION FairSpec
CONSTANTS
    NoClient = NoClient
    NoBucket = NoBucket
    Worker = {w1, w2}
    Client = {c1, c2}
    Bucket = {b1, b2, b3, b4}
    Burst = 2
    GlobalBurst = 2
    MaxRequests = 4
INVARIANT OverdraftExplained
PROPERTY ImplementsTokenBucket
PROPERTY RequestsDecided
PROPERTY IdleClientsDropped

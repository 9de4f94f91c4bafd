SPECIFICATION Spec
CONSTANTS
    m1 = m1
    m2 = m2
    Macs <- MCMacs
    PoolStart = 2
    PoolSize = 2
    ServerIp = 1
    Ips <- MCIps
    OfferSecs = 1
    LeaseSecs = 2
    MaxTime = 2
SYMMETRY Symmetry
INVARIANTS TypeOK UniqueAddress AnswerBacked OfferNeverDeclined
PROPERTIES StickyOffer PoolSuffices ImplementsRegistry

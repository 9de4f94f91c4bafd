SPECIFICATION Spec
CONSTANTS
    m1 = m1
    m2 = m2
    Macs <- MCMacs
    PoolStart = 2
    PoolSize = 2
    ServerIp = 1
    Ips <- MCIps
    OfferSecs = 1
    LeaseSecs = 2
    MaxTime = 3
    Cap = 1
    MaxSessions = 2
VIEW View
SYMMETRY Symmetry
INVARIANTS TypeOK NoSharedAddress BeliefBacked
PROPERTIES StartsSeeded
CHECK_DEADLOCK FALSE

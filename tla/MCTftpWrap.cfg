SPECIFICATION FairSpec
CONSTANTS
    MaxSessions = 2
    Blocks = 5
    BlockMod = 4
    MaxRetries = 1
    ClientTries = 1
    Cap = 2
    Reorder = FALSE
INVARIANTS TypeOK InOrder SuccessMeansDelivered Lockstep
PROPERTIES ImplementsDelivery SessionsEnd
CHECK_DEADLOCK FALSE

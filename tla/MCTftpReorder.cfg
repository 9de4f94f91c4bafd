SPECIFICATION Spec
CONSTANTS
    MaxSessions = 1
    Blocks = 5
    BlockMod = 6
    MaxRetries = 1
    ClientTries = 1
    Cap = 3
    Reorder = TRUE
INVARIANTS InOrder SuccessMeansDelivered
CHECK_DEADLOCK FALSE

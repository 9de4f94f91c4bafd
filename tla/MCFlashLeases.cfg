SPECIFICATION Spec
CONSTANTS
    AdminModes = {TRUE}
    FaultModes = {FALSE}
    MaxStarts = 1
    IdleLimit = 2
    MaxGrants = 1
    Transfers = {}
    Remotes = {"r1"}
INVARIANTS LeasesSaved
CHECK_DEADLOCK FALSE

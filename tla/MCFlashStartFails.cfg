SPECIFICATION Spec
CONSTANTS
    AdminModes = {TRUE}
    FaultModes = {TRUE}
    MaxStarts = 1
    IdleLimit = 1
    MaxGrants = 0
    Transfers = {}
    Remotes = {"r1"}
INVARIANTS StartFailureRollsBack
CHECK_DEADLOCK FALSE

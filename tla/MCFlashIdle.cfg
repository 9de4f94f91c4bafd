SPECIFICATION Spec
CONSTANTS
    AdminModes = {TRUE}
    FaultModes = {FALSE}
    MaxStarts = 1
    IdleLimit = 2
    MaxGrants = 0
    Transfers = {"t1"}
    Remotes = {"r1"}
PROPERTIES AutoStopWhenSilent
CHECK_DEADLOCK FALSE

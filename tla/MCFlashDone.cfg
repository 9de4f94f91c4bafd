SPECIFICATION Spec
CONSTANTS
    AdminModes = {TRUE}
    FaultModes = {FALSE}
    MaxStarts = 1
    IdleLimit = 1
    MaxGrants = 0
    Transfers = {"t1", "t2"}
    Remotes = {"r1"}
PROPERTIES DoneSticks
CHECK_DEADLOCK FALSE

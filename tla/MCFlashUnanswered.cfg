SPECIFICATION FairSpec
CONSTANTS
    AdminModes = {TRUE}
    FaultModes = {FALSE}
    MaxStarts = 1
    IdleLimit = 1
    MaxGrants = 0
    Transfers = {}
    Remotes = {"r1"}
PROPERTIES CtrlCExits
CHECK_DEADLOCK FALSE

SPECIFICATION UserSpec
CONSTANTS
    AdminModes = {TRUE, FALSE}
    FaultModes = {TRUE, FALSE}
    MaxStarts = 2
    IdleLimit = 1
    MaxGrants = 0
    Transfers = {}
    Remotes = {"r1"}
INVARIANTS TypeOK CleanAtRest RestoreTried RunningIsWatched
PROPERTIES RestoreOnce CtrlCExits
CHECK_DEADLOCK FALSE

SPECIFICATION Spec
CONSTANTS
    AdminModes = {TRUE}
    FaultModes = {FALSE}
    MaxStarts = 2
    IdleLimit = 1
    MaxGrants = 1
    Transfers = {"t1", "t2"}
    Remotes = {"r1", "r2"}
INVARIANTS NothingStale BannerMatchesTransfer
CHECK_DEADLOCK FALSE

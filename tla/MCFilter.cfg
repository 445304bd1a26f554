SPECIFICATION Spec
CONSTANTS
    Addr <- MCAddr
    Nets <- MCNets
    NonGlobal <- MCNonGlobal
    Special <- MCSpecial
    Users = {"u1", "u2"}
    ListIds = {"deny", "safe", "other"}
    Workers = {w1}
    Clients = {c1}
    Never = Never
    Idle = Idle
    Keep = Keep
    NoJob = NoJob
    Commands <- FilterCommands
    Lists0 <- FilterLists
    Cidrs0 <- FilterCidrs
    InIdOrder = TRUE
    MaxJobs = 3
    MaxTime = 0
    MaxFaults = 1
INVARIANTS
    TypeOK
    SafelistsFilterDenylists
PROPERTIES
    NothingLostByCommit
    AddTakesEffect
    DeleteTakesEffect

SPECIFICATION Spec
CONSTANTS
    Addr <- MCAddr
    Nets <- MCNets
    NonGlobal = {}
    Special <- MCSpecial
    Users = {"u1"}
    ListIds = {"deny", "safe"}
    Workers = {w1, w2}
    Clients = {c1}
    Never = Never
    Idle = Idle
    Keep = Keep
    NoJob = NoJob
    Commands <- SkewCommands
    Lists0 <- SkewLists
    Cidrs0 <- SkewCidrs
    InIdOrder = TRUE
    MaxJobs = 2
    MaxTime = 0
    MaxFaults = 0
INVARIANTS
    SafelistsFilterDenylists

SPECIFICATION LoopSpec
CONSTANTS
    Addr <- MCAddr
    Nets <- MCNets
    NonGlobal = {}
    Special <- MCSpecial
    Users = {"u1"}
    ListIds = {"deny", "safe"}
    Workers = {w1}
    Clients = {c1}
    Never = Never
    Idle = Idle
    Keep = Keep
    NoJob = NoJob
    Commands <- ExpiryCommands
    Lists0 <- ExpiryLists
    Cidrs0 <- ExpiryCidrs
    InIdOrder = TRUE
    MaxJobs = 2
    MaxTime = 2
    MaxFaults = 1
PROPERTIES
    OnlyAddJobsAdd
    RemaindersKeepExpiry
    ExpiredRowsGo
    FilterConverges

SPECIFICATION Spec
CONSTANTS
    Addr <- MCAddr
    Nets <- MCNets
    NonGlobal = {}
    Special <- MCSpecial
    Users = {"u1"}
    ListIds = {"deny", "safe"}
    Workers = {w1}
    Clients = {c1}
    Never = Never
    Idle = Idle
    Keep = Keep
    NoJob = NoJob
    Commands <- EraseCommands
    Lists0 <- EraseLists
    Cidrs0 <- EraseCidrs
    InIdOrder = TRUE
    MaxJobs = 1
    MaxTime = 0
    MaxFaults = 0
PROPERTIES
    OnlyAddJobsAdd

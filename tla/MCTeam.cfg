SPECIFICATION LoopSpec
CONSTANTS
    Addr <- MCAddr
    Nets <- MCNets
    NonGlobal = {}
    Special <- MCSpecial
    Users = {"u1"}
    ListIds = {"deny", "safe"}
    Workers = {w1, w2}
    Clients = {c1}
    Never = Never
    Idle = Idle
    Keep = Keep
    NoJob = NoJob
    Commands <- TeamCommands
    Lists0 <- TeamLists
    Cidrs0 <- TeamCidrs
    InIdOrder = FALSE
    MaxJobs = 2
    MaxTime = 0
    MaxFaults = 1
INVARIANTS
    LocksExclusive
PROPERTIES
    LiveWorkersConsume

SPECIFICATION RestartSpec
CONSTANTS
    Addr <- MCAddr
    Nets <- MCNets
    NonGlobal = {}
    Special <- MCSpecial
    Users = {"u1"}
    ListIds = {"deny", "safe"}
    Workers = {w1}
    Clients = {c1}
    Never = Never
    Idle = Idle
    Keep = Keep
    NoJob = NoJob
    Commands <- PoisonCommands
    Lists0 <- PoisonLists
    Cidrs0 <- PoisonCidrs
    InIdOrder = TRUE
    MaxJobs = 1
    MaxTime = 0
    MaxFaults = 0
PROPERTIES
    EveryJobConsumed

SPECIFICATION Spec
CONSTANTS
    Addr <- MCAddr
    Nets <- MCNets
    NonGlobal = {}
    Special <- MCSpecial
    Users = {"u1"}
    ListIds = {"deny", "safe"}
    Workers = {w1}
    Clients = {c1, c2}
    Never = Never
    Idle = Idle
    Keep = Keep
    NoJob = NoJob
    Commands <- RaceCommands
    Lists0 <- RaceLists
    Cidrs0 <- RaceCidrs
    InIdOrder = TRUE
    MaxJobs = 2
    MaxTime = 0
    MaxFaults = 0
INVARIANTS
    SafelistsFilterDenylists

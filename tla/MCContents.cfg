SPECIFICATION Spec
CONSTANTS
    Addr <- MCAddr
    Nets <- MCNets
    NonGlobal <- MCNonGlobal
    Special <- MCSpecial
    Users = {"u1"}
    ListIds = {"deny", "safe"}
    Workers = {w1}
    Clients = {c1}
    Never = Never
    Idle = Idle
    Keep = Keep
    NoJob = NoJob
    Commands <- ContentsCommands
    Lists0 <- ContentsLists
    Cidrs0 <- ContentsCidrs
    InIdOrder = TRUE
    MaxJobs = 2
    MaxTime = 0
    MaxFaults = 1
INVARIANTS
    RowsHaveLists
PROPERTIES
    BatchesApplyJobs

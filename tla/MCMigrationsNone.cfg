SPECIFICATION Spec
CONSTANTS
    Runners = {r1}
    LastVersion = 2
    NoTable = NoTable
    MaxCrashes = 1
INVARIANTS
    NoneMeansNoTable

SPECIFICATION ScrollSpec
CONSTANTS
    Nets = {n1, n2, n3}
    Writers = {v1, v2}
    PageSize = 2
    MaxId = 4
INVARIANTS
    NoRowTwice
    NoRowSkipped
PROPERTIES
    WalkEnds

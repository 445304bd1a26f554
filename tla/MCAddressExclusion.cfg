SPECIFICATION Spec
CONSTANTS
    Width = 3
    MaxExclusions = 3
INVARIANTS
    TypeOK
    RangesExact
    RangesDisjoint
    ResultExact
    UntouchedMeansNoOverlap
CHECK_DEADLOCK FALSE

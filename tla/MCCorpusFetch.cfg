SPECIFICATION Spec
CONSTANTS
    Fetch = {f1, f2, f3}
    Release = {r1, r2}
    Other = Other
    Rest = Rest
    Nothing = Nothing
    MaxFaults = 1
SYMMETRY Interchangeable
INVARIANTS
    TypeOK
    NeverLost
    RaceEndsWell
    NeverHalf
PROPERTIES
    FailureRestores
CHECK_DEADLOCK FALSE

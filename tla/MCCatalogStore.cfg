SPECIFICATION Spec
CONSTANTS
    Proc = {p1, p2, p3}
    Path = {m1, m2}
    All = All
    Tier = {tldr}
    SourcesRaise = TRUE
    Absent = Absent
    Torn = Torn
SYMMETRY Interchangeable
INVARIANTS
    TypeOK
    FileIsWhole
    NoLitter
    NothingGoneSuggested

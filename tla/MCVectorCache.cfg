SPECIFICATION Spec
CONSTANTS
    Procs = {A, B}
    Threads = {t1, t2}
    Layouts <- MCLayouts
    Models = {"base", "tuned", "wide"}
    Key <- MCKey
    Width <- MCWidth
    Text = {"d1", "d2", "q"}
    DocSets <- MCDocSets
    QueryText = "q"
    MaxStarts = 2
    MaxCloses = 1
    MaxSwaps = 1
SYMMETRY MCSymmetry
INVARIANTS
    NeverMixed
    LoadedOnce
CHECK_DEADLOCK FALSE

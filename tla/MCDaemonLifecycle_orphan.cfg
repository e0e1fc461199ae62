SPECIFICATION Spec
CONSTANTS
    d1 = d1
    d2 = d2
    c1 = c1
    c2 = c2
    NoDaemon = NoDaemon
    Daemon = {d1, d2}
    Client = {c1, c2}
    Transports = {"unix"}
    Faults = {}
    Serial = FALSE
    PromptExit = TRUE
INVARIANTS
    NoOrphan
SYMMETRY Interchangeable

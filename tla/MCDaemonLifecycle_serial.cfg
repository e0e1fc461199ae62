SPECIFICATION FairSpec
CONSTANTS
    d1 = d1
    d2 = d2
    d3 = d3
    c1 = c1
    c2 = c2
    NoDaemon = NoDaemon
    Daemon = {d1, d2, d3}
    Client = {c1, c2}
    Transports = {"unix", "loopback"}
    Faults = {"crash", "interrupt"}
    Serial = TRUE
    PromptExit = TRUE
INVARIANTS
    NoOrphan
    StopIsTruthful
    BindSucceeds
PROPERTIES
    OneAtATime
    StartSucceeds

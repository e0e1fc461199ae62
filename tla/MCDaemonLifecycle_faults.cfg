SPECIFICATION FairSpec
CONSTANTS
    d1 = d1
    d2 = d2
    c1 = c1
    c2 = c2
    NoDaemon = NoDaemon
    Daemon = {d1, d2}
    Client = {c1, c2}
    Transports = {"unix", "loopback"}
    Faults = {"crash", "slow", "accept", "bind", "unlink", "interrupt"}
    Serial = FALSE
    PromptExit = FALSE
INVARIANTS
    TypeOK
    CleanExit
    SomebodyReachable
PROPERTIES
    ShutdownTerminates

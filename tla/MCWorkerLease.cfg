SPECIFICATION FairSpec
CONSTANTS
    Procs = {p, q}
    Ids = {1, 2, 3}
    NoId = 0
    TTL = 3
    Renewal = 1
    Response = 1
    MaxFaults = 1
INVARIANTS
    LeaseCoversCycle
    OneCycle
PROPERTIES
    ShutdownStops
    CyclesGoOn
CHECK_DEADLOCK FALSE

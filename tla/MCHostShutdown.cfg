SPECIFICATION FairSpec
CONSTANTS
    Conns = {c1, c2}
    Owners = {o1, o2}
    MaxActive = 2
    Concurrency = 1
INVARIANTS
    IdleIsNoticed
    DrainedStaysIdle
    WritesAreCleanedUp
PROPERTIES
    ShutdownEnds
CHECK_DEADLOCK FALSE

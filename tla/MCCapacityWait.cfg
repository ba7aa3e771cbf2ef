SPECIFICATION Spec
CONSTANTS
    T1 = T1
    T2 = T2
    Tokens <- TwoTokens
    MaxConcurrent = 1
    WaitingLimits = {1, 2}
    TTL = 3
    WaitTimes = {2}
    RetryDelay = 1
    Interval = 1
    QueueCapacity = 1
    CleanupConcurrency = 1
    Entries = {"wait", "direct"}
    MaxFaults = 1
    MaxTime = 5
SYMMETRY Symmetry
INVARIANTS
    CleanedStaysGone
    RenewedLeaseCovers
    ConcurrencyHeld
PROPERTIES
    NoOvertaking
    CleanupOutlastsPlace
CHECK_DEADLOCK FALSE

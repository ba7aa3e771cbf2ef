SPECIFICATION FairSpec
CONSTANTS
    A = A
    B = B
    C = C
    NoAccount = NoAccount
    Accounts <- TwoAccounts
    Candidates = 1
    Scope <- OneProvider
    RequiredAccount = NoAccount
    Continuation = "none"
    PinnedAccount = NoAccount
    HasSessionState = FALSE
    RecoveryProbe = FALSE
    AccountBusyWait = FALSE
    MaxAttempts = 2
    MaxAccountSwitches = 1
    MaxTransientRetries = 1
    MaxTransportRetries = 1
    MaxOpenings = 1
    StreamErrors <- DeliveryStream
    ExecuteErrors <- JustCapacity
    StreamEvents = {"Prelude", "Semantic", "Completed"}
    Modes = {"stream", "collect"}
    ClientRetries <- SomeGuards
    Faults = {"lost_write", "drop", "keepalive", "cancel", "deadline"}
INVARIANTS
    CommitRecordedAsDelivered
PROPERTIES
    SendNeverTakenBack
    NoReplayAfterExposure
    DecidedFailureStands
    InterruptionFinalizes

SPECIFICATION Spec
CONSTANTS
    A = A
    B = B
    C = C
    NoAccount = NoAccount
    Accounts <- TwoAccounts
    Candidates = 1
    Scope <- OneProvider
    RequiredAccount = NoAccount
    Continuation = "external"
    PinnedAccount = NoAccount
    HasSessionState = TRUE
    RecoveryProbe = FALSE
    AccountBusyWait = FALSE
    MaxAttempts = 3
    MaxAccountSwitches = 1
    MaxTransientRetries = 1
    MaxTransportRetries = 1
    MaxOpenings = 1
    StreamErrors <- SocketStream
    ExecuteErrors <- JustCapacity
    StreamEvents = {"Prelude", "Semantic"}
    Modes = {"stream", "collect"}
    ClientRetries <- NoGuard
    Faults = {}
INVARIANTS
    RetryPinSelectable

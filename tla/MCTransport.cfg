SPECIFICATION Spec
CONSTANTS
    A = A
    B = B
    C = C
    NoAccount = NoAccount
    Accounts <- TwoAccounts
    Candidates = 1
    Scope <- OneProvider
    RequiredAccount = NoAccount
    Continuation = "none"
    PinnedAccount = NoAccount
    HasSessionState = FALSE
    RecoveryProbe = FALSE
    AccountBusyWait = FALSE
    MaxAttempts = 2
    MaxAccountSwitches = 1
    MaxTransientRetries = 1
    MaxTransportRetries = 2
    MaxOpenings = 4
    StreamErrors <- ReconnectStream
    ExecuteErrors <- RoutingExecute
    StreamEvents = {"Prelude", "Semantic"}
    Modes = {"stream"}
    ClientRetries <- NoGuard
    Faults = {"drop", "cancel"}
INVARIANTS
    RetryBudgets
    ReservedOpeningKept
PROPERTIES
    AccountLeftOnlyWhenSafe

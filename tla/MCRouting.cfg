SPECIFICATION Spec
CONSTANTS
    A = A
    B = B
    C = C
    NoAccount = NoAccount
    Accounts <- ThreeAccounts
    Candidates = 2
    Scope <- TwoProviders
    RequiredAccount = NoAccount
    Continuation = "pinned"
    PinnedAccount = A
    HasSessionState = TRUE
    RecoveryProbe = FALSE
    AccountBusyWait = TRUE
    MaxAttempts = 4
    MaxAccountSwitches = 1
    MaxTransientRetries = 1
    MaxTransportRetries = 1
    MaxOpenings = 3
    StreamErrors <- RoutingContinued
    ExecuteErrors <- RefusedSelections
    StreamEvents = {"Metering", "Prelude", "Semantic"}
    Modes = {"stream", "collect"}
    ClientRetries <- NoGuard
    Faults = {"mismatch", "unroutable"}
INVARIANTS
    ChargedOncePerCost
PROPERTIES
    ReplayLeavesOwner

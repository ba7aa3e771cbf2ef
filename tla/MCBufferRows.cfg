SPECIFICATION FairSpec
CONSTANTS
    R1 = R1
    R2 = R2
    Requests <- OneRequest
    MaxItems = 1
    MaxBytes = 8
    Size <- UnitSize
    MaxAttempts = 2
    Calls = {"Attempt", "MarkSend", "Commit", "ClientStatus"}
    OpsEvents = 0
    Faults = {"store_error", "lapse", "shutdown"}
INVARIANTS
    FinalRowTruthful
PROPERTIES
    RowOnlyAdvances
    RowsEnd
    WriterStops
CHECK_DEADLOCK FALSE

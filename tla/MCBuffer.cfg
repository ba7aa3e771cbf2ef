SPECIFICATION Spec
CONSTANTS
    R1 = R1
    R2 = R2
    Requests <- TwoRequests
    MaxItems = 4
    MaxBytes = 4
    Size <- TextSize
    MaxAttempts = 1
    Calls = {"OpsEvent"}
    OpsEvents = 1
    Faults = {"shutdown", "drain_timeout", "abort"}
SYMMETRY Symmetry
INVARIANTS
    ReservationsHeld
PROPERTIES
    DeliversInOrder
CHECK_DEADLOCK FALSE

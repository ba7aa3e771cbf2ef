SPECIFICATION Spec
CONSTANTS
    Requests = {R1, R2, R3}
    NoRequest = NoRequest
SYMMETRY Symmetry
INVARIANTS
    CompletedNotMarked
PROPERTIES
    DeletesOnlyOlder
CHECK_DEADLOCK FALSE

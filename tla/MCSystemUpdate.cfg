SPECIFICATION FairSpec
CONSTANTS
    MaxVersion = 3
    Webless = {3}
    MaxFaults = 1
    MaxCrashes = 1
INVARIANTS
    BinaryKept
    VersionsTruthful
PROPERTIES
    AllOrNothing
    OperationsSettle
CHECK_DEADLOCK FALSE

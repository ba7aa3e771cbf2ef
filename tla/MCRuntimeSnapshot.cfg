SPECIFICATION FairSpec
CONSTANTS
    Commits = {c}
    Limits = {1, 2}
    Attempts = 2
    MaxRevision = 2
    MaxCatalog = 2
    MaxNotices = 1
    MaxFaults = 2
INVARIANTS
    CommittedIsServed
    PolicyPrecedesSnapshot
PROPERTIES
    PublishedNeverFalls
    SuspensionHolds
    Converges

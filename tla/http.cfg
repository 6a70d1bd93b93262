\* Two calls of any client, with up to two changes of the list during each.
SPECIFICATION FairSpec
CONSTANTS
    Entries = {"8.0.0", "7.6.1", "6.6.5", "enterprise"}
    Matching = {"7.6.1", "enterprise"}
    Version <- TagVersions
    Sizes = {1, 2}
    DefaultSize = 2
    RetryCount = 1
    Total <- Totals
    MaxCalls = 2
    MaxChanges = 2
CHECK_DEADLOCK FALSE
INVARIANTS
    TypeOK
    NothingMissed
    NothingStale
    LatestIsNewest
    AtMostOnce
PROPERTY
    CallEnds

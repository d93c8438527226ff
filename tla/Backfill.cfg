\* Four items in batches of two.
CONSTANTS
    N = 4
    Count = 2
    MaxChanges = 2
    QueueCap = 2
SPECIFICATION FairSpec
PROPERTY BackfillEnds
INVARIANTS
    NoGaps
    PostedOnce
    NothingStale

CHECK_DEADLOCK FALSE

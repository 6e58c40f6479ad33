CONSTANTS
    Flags = {f1}
    HasStore = TRUE
    MaxAttempts = 2
    MaxChanges = 2

SPECIFICATION FairSpec

INVARIANTS TypeOK ExactCache ReadyIsReliable ToldIsCached
PROPERTIES RetainedAfterClose ReadySettlesOrReads

CHECK_DEADLOCK FALSE

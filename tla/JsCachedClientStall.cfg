CONSTANTS
    Flags = {f1}
    HasStore = TRUE
    MaxAttempts = 0
    MaxChanges = 0

SPECIFICATION FairSpec

PROPERTIES ReadySettles

CHECK_DEADLOCK FALSE

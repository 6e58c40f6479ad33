CONSTANTS
    Flags = {f1}
    KnownFlags = {f1}
    HttpCalls = {h1, h2}
    McpCalls = {m1}
    NoCall = NoCall
    Failures = {"audit", "commit", "cancel", "shutdown"}

SPECIFICATION FairSpec

INVARIANTS McpSuccessIsComplete LocksAreOwned NoSilentChange
PROPERTIES EveryCallEnds

CHECK_DEADLOCK FALSE

CONSTANTS
    Flags = {f1, f2, f3}
    KnownFlags = {f1, f2}
    HttpCalls = {h1, h2, h3}
    McpCalls = {}
    NoCall = NoCall
    Failures = {}
SPECIFICATION Spec
SYMMETRY Symmetry
PROPERTIES ImplementsFeed
INVARIANTS TypeOK
CHECK_DEADLOCK FALSE

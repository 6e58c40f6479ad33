CONSTANTS
    Streams = {s1}
    Publishers = {p1}
    Scopes = {c1}
    BufSize = 1
    MaxPublish = 1
    Wrappers <- NoWrappers
SPECIFICATION Spec
INVARIANTS NoPanic
CHECK_DEADLOCK FALSE

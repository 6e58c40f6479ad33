CONSTANTS
    Streams = {s1}
    Publishers = {p1, p2}
    Scopes = {c1, c2}
    BufSize = 2
    MaxPublish = 3
    Wrappers <- NoWrappers
SPECIFICATION Spec
SYMMETRY Symmetry
INVARIANTS InPublicationOrder ExactDelivery
CHECK_DEADLOCK FALSE

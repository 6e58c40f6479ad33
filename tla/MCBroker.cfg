CONSTANTS
    Streams = {s1, s2}
    Publishers = {p1, p2}
    Scopes = {c1}
    BufSize = 1
    MaxPublish = 1
    Wrappers <- NoWrappers

SPECIFICATION FairSpec

INVARIANTS TypeOK NoSendOnClosedChannel MapHoldsOpenChannels
PROPERTIES EveryStreamEnds

CHECK_DEADLOCK FALSE

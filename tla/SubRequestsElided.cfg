SPECIFICATION FairSpec
CONSTANTS
    p1 = p1
    p2 = p2
    a = a
    Peer = {p1, p2}
    Chunk = {a}
    Segment = {}
    PubRemote = {p2}
    Elision = TRUE
    NoPeer = NoPeer
    NoChunk = NoChunk
CHECK_DEADLOCK FALSE
PROPERTIES
    MutexIsReleased

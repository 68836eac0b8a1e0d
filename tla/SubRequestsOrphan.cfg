SPECIFICATION Spec
CONSTANTS
    p1 = p1
    p2 = p2
    p3 = p3
    a = a
    Peer = {p1, p2, p3}
    Chunk = {a}
    Segment = {a}
    PubRemote = {}
    Elision = FALSE
    NoPeer = NoPeer
    NoChunk = NoChunk
SYMMETRY PeerSymmetry
CHECK_DEADLOCK FALSE
INVARIANT OfferedChunkIsRequested

SPECIFICATION Spec
CONSTANTS
    p1 = p1
    p2 = p2
    p3 = p3
    p4 = p4
    Peer = {p1, p2, p3, p4}
    PathPeers = {p1, p2}
    MaxPeers = 2
    Publisher = FALSE
    Worker = {"accept", "connect", "improve"}
    NoPeer = NoPeer
SYMMETRY PeerSymmetry
CHECK_DEADLOCK FALSE
INVARIANTS
    InactivePeersHaveThreads
    AtMostOneOver
    ActivePeersAreKnown

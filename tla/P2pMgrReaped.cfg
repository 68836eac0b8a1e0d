SPECIFICATION FairSpec
CONSTANTS
    p1 = p1
    p2 = p2
    Peer = {p1, p2}
    PathPeers = {p1}
    MaxPeers = 2
    Publisher = TRUE
    Worker = {"accept", "improve"}
    NoPeer = NoPeer
CHECK_DEADLOCK FALSE
PROPERTY
    DestroyedSetIsReaped

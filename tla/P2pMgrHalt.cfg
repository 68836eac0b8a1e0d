SPECIFICATION FairSpec
CONSTANTS
    p1 = p1
    p2 = p2
    Peer = {p1, p2}
    PathPeers = {}
    MaxPeers = 2
    Publisher = FALSE
    Worker = {"accept", "connect", "improve"}
    NoPeer = NoPeer
CHECK_DEADLOCK FALSE
PROPERTY
    HaltEndsExecution

SPECIFICATION SuiteSpec
CONSTANTS
    End = {pub, sub}
    Publisher = pub
    MaxId = 2
    Offers <- MCOffers
    Capacity = 1
    Reassigned = {1}
    HereIsThrows <- Never
    Peer = {p1, p2, p3}
    Initiated = {p1}
    Acceptor = {server}
    Adder = adder
    MaxPeers = 1
    Stasis = 1
    ValueMax = 1
    ValueMin = 0
    MaxNews = 2
    NoPeer = NoPeer
    MaxComing = 3
    NumItems = 2
    MaxSend = 1
    MaxRecv = 1
    MaxDgrams = 1
    MaxStrange <- MCStrange
INVARIANTS
    ConnInv
    SetInv
    RecordsAreTaken
PROPERTIES
    
    
    RemovedWasMeasured
    ReceiverGoesOn
CHECK_DEADLOCK FALSE

SPECIFICATION FairSpec
CONSTANTS
    PubServer = {pub}
    SubServer = {sub}
    Client = {c1, c2}
    NoClient = NoClient
    MinPort = 1
    NumPorts = 3
    MaxFaults = 1
    MaxPayload = 20
    VarSizes = {0, 5}
    MaxSent = 3
    BufferSize = 2
    MaxDuplicates = 1
    RuntSizes = {1, 2}
    Publishers = {p}
    Subscribers = {s}
    Byte = 4
    Specs <- MCSpecs
    Lookup <- MCLookup
    Null = Null
    MaxPeers = 2
    ProdSizeLimit = 8
    SegSizeLimit = 4
    FileSizes = {0, 1, 2, 3, 4, 5, 6, 7, 9}
    SegSizes = {0, 1, 2, 3}
    Messages <- MCMessages
    SocketBuffer = 3
    CounterLimit = 8
    Handshakes <- MCHandshakes
INVARIANTS
    PortsInv
    McastInv
    AddressesInv
    SegmentsInv
    ReadAsWritten
PROPERTIES
    ClientIsServed
    
CHECK_DEADLOCK FALSE

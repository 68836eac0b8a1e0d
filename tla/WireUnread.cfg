SPECIFICATION FairSpec
CONSTANTS
    PubServer = {pub}
    SubServer = {sub}
    Client = {c1}
    NoClient = {c1}
    MinPort = 1
    NumPorts = 1
    MaxFaults = 0
    MaxPayload = 20
    VarSizes = {0, 5}
    MaxSent = 1
    BufferSize = 1
    MaxDuplicates = 0
    RuntSizes = {1}
    Publishers = {p}
    Subscribers = {s}
    Byte = 4
    Specs <- MCSpecs
    Lookup <- MCLookup
    Null = Null
    MaxPeers = 1
    ProdSizeLimit = 8
    SegSizeLimit = 4
    FileSizes = {0}
    SegSizes = {0}
    Messages <- MCMessages
    SocketBuffer = 3
    CounterLimit = 8
    Handshakes <- MCHandshakes
INVARIANT
    NextIsReadAsWritten
CHECK_DEADLOCK FALSE

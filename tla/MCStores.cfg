SPECIFICATION SuiteSpec
CONSTANTS
    Root = root
    d1 = d1
    f1 = f1
    f2 = f2
    Dir = {root, d1}
    File = {f1, f2}
    Parent <- MCParent
    Size <- MCSize
    MaxEvents = 3
    IndexMax = 2
    Reader = {r1}
    MaxOpenFiles = 1
    NoFile = NoFile
    Prod = {9}
    ProdSize <- MCProdSize
    CanonSize = 2
    IndexCount = 10
    Remote = {r1}
    Offered <- MCOffered
    Residence = 1
    MaxTime = 2
    MaxQueued = 3
INVARIANTS
    
    StoreInv
    CompleteIsProcessedOnce
PROPERTIES
    IndexIsPermanent
    
    ResidesLongEnough
CHECK_DEADLOCK FALSE

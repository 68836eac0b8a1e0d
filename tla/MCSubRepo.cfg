SPECIFICATION SuiteSpec
CONSTANTS
    p1 = p1
    p2 = p2
    Product = {p1, p2}
    NumSegs <- TwoAndNone
    Thread = {t1, t2, t3}
    MaxOpenFiles = 1
    NoChunk = NoChunk
    Prod = {9, 0, 1, 2}
    ProdSize <- MCProdSize
    CanonSize = 2
    IndexCount = 10
    Newcomer = {b1}
INVARIANTS
    QueuedIsFinished
    CompleteIsNoticed
    SavedFileIsOpen
    BacklogIsComplete
PROPERTIES
    CompleteIsReturned

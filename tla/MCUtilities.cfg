SPECIFICATION FairSpec
CONSTANTS
    Job = {j1, j2}
    NoJob = NoJob
    Thread = {t1, t2}
    ThreadUser = {u1, u2}
    Tid = {1, 2}
    NoThread = NoThread
    NoTid = NoTid
    Producer = {p1}
    Consumer = {q1}
    Getter = {g1}
    Cued = {d1, d2}
    MaxPushes = 3
    Server = {s1, s2}
    Stranger = {x}
    NoServer = NoServer
    PoolPeers = 2
    Period = 2
    Index = {i1, i2, i3, i4, i5}
    None = None
INVARIANTS
    ThreadsInv
    PoolInv
    WellLinked
PROPERTIES
    JobsEnd
    NobodySleepsOn
    ImplementsLru
CHECK_DEADLOCK FALSE

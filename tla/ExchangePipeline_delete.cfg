SPECIFICATION Spec
CONSTANTS
    h1 = h1
    h2 = h2
    d1 = d1
    m1 = m1
    m2 = m2
    NoCaller = NoCaller
    NoExchange = NoExchange
    Http <- TwoHttp
    Proxied <- None
    Udp <- None
    ConcurrentExchanges = 2
    Capacities <- OneOrTwo
    FirstCapacity = 1
    Storage = {TRUE}
    Callers <- OneCaller
    QueueCount = 2
    QueueBytes = 2
    BatchSize = 2
    CleanupBatchSize = 2
    Bytes <- OneByte
    CompletedAt <- Times
    Cutoffs <- Cutoff
INVARIANTS
    RamBounded
    DeletedStaysDeleted
PROPERTIES
    EvictsOldest

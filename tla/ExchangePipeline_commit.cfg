SPECIFICATION FairSpec
CONSTANTS
    h1 = h1
    h2 = h2
    d1 = d1
    m1 = m1
    m2 = m2
    NoCaller = NoCaller
    NoExchange = NoExchange
    Http <- OneHttp
    Proxied <- OneHttp
    Udp <- OneUdp
    ConcurrentExchanges = 2
    Capacities <- OneOrTwo
    FirstCapacity = 1
    Storage = {TRUE, FALSE}
    Callers <- OneCaller
    QueueCount = 1
    QueueBytes = 2
    BatchSize = 2
    CleanupBatchSize = 2
    Bytes <- OneByte
    CompletedAt <- Times
    Cutoffs <- Cutoff
INVARIANTS
    NothingLeaks
PROPERTIES
    CopiesAdvance
    QueuedIsReported

SPECIFICATION FairSpec
CONSTANTS
    e1 = e1
    e2 = e2
    e3 = e3
    m1 = m1
    m2 = m2
    NoCaller = NoCaller
    Ids <- TwoIds
    Callers <- OneCaller
    QueueCount = 2
    QueueBytes = 3
    BatchSize = 2
    CleanupBatchSize = 1
    Bytes <- TwoBytes
    CompletedAt <- TwoTimes
    Cutoffs <- AboveTimes
PROPERTIES
    CallersReturn
    CloseEnds
    ImplementsLiveHistory

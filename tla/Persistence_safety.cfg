SPECIFICATION Spec
CONSTANTS
    e1 = e1
    e2 = e2
    e3 = e3
    m1 = m1
    m2 = m2
    NoCaller = NoCaller
    Ids <- ThreeIds
    Callers <- TwoCallers
    QueueCount = 2
    QueueBytes = 2
    BatchSize = 2
    CleanupBatchSize = 1
    Bytes <- ThreeBytes
    CompletedAt <- ThreeTimes
    Cutoffs <- BetweenTimes
INVARIANTS
    TypeOK
    CountAccounting
    BytesAccounting
    CommitFindsRoom
    CloseSettlesAll
    VacuumExclusive
    MaintenanceExclusive
    ReportMatchesRows
PROPERTIES
    SettledInCommitOrder
    CleanupFinishes
    ImplementsHistory

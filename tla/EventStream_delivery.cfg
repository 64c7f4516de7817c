SPECIFICATION FairSpec
CONSTANTS
    c1 = c1
    Clients <- OnePage
    Sizes <- AllSizes
    ReplayCount = 2
    ReplayBytes = 2
    SubscriberCount = 2
    SubscriberBytes = 2
    MaxEvents = 4
    MaxRestarts = 1
    MaxBreaks = 2
INVARIANTS
    PendingExact
PROPERTIES
    ContiguousDelivery
    CatchesUp
CHECK_DEADLOCK FALSE

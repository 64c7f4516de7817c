SPECIFICATION Spec
CONSTANTS
    c1 = c1
    Clients <- OnePage
    Sizes <- SmallAndHuge
    ReplayCount = 2
    ReplayBytes = 2
    SubscriberCount = 2
    SubscriberBytes = 2
    MaxEvents = 3
    MaxRestarts = 1
    MaxBreaks = 1
PROPERTIES
    GapsAreResynced
CHECK_DEADLOCK FALSE

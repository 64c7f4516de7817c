SPECIFICATION Spec
CONSTANTS
    Limit = 1
    FeedLimit = 1
    Capacity = 1
    Before = 1
    MaxExchanges = 2
    MaxWire = 2
    MaxAsked = 2
    MaxRare = 1
INVARIANT DeletedLeavesViews
CHECK_DEADLOCK FALSE

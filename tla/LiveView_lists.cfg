SPECIFICATION Spec
CONSTANTS
    Limit = 1
    FeedLimit = 1
    Capacity = 1
    Before = 2
    MaxExchanges = 4
    MaxWire = 2
    MaxAsked = 2
    MaxRare = 1
INVARIANTS WalkSkipsNothing
PROPERTIES CardsAdvance
CHECK_DEADLOCK FALSE

SPECIFICATION Spec
CONSTANTS
    Peers = {p1, p2}
    MaxSessions = 2
    MaxAttempts = 1
    AttemptLimit = 2
    Minute = 2
    TTL = 3
    MaxTime = 4
    MaxTokens = 3
    MaxReloads = 1
INVARIANTS StoresBounded RateLimited GoodUntilOver
PROPERTIES RefusedForRoom

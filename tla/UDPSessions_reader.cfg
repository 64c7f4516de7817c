SPECIFICATION Spec
CONSTANTS
    Clients = {c1, c2}
    Listeners = {1, 2}
    MaxManagers = 2
    MaxDials = 2
    MaxTime = 2
    MaxSessions = 1
    TTL = 1
PROPERTY FoundIsRead

SPECIFICATION GCFairSpec
CONSTANTS
    None = None
    LocalLoopback = LocalLoopback
    SwMI = SwMI
    Radios = {r1}
    Remotes = {x1}
    Groups = {g1}
    Routable = {g1}
    Bearers = {b1, b2}
    Uuids = {u1}
    Priorities = {0}
    Interruption = TRUE
    Legacy = TRUE
    Kickable = {r1}
    Expiring = {b1}
    MaxWaiters = 1
    MaxBacklog = 0
INVARIANTS
    OneLiveCallPerGroup
    LiveCallsListened
PROPERTIES
    LeaversLoseFloor
    CallsEnd

SPECIFICATION Spec
CONSTANTS
    None = None
    Issis <- MCIssis
    Groups <- MCGroups
    Broadcast = 99
    WxIssi = 60
    CommandIssi = 61
    Operators <- MCOperators
    TextPid = 130
    LocalMni = LocalMni
    OtherMni = OtherMni
    Uuids <- MCUuids
    RefModulo = 3
    ContextLimit = 2
    DeferLimit = 2
    StartDelay = 1
    Interval = 2
    LiveMax = 2
    MaxId = 4
    Workloads <- MCWorkloads
    MaxCommands = 2
INVARIANTS
    MessagesAccounted
PROPERTIES
    MessagesServed
CHECK_DEADLOCK FALSE

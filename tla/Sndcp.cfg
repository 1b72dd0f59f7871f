CONSTANTS
    None = None
    Issis <- MCIssis
    Nsapis <- MCNsapis
    Pool <- MCPool
    AllowStatic = TRUE
    MaxContexts = 2
    MaxTlaHandle = 3
    Workloads <- MCWorkloads
    MaxPdus = 4
    QueueMax = 1
SPECIFICATION Spec
INVARIANTS
    PacketDataConsistent
PROPERTIES
    RequestsServed
CHECK_DEADLOCK FALSE

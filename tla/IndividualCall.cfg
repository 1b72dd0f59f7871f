SPECIFICATION Spec
CONSTANTS
    None = None
    ma = ma
    mb = mb
    Terminals = {ma, mb}
    Remote = Remote
    Parrot = Parrot
    Echo = Echo
    MaxCalls = 2
    Slots = {2, 3}
    TailDrain = 1
    GuardTime = 2
    SetupTime = 3
    CallTime = 4
    CalledTries = 2
    CallerTries = 2
    MaxFrames = 1
    Workloads <- MCWorkloads
INVARIANTS
    CallsConsistent
    EverybodyReleased
    FloorConsistent
PROPERTIES
    Settles
CHECK_DEADLOCK FALSE

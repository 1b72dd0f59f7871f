SPECIFICATION Spec
CONSTANTS
    BaseFrames = 1
    MinFrames = 1
    TargetMax = 3
    MaxFrames = 4
    Latency = 1
    StablePops = 2
    Lates <- MCLates
    Issis <- MCIssis
    Externals <- MCExternals
    Groups <- MCGroups
    Routable <- MCRoutable
    RoutableGroups <- MCRoutableGroups
    Uuids <- MCUuids
    CmdCap = 2
    Watermark = 1
    EvCap = 2
    Workloads <- MCWorkloads
INVARIANTS
    SessionConsistent
    ServerKnows
PROPERTIES
    LinkServed
CHECK_DEADLOCK FALSE

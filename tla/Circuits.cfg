SPECIFICATION FairSpec
CONSTANTS
    None = None
    Slots = {2, 3}
    PdSlot = 2
    MaxCallId = 4
    MaxUsage = 4
    Terminals = {t1, t2}
    MaxBacklog = 2
INVARIANTS
    SlotsBelongToCalls
    CircuitsBelongToCalls
    BearersOpen
PROPERTIES
    PacketDataPreemptedLast
    Settles

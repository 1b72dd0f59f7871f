CONSTANTS
    sa = sa
    sb = sb
    sc = sc
    se = se
    sl = sl
    su = su
    sv = sv
    sw = sw
    None = None
    Sdus <- FiveSdus
    Units <- ThreeUnits
    Prio <- Prios
    ChanAlloc = {sc}
    Wide = {sb}
    TooLong = {sl}
    N252 = 1
    N253 = 1
    T251 = 1
    Grace = 1
    MaxOut = 2
    Highest = 7
    MaxAcks = 2
    AckDelay = 1
    MaxDrops = 2
    Workloads <- Mixed
SPECIFICATION FairSpec
INVARIANTS
    LinkConsistent
    AirConsistent
PROPERTIES
    ImplementsReceipt
CHECK_DEADLOCK FALSE

CONSTANTS
    sa = sa
    sb = sb
    sc = sc
    se = se
    sx = sx
    sl = sl
    None = None
    Sdus <- SixSdus
    Prio <- Prios
    Size <- Sizes
    TooLong = {sl}
    Links = {1, 2}
    UpSize = 2
    Modulus = 3
    N273 = 1
    N274 = 1
    T252 = 1
    T271 = 1
    Grace = 1
    ArEvery = 2
    MaxOut = 2
    MaxAcks = 1
    AckDelay = 1
    MaxDrops = 1
    MaxTries = 4
    Workloads <- Mixed
SPECIFICATION FairSpec
INVARIANTS
    LinkConsistent
    DeliveredIfSuccessful
PROPERTIES
    ReceiptsServed
CHECK_DEADLOCK FALSE

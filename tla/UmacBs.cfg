CONSTANTS
    ma = ma
    mb = mb
    mc = mc
    grp = grp
    everyone = everyone
    None = None
    Issis = {ma, mb, mc}
    Gssis = {grp, everyone}
    AllOnes = everyone
    DEFRAG_BUF_MAX_LEN = 3
    MAX_DLSCHED_ELEMS = 4
    MAX_PENDING_RA_ACKS = 6
    PACKET_DATA_ASSIGNMENT_TTL = 60
    MAX_TX_DATA_BLOCKS = 3
    MAX_PENDING_TMA_REPORTS = 4
    TMA_REPORT_PENDING_TIMEOUT = 60
    MAX_PENDING_PRIVATE_UL_MEDIA = 2
    PENDING_PRIVATE_UL_MEDIA_TTL = 18
    UL_INACTIVITY = 24
    WithBrew = TRUE
    AnswerWithin = 12
    IssiNumber <- MCIssiNumber
    Workloads <- MCWorkloads
SPECIFICATION Spec
INVARIANTS
    SchedulerConsistent
    WholeMessages
    GroupReached

SPECIFICATION Spec
CONSTANTS
    None = None
    Terminals = {1, 2}
    Groups = {1, 2, 3}
    Allowed = {1, 2, 3}
    BrewTerminals = {1}
    BrewGroups = {1, 2}
    MaxGroups = 2
    T352 = 2
    T353 = 2
    ReportWindow = 3
    Grace = 2
    Recent = 2
    InitialDelay = 1
    Spacing = 1
    Retry = 2
    MaxAttempts = 2
    FlushGap = 2
    InhibitGuard = 2
    MaxBurst = 2
    Moves = 3
    FewMoves = 2
    Workloads <- MCWorkloads
INVARIANTS
    TablesAgree
    GroupsSurviveCrash
PROPERTIES
    FailsSoft
    Settles
CHECK_DEADLOCK FALSE

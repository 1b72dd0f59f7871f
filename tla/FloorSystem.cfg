SPECIFICATION CastSpec
SYMMETRY Symmetry
VIEW View
CONSTANTS
    None = None
    LocalLoopback = LocalLoopback
    SwMI = SwMI
    Radios = {r1, r2}
    Remotes = {x1, x2}
    Groups = {g1}
    Routable = {g1}
    Bearers = {b1, b2}
    Uuids = {u1, u2}
    Priorities = {0}
    Interruption = FALSE
    Legacy = FALSE
    Kickable = {r1}
    Expiring = {b1, b2}
    Arbitrated = TRUE
    Casts = {{r1, r2, x1, b1, u1, "demands", "silence"},
             {r1, r2, x1, b1, "demands", "external", "silence", "expiry"},
             {r1, x1, b1, u1, "demands", "external", "silence", "expiry"},
             {r1, x1, x2, b1, u1, "expiry"},
             {r1, x1, b1, b2, u1, u2}}
    MaxWaiters = 1
    MaxBacklog = 0
INVARIANTS
    BearersAgree
    SpeakerHeard
    SessionsAgree
    QueueWellFormed
PROPERTIES
    FloorGoesToMembers

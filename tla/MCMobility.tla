----------------------------- MODULE MCMobility -----------------------------
(***************************************************************************)
(* Small instances of Mobility: each workload lets a few messages of a few *)
(* kinds meet one kind of trouble.                                         *)
(***************************************************************************)
EXTENDS Mobility

CONSTANTS Moves, FewMoves  \* messages of one terminal, or of all, in one behaviour

NoFile == [m \in Terminals |-> None]
Some(gs) == [m \in Terminals |-> IF m = 1 THEN gs ELSE None]

Identity(attach, detach, replace, listed) ==
    [attach |-> attach, detach |-> detach, replace |-> replace, listed |-> listed]
Update(type, demand, complete) ==
    [type |-> type, demand |-> demand, complete |-> complete, energy |-> None,
     mismatch |-> FALSE, refused |-> FALSE]
Standalone(id, report, response) ==
    [attach |-> id.attach, detach |-> id.detach, replace |-> id.replace,
     listed |-> id.listed, report |-> report, response |-> response]

Nothing == Identity({}, {}, FALSE, FALSE)
Attach(gs) == Identity(gs, {}, FALSE, TRUE)
Detach(gs) == Identity({}, gs, FALSE, TRUE)
Instead(gs) == Identity(gs, {}, TRUE, TRUE)

Quiet ==
    [users |-> {1}, moves |-> Moves, updates |-> {}, identities |-> {}, modes |-> {},
     detach |-> FALSE, mode |-> "Auto", period |-> 0, file |-> NoFile,
     recover |-> {}, eligible |-> Terminals,
     reliable |-> TRUE, kicks |-> 0, inhibits |-> 0, reconnects |-> 0,
     crashes |-> 0, disk |-> 0]

\* Registration of every type against the groups a terminal reports
Registering ==
    [Quiet EXCEPT !.detach = TRUE, !.updates =
        {Update("Itsi", Attach({1, 2}), FALSE), Update("Roaming", Attach({2}), FALSE),
         Update("Roaming", None, FALSE), Update("Demand", None, TRUE),
         Update("Migrating", None, FALSE)}]

Grouping ==
    [Quiet EXCEPT !.updates = {Update("Itsi", None, FALSE)}, !.identities =
        {Standalone(Attach({1, 3}), FALSE, None), Standalone(Instead({2}), FALSE, None),
         Standalone(Detach({1}), FALSE, None), Standalone(Nothing, TRUE, None),
         Standalone(Nothing, FALSE, "complete"), Standalone(Attach({1}), FALSE, "complete"),
         Standalone(Instead({}), FALSE, "other"), Standalone(Attach({1, 2, 3}), FALSE, None),
         Standalone(Identity({}, {}, TRUE, FALSE), FALSE, None)}]

\* Return after a restart, with the refresh of cached groups
Returning ==
    [Quiet EXCEPT !.users = Terminals, !.moves = FewMoves,
        !.file = Some({1, 2, 3}), !.recover = {2}, !.crashes = 1, !.updates =
        {Update("Demand", None, FALSE), Update("Roaming", None, FALSE),
         Update("Demand", Instead({3}), TRUE)},
        !.identities = {Standalone(Detach({1}), FALSE, None)}]

\* A terminal off the configured whitelist, with an entry of an older
\* configuration, next to one that is on it
Overridden ==
    [Quiet EXCEPT !.users = Terminals, !.moves = FewMoves, !.file = Some({2}),
        !.recover = Terminals, !.eligible = {2}, !.crashes = 1, !.detach = TRUE, !.updates =
        {Update("Itsi", Attach({1}), FALSE), Update("Demand", None, FALSE)}]

\* The disk fails while groups change
Failing ==
    [Quiet EXCEPT !.disk = 2, !.crashes = 1, !.reliable = FALSE, !.detach = TRUE,
        !.updates = {Update("Itsi", Attach({1, 2}), FALSE)},
        !.identities = {Standalone(Instead({2}), FALSE, None)}]

\* Energy economy under each configured mode
Saving(mode) ==
    [Quiet EXCEPT !.mode = mode, !.modes = Modes, !.detach = TRUE, !.updates =
        {Update("Itsi", None, FALSE),
         [Update("Roaming", Attach({1}), FALSE) EXCEPT !.energy = "Eg2"]}]

\* The watchdog, a kick, the Brew reconnect and the inhibit meet registrations.
Watching ==
    [Quiet EXCEPT !.moves = Moves + 1, !.period = 2, !.kicks = 1, !.reconnects = 1, !.updates =
        {Update("Itsi", Attach({1}), FALSE), Update("Demand", None, FALSE),
         Update("Periodic", Attach({2}), FALSE), Update("Roaming", None, FALSE)},
        !.identities = {Standalone(Detach({1}), FALSE, None)}]
Inhibiting ==
    [Quiet EXCEPT !.users = Terminals, !.moves = FewMoves,
        !.inhibits = 3, !.file = Some({2}), !.updates =
        {Update("Itsi", Attach({1}), FALSE), Update("Demand", None, FALSE),
         [Update("Itsi", None, FALSE) EXCEPT !.mismatch = TRUE],
         [Update("Itsi", None, FALSE) EXCEPT !.refused = TRUE]}]

MCWorkloads ==
    {Registering, Grouping, Returning, Overridden, Failing, Watching, Inhibiting}
        \cup {Saving(mode) : mode \in {"Auto", "StayAlive", "Eg1"}}
=============================================================================

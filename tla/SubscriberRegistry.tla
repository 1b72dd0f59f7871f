------------------------- MODULE SubscriberRegistry -------------------------
(***************************************************************************)
(* The registry of registered terminals and their groups that the entities *)
(* share (SubscriberRegistry of the configuration's state): the            *)
(* subscribers with their groups, the members of each group, and the       *)
(* groups that have a member.  The last two are indexes of the first.      *)
(***************************************************************************)
CONSTANTS
    Terminals,  \* ISSIs
    Groups      \* GSSIs

Registries == [subscribers : SUBSET Terminals,
               attached : [Terminals -> SUBSET Groups],
               members : [Groups -> SUBSET Terminals],
               all : SUBSET Groups]

EmptyRegistry == [subscribers |-> {},
                  attached |-> [m \in Terminals |-> {}],
                  members |-> [g \in Groups |-> {}],
                  all |-> {}]

IsRegistered(r, m) == m \in r.subscribers
ContainsGroupMember(r, g, m) == m \in r.members[g]
HasGroupMembers(r, g) == g \in r.all

\* The groups of gs lose m; a group left without members leaves the index.
Leave(r, m, gs) ==
    LET members == [g \in Groups |-> IF g \in gs THEN r.members[g] \ {m}
                                                 ELSE r.members[g]]
    IN  [r EXCEPT !.attached[m] = @ \ gs,
                  !.members = members,
                  !.all = @ \ {g \in gs : members[g] = {}}]

Deregister(r, m) ==
    IF IsRegistered(r, m)
    THEN [Leave(r, m, r.attached[m]) EXCEPT !.subscribers = @ \ {m}]
    ELSE r

\* A registered terminal is registered afresh, without its groups.
Register(r, m) == [Deregister(r, m) EXCEPT !.subscribers = @ \cup {m}]

\* affiliate and deaffiliate, for each group of gs; nothing for a terminal
\* that is not registered.
Affiliate(r, m, gs) ==
    IF IsRegistered(r, m)
    THEN [r EXCEPT !.attached[m] = @ \cup gs,
                   !.members = [g \in Groups |-> IF g \in gs THEN @[g] \cup {m}
                                                             ELSE @[g]],
                   !.all = @ \cup gs]
    ELSE r

Deaffiliate(r, m, gs) ==
    IF IsRegistered(r, m) THEN Leave(r, m, gs \cap r.attached[m]) ELSE r

\* The two indexes say what the subscribers' own sets of groups say.
Indexed(r) ==
    /\ \A g \in Groups : r.members[g] = {m \in Terminals : g \in r.attached[m]}
    /\ r.all = {g \in Groups : r.members[g] # {}}
    /\ \A m \in Terminals \ r.subscribers : r.attached[m] = {}
=============================================================================

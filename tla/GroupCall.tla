------------------------------ MODULE GroupCall ------------------------------
(***************************************************************************)
(* Floor control of group calls in CMCE (cmce/subentities/cc_bs): who may  *)
(* transmit, who waits, and the work that is put off until a message went  *)
(* out on the air or a timer ran out: the tail of a transmission, the      *)
(* activation of a granted floor, the readiness of a network speaker and   *)
(* the release of the call.  A call is named by its bearer, the timeslot   *)
(* that is its own from set-up to release (module Circuits).               *)
(*                                                                         *)
(* CMCE's control messages go into the router's FIFO mq.  An action with a *)
(* parameter q handles a message: q is what is left of mq without it.      *)
(***************************************************************************)
EXTENDS Naturals, Sequences, FiniteSets, Lists

CONSTANTS
    Radios,       \* ISSIs of local subscribers
    Remotes,      \* ISSIs of subscribers behind Brew
    Groups,       \* GSSIs
    Routable,     \* the GSSIs routed over Brew (is_brew_gssi_routable)
    Bearers,      \* timeslots that can carry a group call
    Uuids,        \* Brew session identifiers
    Priorities,   \* call priorities in use, a part of 0..15
    Interruption, \* cell.transmission_interruption_enabled
    Legacy,       \* cell.legacy_gssi_group_call
    Kickable,     \* radios an operator may kick
    Expiring,     \* bearers whose circuits may reach the age limit
    LocalLoopback, SwMI, \* CircuitDlMediaSource, as far as group calls use it
    MaxWaiters,   \* MAX_GROUP_FLOOR_WAITERS (4096 in the code)
    MaxBacklog,   \* bound on the messages queued when CMCE acts
    None

Issis == Radios \cup Remotes
Media == {LocalLoopback, SwMI}
NetStart == [uuid : Uuids, issi : Remotes, group : Groups, pri : Priorities]

\* A D-TX GRANTED on its way: waiting for the air, transmitted or discarded.
Activation == [who : Issis, st : {"waiting", "sent", "lost"}]
Readiness == [uuid : Uuids, who : Remotes, sent : BOOLEAN]

Call == [group : Groups,
         origin : Radios \cup Uuids,      \* CallOrigin: the local caller or the session
         uuid : Uuids \cup {None},        \* brew_uuid
         speaker : Issis,                 \* source_issi
         tx : BOOLEAN,                    \* tx_active; otherwise hangtime
         regrant : BOOLEAN,               \* ul_inactivity_regrant_used
         pri : Priorities,
         queue : Seq(Radios),             \* queued_floor_demands
         tail : Radios \cup {None},       \* pending_group_tx_ceased_tail_drains
         act : Activation \cup {None},    \* pending_group_floor_activations
         ready : Readiness \cup {None},   \* pending_network_group_readies
         rel : Radios \cup Uuids \cup {None}, \* pending_group_releases, its origin
         circ : {"held", "carried", "gone"}]  \* its circuit: in CircuitMgr's table, taken
                                          \* along by the release, expired under it

\* What the entities tell each other, by the receiver: the type of a message decides
\* whether it names a bearer, and what its argument is.
Msg(to, types, bearers, args) == [to : {to}, type : types, bearer : bearers, arg : args]
UmacMsg == Msg("umac", {"Open", "FloorGranted"}, Bearers, Issis)
           \cup Msg("umac", {"Close", "FloorReleased", "CallEnded"}, Bearers, {None})
           \cup Msg("umac", {"SetDlMediaSource"}, Bearers, Media)
BrewMsg == Msg("brew", {"FloorGranted"}, Bearers, Issis)
           \cup Msg("brew", {"FloorReleased", "CallEnded"}, Bearers, {None})
           \cup Msg("brew", {"NetworkCallReady"}, Bearers, Uuids)
           \cup Msg("brew", {"NetworkCallEnd"}, {None}, Uuids)
CmceMsg == Msg("cmce", {"UlInactivityTimeout"}, Bearers, {None})
           \cup Msg("cmce", {"NetworkCallStart"}, {None}, NetStart)
           \cup Msg("cmce", {"NetworkCallEnd"}, {None}, Uuids)
           \cup Msg("cmce", {"Deaffiliate"}, {None}, [issi : Radios, group : Groups])
           \cup Msg("cmce", {"Deregister"}, {None}, [issi : Remotes, group : Groups])
Message == UmacMsg \cup BrewMsg \cup CmceMsg

ASSUME SetsAssumption ==
    /\ Routable \subseteq Groups /\ Kickable \subseteq Radios
    /\ Radios \cap Remotes = {} /\ Radios \cap Uuids = {}
    /\ IsFiniteSet(Groups)
    /\ Priorities \subseteq 0..15 /\ 0 \in Priorities
    /\ Interruption \in BOOLEAN /\ Legacy \in BOOLEAN
    /\ MaxWaiters \in Nat /\ MaxBacklog \in Nat
ASSUME NoneAssumption ==
    /\ None \notin Radios \cup Remotes \cup Uuids \cup Bearers
    /\ None \notin Call \cup Activation \cup Readiness

VARIABLES
    affil,  \* who is affiliated where: subscriber_groups and the shared registry
    ext,    \* external_subscriber_groups
    call,   \* active_calls and the pending tables
    mq      \* the router's queue, as far as these calls are concerned

cmceVars == <<affil, ext, call>>
gcVars == <<affil, ext, call, mq>>

TypeOK ==
    /\ affil \subseteq Radios \X Groups
    /\ ext \subseteq Remotes \X Groups
    /\ call \in [Bearers -> Call \cup {None}]
    /\ mq \in Seq(Message)

GCInit ==
    /\ affil = {}
    /\ ext = {}
    /\ call = [b \in Bearers |-> None]
    /\ mq = <<>>

-----------------------------------------------------------------------------
(* Subscribers and calls *)

Affiliated(i, g) == <<i, g>> \in affil
HasLocalListener(aff, g) == \E i \in Radios : <<i, g>> \in aff
HasListener(aff, ex, g) == HasLocalListener(aff, g) \/ \E i \in Remotes : <<i, g>> \in ex

\* A call that is not being released.
Live(b) == call[b] # None /\ call[b].rel = None
LiveFor(g) == {b \in Bearers : Live(b) /\ call[b].group = g}
Speaks(c, i) == c.tx /\ c.speaker = i

ToUmac(type, b, x) == [to |-> "umac", type |-> type, bearer |-> b, arg |-> x]
ToBrew(type, b, x) == [to |-> "brew", type |-> type, bearer |-> b, arg |-> x]

\* The floor messages to the UMAC and, for a routed group, to Brew as well.
Both(g, type, b, x) == IF g \in Routable THEN <<ToUmac(type, b, x), ToBrew(type, b, x)>>
                                         ELSE <<ToUmac(type, b, x)>>

\* A step of CMCE: the call on b becomes c, out is sent.
Put(b, c, q, out) ==
    /\ call' = [call EXCEPT ![b] = c]
    /\ mq' = q \o out
    /\ UNCHANGED <<affil, ext>>

Quiet == Len(mq) <= MaxBacklog

-----------------------------------------------------------------------------
(* The queue of floor requests *)

Without(s, i) == IF Contains(s, i) THEN RemoveAt(s, CHOOSE n \in 1..Len(s) : s[n] = i)
                                   ELSE s

\* Fault: the limit of the queue is off by one.
QueuedOverfull(c, i) == IF Contains(c.queue, i) \/ Len(c.queue) > MaxWaiters
                        THEN c ELSE [c EXCEPT !.queue = Append(@, i)]

\* queue_tx_demand_after_cease_tail: no second place in the queue, and no place
\* in a full one.
Queued(c, i) == IF Contains(c.queue, i) \/ Len(c.queue) >= MaxWaiters
                THEN c ELSE [c EXCEPT !.queue = Append(@, i)]

\* The place of the first request from a radio in S; the ones before it are
\* dropped with it (take_queued_tx_demand_through).
FirstOf(c, S) == {n \in 1..Len(c.queue) :
                    /\ c.queue[n] \in S
                    /\ \A m \in 1..(n - 1) : c.queue[m] \notin S}
Through(c, n) == [c EXCEPT !.queue = SubSeq(@, n + 1, Len(@))]
\* Fault: affiliation is not looked at when the floor is passed on.
MembersUnchecked(g) == Radios
Members(g) == {i \in Radios : Affiliated(i, g)}

-----------------------------------------------------------------------------
(* What the operations do to a call *)

GrantFloor(c, i) == [c EXCEPT !.queue = Without(@, i), !.speaker = i, !.tx = TRUE,
                              !.regrant = FALSE]
EnterHangtime(c) == [c EXCEPT !.tx = FALSE, !.regrant = FALSE]

\* queue_group_floor_activation: a second grant to the same radio joins the
\* pending one, which is settled by any transmitted report or by all discarded.
QueueActivation(c, i) ==
    LET again == c.act # None /\ c.act.who = i /\ c.act.st = "sent"
    IN  [c EXCEPT !.act = [who |-> i, st |-> IF again THEN "sent" ELSE "waiting"]]

\* The floor goes to i with a reported D-TX GRANTED.
Granted(c, i) == QueueActivation(GrantFloor(c, i), i)

\* begin_group_release: whatever is pending is cancelled.
Release(c) == [c EXCEPT !.tail = None, !.act = None, !.ready = None,
                        !.rel = IF @ = None THEN c.origin ELSE @]

NewCall(g, o, u, i, p, r) ==
    [group |-> g, origin |-> o, uuid |-> u, speaker |-> i, tx |-> TRUE, regrant |-> FALSE,
     pri |-> p, queue |-> <<>>, tail |-> None, act |-> None, ready |-> r, rel |-> None,
     circ |-> "held"]

Preemptive(p) == p \in 12..15

\* Fault: a call goes on without a listener.
DropUnlistenedNever(cs, g, listened) == cs

\* drop_group_calls_if_unlistened, applied to the calls cs.
DropUnlistened(cs, g, listened) ==
    [b \in Bearers |-> IF ~listened /\ cs[b] # None /\ cs[b].group = g
                       THEN Release(cs[b]) ELSE cs[b]]

-----------------------------------------------------------------------------
(* Uplink signalling of the radios *)

\* Fault: U-SETUP does not look for a call of the group.
SetupNewAlways(i, g, b, p) ==
    /\ Quiet
    /\ ~Preemptive(p) \/ Interruption
    /\ HasListener(affil, ext, g)
    /\ call[b] = None
    /\ Put(b, NewCall(g, i, None, i, p, None), mq,
           <<ToUmac("Open", b, i)>> \o Both(g, "FloorGranted", b, i))

\* fsm_on_u_setup_group with no live call for the group.  The caller need not be
\* affiliated, the group must have a listener; a pre-emptive priority needs the
\* cell option.
SetupNew(i, g, b, p) ==
    /\ Quiet
    /\ ~Preemptive(p) \/ Interruption
    /\ HasListener(affil, ext, g)
    /\ LiveFor(g) = {}
    /\ call[b] = None
    /\ Put(b, NewCall(g, i, None, i, p, None), mq,
           <<ToUmac("Open", b, i)>> \o Both(g, "FloorGranted", b, i))

\* fsm_group_on_u_setup_maintained_reentry: a repeated U-SETUP in hangtime or
\* from the current speaker is answered with D-CONNECT, and the floor is active
\* at once.  Any other repeated U-SETUP is handled like a TxDemand.
SetupReentry(i, b) ==
    LET c == call[b]
    IN  /\ Quiet
        /\ Live(b)
        /\ Affiliated(i, c.group)
        /\ ~c.tx \/ c.speaker = i
        /\ ~(c.speaker = i /\ c.tail = i)
        /\ Put(b, [GrantFloor(c, i) EXCEPT !.tail = IF @ = i THEN None ELSE @], mq,
               Both(c.group, "FloorGranted", b, i))

\* fsm_group_on_tx_demand.  Unaffiliated requesters are refused.
TxDemand(b, i, preemptive) ==
    LET c == call[b]
        legacy == Legacy /\ c.origin \in Radios /\ ~c.tx /\ c.speaker = i
        retake == c.speaker = i /\ c.tail = i
        preempt == c.tx /\ c.speaker # i /\ Interruption /\ preemptive
    IN  /\ Quiet
        /\ Live(b)
        /\ Affiliated(i, c.group)
        /\ \/ legacy /\ Put(b, Release(c), mq, <<>>)
           \/ ~legacy /\ retake /\ Put(b, Queued(c, i), mq, <<>>)
           \/ ~legacy /\ ~retake /\ preempt
                /\ Put(b, [Granted(c, i) EXCEPT !.tail = None], mq, <<>>)
           \/ ~legacy /\ ~retake /\ ~c.tx /\ Put(b, Granted(c, i), mq, <<>>)
           \/ ~preempt /\ c.tx /\ c.speaker # i /\ Put(b, Queued(c, i), mq, <<>>)
           \/ ~retake /\ Speaks(c, i) /\ Put(b, QueueActivation(c, i), mq, <<>>)

\* fsm_group_on_tx_ceased: a waiting radio withdraws its request; the speaker
\* hands the floor to the first affiliated waiter or starts the tail drain.
TxCeased(b, i) ==
    LET c == call[b]
        first == FirstOf(c, Members(c.group))
    IN  /\ Quiet
        /\ Live(b)
        /\ c.tx
        /\ \/ c.speaker # i /\ Contains(c.queue, i)
                /\ Put(b, [c EXCEPT !.queue = Without(@, i)], mq, <<>>)
           \/ c.speaker = i
                /\ \E n \in first : Put(b, Granted(Through(c, n), c.queue[n]), mq, <<>>)
           \/ c.speaker = i /\ first = {} /\ c.tail = None
                /\ Put(b, [c EXCEPT !.queue = <<>>, !.tail = i, !.act = None], mq, <<>>)
           \/ c.speaker = i /\ first = {} /\ c.tail # None
                /\ Put(b, [c EXCEPT !.queue = <<>>], mq, <<>>)

\* fsm_on_u_disconnect: only the owner of a call of local origin may end it.
UDisconnect(b, i) ==
    /\ Quiet
    /\ Live(b)
    /\ call[b].origin = i
    /\ Put(b, Release(call[b]), mq, <<>>)

-----------------------------------------------------------------------------
(* Deferred work, taken up by CMCE's tick *)

\* complete_group_tx_ceased_tail_drain.  In legacy mode and in routed groups the
\* call ends after an over that nobody else continues, so that the next PTT sets
\* up a fresh call; elsewhere the sender's own queued retake is served as well.
DrainTail(b) ==
    LET c == call[b]
        i == c.tail
        d == [c EXCEPT !.tail = None]
        freshSetup == (Legacy /\ c.origin \in Radios) \/ c.group \in Routable
        others == FirstOf(c, Members(c.group) \ {i})
        heirs == IF freshSetup /\ others # {} THEN others ELSE FirstOf(c, Members(c.group))
        idle == \A n \in heirs : freshSetup /\ c.queue[n] = i
    IN  /\ call[b] # None
        /\ c.tail # None
        /\ \/ ~Speaks(c, i) /\ Put(b, d, mq, <<>>)
           \/ Speaks(c, i) /\ ~idle
                /\ \E n \in heirs : Put(b, Granted(Through(d, n), c.queue[n]), mq, <<>>)
           \/ Speaks(c, i) /\ idle
                /\ \E n \in IF heirs = {} THEN {Len(c.queue)} ELSE heirs :
                     LET e == EnterHangtime(Through(d, n))
                     IN  Put(b, IF freshSetup THEN Release(e) ELSE e, mq,
                             Both(c.group, "FloorReleased", b, None))

\* The fate of the D-TX GRANTED and of the network set-up signalling, as the
\* lower layers report it (TxReporter).
ReportActivation(b, st) ==
    /\ call[b] # None /\ call[b].act # None /\ call[b].act.st = "waiting"
    /\ Put(b, [call[b] EXCEPT !.act.st = st], mq, <<>>)
ReportReady(b) ==
    /\ call[b] # None /\ call[b].ready # None /\ ~call[b].ready.sent
    /\ Put(b, [call[b] EXCEPT !.ready.sent = TRUE], mq, <<>>)

\* drain_pending_group_floor_activations and complete_group_floor_activation.
DrainActivation(b) ==
    LET c == call[b]
        d == [c EXCEPT !.act = None]
    IN  /\ call[b] # None
        /\ c.act # None
        /\ \/ c.act.st = "sent" /\ Speaks(c, c.act.who)
                /\ Put(b, d, mq, <<ToUmac("SetDlMediaSource", b, LocalLoopback)>>
                                   \o Both(c.group, "FloorGranted", b, c.act.who))
           \/ c.act.st = "lost" /\ Speaks(c, c.act.who) /\ Put(b, EnterHangtime(d), mq, <<>>)
           \/ c.act.st # "waiting" /\ ~Speaks(c, c.act.who) /\ Put(b, d, mq, <<>>)

\* drain_pending_network_group_readies and complete_network_group_ready; the
\* guard timer may end the wait whenever the signalling was not transmitted.
DrainReady(b) ==
    LET c == call[b]
        d == [c EXCEPT !.ready = None]
        current == Speaks(c, c.ready.who) /\ c.uuid = c.ready.uuid
    IN  /\ call[b] # None
        /\ c.ready # None
        /\ \/ c.ready.sent /\ current
                /\ Put(b, d, mq, <<ToUmac("SetDlMediaSource", b, SwMI),
                                   ToUmac("FloorGranted", b, c.ready.who),
                                   ToBrew("NetworkCallReady", b, c.ready.uuid)>>)
           \/ c.ready.sent /\ ~current /\ Put(b, d, mq, <<>>)
           \/ ~c.ready.sent /\ Put(b, Release(d), mq, <<>>)

\* What is said at the end of a call.  The UMAC is told to close the bearer only if
\* there is a circuit left to close.
CloseMessages(b, c) == IF c.circ = "gone" THEN <<>> ELSE <<ToUmac("Close", b, None)>>
EndMessages(b, c) ==
    <<ToUmac("CallEnded", b, None)>>
    \o CASE c.group \notin Routable -> <<>>
         [] c.group \in Routable /\ c.rel \in Radios -> <<ToBrew("CallEnded", b, None)>>
         [] OTHER -> <<ToBrew("NetworkCallEnd", None, c.rel)>>

\* Fault: a call that somebody still waits in is not taken down.
CompleteReleaseUnwanted(b) ==
    /\ call[b] # None
    /\ call[b].rel # None
    /\ call[b].queue = <<>>
    /\ Put(b, None, mq, CloseMessages(b, call[b]) \o EndMessages(b, call[b]))

\* Fault: the call is over, but a circuit the release took along stays open.
CompleteReleaseUnclosed(b) ==
    /\ call[b] # None
    /\ call[b].rel # None
    /\ Put(b, None, mq,
           (IF call[b].circ = "held" THEN CloseMessages(b, call[b]) ELSE <<>>) \o EndMessages(b, call[b]))

\* complete_pending_group_release: D-RELEASE went out or the guard expired.
CompleteRelease(b) ==
    /\ call[b] # None
    /\ call[b].rel # None
    /\ Put(b, None, mq, CloseMessages(b, call[b]) \o EndMessages(b, call[b]))

\* close_expired_circuits, every six minutes of a circuit: the circuit leaves the
\* table.  The call is released and takes the circuit along; of a call whose release
\* is already pending nothing is said to anybody.
CircuitExpires(b) ==
    /\ b \in Expiring
    /\ call[b] # None
    /\ call[b].circ = "held"
    /\ Put(b, IF call[b].rel = None THEN [Release(call[b]) EXCEPT !.circ = "carried"]
                                    ELSE [call[b] EXCEPT !.circ = "gone"], mq, <<>>)

\* check_call_timeout_expiry and check_hangtime_expiry.
CallTimeout(b) == Live(b) /\ Put(b, Release(call[b]), mq, <<>>)
HangtimeExpired(b) == Live(b) /\ ~call[b].tx /\ CallTimeout(b)

-----------------------------------------------------------------------------
(* Messages from the UMAC and from Brew *)

\* handle_ul_inactivity_timeout: the floor goes to a waiter, or the speaker is
\* granted it once more, or the transmission is ended.
UlInactivityTimeout(b, q) ==
    LET c == call[b]
        first == FirstOf(c, Members(c.group))
        act == Live(b) /\ c.tx /\ c.tail = None /\ c.act = None
    IN  \/ ~act /\ mq' = q /\ UNCHANGED cmceVars
        \/ act /\ \E n \in first : Put(b, Granted(Through(c, n), c.queue[n]), q, <<>>)
        \/ act /\ first = {} /\ ~c.regrant
             /\ Put(b, QueueActivation([c EXCEPT !.regrant = TRUE], c.speaker), q, <<>>)
        \/ act /\ first = {} /\ c.regrant
             /\ Put(b, EnterHangtime([c EXCEPT !.queue = <<>>]), q,
                    Both(c.group, "FloorReleased", b, None))

RefuseNetworkCall(n, q) ==
    /\ mq' = q \o <<ToBrew("NetworkCallEnd", None, n.uuid)>>
    /\ UNCHANGED cmceVars

\* fsm_group_on_network_call_start: n takes the floor of the call on b.  A
\* pending activation of a local speaker is left alone.
NetworkTakesFloor(n, b, q) ==
    Put(b, [GrantFloor(call[b], n.issi) EXCEPT
              !.tail = None, !.pri = n.pri, !.uuid = n.uuid, !.origin = n.uuid,
              !.ready = [uuid |-> n.uuid, who |-> n.issi, sent |-> FALSE]], q, <<>>)

\* fsm_on_network_call_start.  Without a free timeslot the call is refused; other
\* calls and packet data compete for them.
NetworkCallStart(n, q) ==
    LET g == n.group
        heard == HasLocalListener(affil, g)
        refused == g \notin Routable \/ (heard /\ ~Interruption /\ Preemptive(n.pri))
        yields(c) == \/ ~(c.tx /\ Affiliated(c.speaker, g))
                     \/ Interruption /\ Preemptive(n.pri) /\ n.pri > c.pri
    IN  \/ g \in Routable /\ ~heard
             /\ call' = DropUnlistened(call, g, HasListener(affil, ext, g))
             /\ mq' = q \o <<ToBrew("NetworkCallEnd", None, n.uuid)>>
             /\ UNCHANGED <<affil, ext>>
        \/ refused /\ RefuseNetworkCall(n, q)
        \/ heard /\ ~refused /\ \E b \in LiveFor(g) :
             IF yields(call[b]) THEN NetworkTakesFloor(n, b, q) ELSE RefuseNetworkCall(n, q)
        \/ heard /\ ~refused /\ LiveFor(g) = {} /\ RefuseNetworkCall(n, q)
        \/ heard /\ ~refused /\ LiveFor(g) = {} /\ \E b \in Bearers :
             /\ call[b] = None
             /\ Put(b, NewCall(g, n.uuid, n.uuid, n.issi, n.pri,
                               [uuid |-> n.uuid, who |-> n.issi, sent |-> FALSE]),
                    q, <<ToUmac("Open", b, n.issi)>>)

\* rx_network_call_end and fsm_group_on_network_call_end.
NetworkCallEnd(u, q) ==
    LET ended == {b \in Bearers : call[b] # None /\ call[b].uuid = u}
    IN  \/ ended = {} /\ mq' = q /\ UNCHANGED cmceVars
        \/ \E b \in ended :
             LET c == call[b]
             IN  \/ c.rel # None /\ mq' = q /\ UNCHANGED cmceVars
                 \/ c.rel = None /\ c.ready = None /\ c.tx
                      /\ Put(b, [EnterHangtime(c) EXCEPT !.uuid = None], q,
                             <<ToUmac("FloorReleased", b, None)>>)
                 \/ c.rel = None /\ (c.ready # None \/ ~c.tx) /\ Put(b, Release(c), q, <<>>)

-----------------------------------------------------------------------------
(* Subscribers come and go *)

\* MM has reported that a kicked radio left g, and CMCE has yet to hear of it.
Leaving(i, g) == \E n \in 1..Len(mq) :
    mq[n].type = "Deaffiliate" /\ mq[n].arg = [issi |-> i, group |-> g]

\* MM's reports arrive in order, so a new affiliation follows an earlier leave.
Affiliate(i, g) ==
    /\ \A h \in Groups : ~Leaving(i, h)
    /\ affil' = affil \cup {<<i, g>>}
    /\ UNCHANGED <<ext, call, mq>>
ExternalAffiliate(i, g) ==
    /\ ext' = ext \cup {<<i, g>>}
    /\ UNCHANGED <<affil, call, mq>>

\* Fault: a speaker who leaves keeps the floor.
DepartedSpeaking(c, i, listened) == [c EXCEPT !.queue = Without(@, i)]

\* clear_group_floor_state_for_departure: a speaker who leaves gives up the floor
\* and the queue is emptied; another subscriber's request is withdrawn.
Departed(c, i, listened) ==
    IF Speaks(c, i) /\ listened
    THEN IF c.rel = None THEN EnterHangtime([c EXCEPT !.queue = <<>>]) ELSE c
    ELSE [c EXCEPT !.queue = Without(@, i)]

Depart(i, g, q) ==
    LET listened == HasListener(affil', ext', g)
        after == [b \in Bearers |-> IF call[b] # None /\ call[b].group = g
                                    THEN Departed(call[b], i, listened) ELSE call[b]]
        left == {b \in LiveFor(g) : Speaks(call[b], i) /\ listened}
    IN  /\ call' = DropUnlistened(after, g, listened)
        /\ \/ left = {} /\ mq' = q
           \/ \E b \in left : mq' = q \o Both(g, "FloorReleased", b, None)

\* handle_subscriber_update: MM reports a de-affiliation, or a deregistration,
\* which leaves the groups one after the other.
Leave(i, g) ==
    /\ Quiet
    /\ Affiliated(i, g)
    /\ affil' = affil \ {<<i, g>>}
    /\ UNCHANGED ext
    /\ Depart(i, g, mq)

\* handle_external_subscriber_update: the same for a subscriber behind Brew.
ExternalDeparts(i, g, q) ==
    /\ ext' = ext \ {<<i, g>>}
    /\ UNCHANGED affil
    /\ IF <<i, g>> \in ext THEN Depart(i, g, q) ELSE call' = call /\ mq' = q
ExternalLeave(i, g) == Quiet /\ <<i, g>> \in ext /\ ExternalDeparts(i, g, mq)

\* kick_ms: the radio is removed from its groups and MM is told.  MM answers with
\* a de-affiliation from the groups it knows; until CMCE handles that, the floor
\* and the queues of the group calls are as they were.
Kick(i) ==
    LET groups == {g \in Groups : Affiliated(i, g)}
    IN  /\ Quiet
        /\ groups # {}
        /\ affil' = {a \in affil : a[1] # i}
        /\ mq' = mq \o SetToSeq({[to |-> "cmce", type |-> "Deaffiliate", bearer |-> None,
                                 arg |-> [issi |-> i, group |-> g]] : g \in groups})
        /\ UNCHANGED <<ext, call>>

\* handle_subscriber_update, for a radio CMCE no longer knows: every group MM
\* names counts as left.
Deaffiliated(i, g, q) == UNCHANGED <<affil, ext>> /\ Depart(i, g, q)

-----------------------------------------------------------------------------
(* CMCE in an environment that sends it anything *)

\* The router delivers the oldest message, to CMCE or to another entity.
Deliver ==
    /\ mq # <<>>
    /\ LET m == Head(mq)
       IN  \/ m.type = "Deaffiliate" /\ Deaffiliated(m.arg.issi, m.arg.group, Tail(mq))
           \/ m.type # "Deaffiliate" /\ mq' = Tail(mq) /\ UNCHANGED cmceVars

RadioSteps(i) ==
    \/ \E g \in Groups, b \in Bearers, p \in Priorities : SetupNew(i, g, b, p)
    \/ \E b \in Bearers :
         \/ SetupReentry(i, b)
         \/ \E preemptive \in BOOLEAN : TxDemand(b, i, preemptive)
         \/ TxCeased(b, i)
         \/ UDisconnect(b, i)
    \/ \E g \in Groups : Affiliate(i, g) \/ Leave(i, g)

TickSteps(b) ==
    \/ \E st \in {"sent", "lost"} : ReportActivation(b, st)
    \/ ReportReady(b)
    \/ DrainTail(b)
    \/ DrainActivation(b)
    \/ DrainReady(b)
    \/ CompleteRelease(b)
    \/ CircuitExpires(b)
    \/ CallTimeout(b)
    \/ HangtimeExpired(b)

ExternalSteps == \E i \in Remotes, g \in Groups : ExternalAffiliate(i, g) \/ ExternalLeave(i, g)

GCNext ==
    \/ \E i \in Radios : RadioSteps(i)
    \/ \E b \in Bearers : TickSteps(b)
    \/ ExternalSteps
    \/ \E i \in Kickable : Kick(i)
    \/ Quiet /\ \E b \in Bearers : UlInactivityTimeout(b, mq)
    \/ Quiet /\ \E n \in NetStart : NetworkCallStart(n, mq)
    \/ Quiet /\ \E u \in Uuids : NetworkCallEnd(u, mq)
    \/ Deliver

\* CMCE's tick takes up what is due: a release whose D-RELEASE went out or whose
\* guard expired, and a hangtime that ran out with nobody taking the floor.  The
\* call timer T310 restarts with each grant, so nothing is assumed of CallTimeout.
GCFairness == \A b \in Bearers : WF_gcVars(CompleteRelease(b)) /\ WF_gcVars(HangtimeExpired(b))

GCSpec == GCInit /\ [][GCNext]_gcVars
GCFairSpec == GCSpec /\ GCFairness

-----------------------------------------------------------------------------
(* Properties *)

\* One group, one call: beside calls whose release is draining, at most one call
\* serves a group, so a set-up never opens a second channel for it.
OneLiveCallPerGroup ==
    \A b1, b2 \in Bearers :
        Live(b1) /\ Live(b2) /\ call[b1].group = call[b2].group => b1 = b2

\* A release in progress is not overtaken: no deferred floor change survives its
\* start, so nothing is granted or activated on a bearer about to be closed.
ReleaseCancelsFloorWork ==
    \A b \in Bearers : call[b] # None /\ call[b].rel # None =>
        call[b].tail = None /\ call[b].act = None /\ call[b].ready = None

\* A radio counts as a member until CMCE has handled its leaving.
Counted(i, g) == Affiliated(i, g) \/ Leaving(i, g)

\* The queue is fair: a radio has one place in it, and none while it holds the
\* floor, except for the retake requested during the tail of its own over; and who
\* waits is a member: a subscriber who left the group, or was kicked and is known to
\* have left, does not, whatever the order of demand, departure and hand-over.
QueueWellFormed ==
    \A b \in Bearers : Live(b) =>
        LET c == call[b]
        IN  /\ \A m, n \in 1..Len(c.queue) : c.queue[m] = c.queue[n] => m = n
            /\ Len(c.queue) <= MaxWaiters
            /\ \A n \in 1..Len(c.queue) : /\ Speaks(c, c.queue[n]) => c.tail = c.queue[n]
                                          /\ Counted(c.queue[n], c.group)

\* Nobody is given the floor of a call in progress who is not affiliated to its
\* group at that moment: an external subscriber "must never authorize RF floor
\* requests", and a waiter may have left or been kicked since it asked.
FloorGoesToMembers ==
    [][\A b \in Bearers : Live(b) /\ Live(b)' =>
          LET i == call'[b].speaker
          IN  i \in Radios /\ Speaks(call'[b], i) /\ ~Speaks(call[b], i)
                => Affiliated(i, call[b].group)]_gcVars

\* A call lives only as long as somebody, local or behind Brew, listens to it, or
\* was kicked and CMCE has yet to hear from MM which groups the radio left.
LiveCallsListened ==
    \A b \in Bearers : Live(b) =>
        \/ HasListener(affil, ext, call[b].group)
        \/ \E i \in Radios : Leaving(i, call[b].group)

\* A radio that is no longer affiliated does not go on transmitting: the step in
\* which CMCE learns that the speaker left, of its own accord or kicked, also ends
\* its transmission or the call.
LeaversLoseFloor ==
    [][\A b \in Bearers, i \in Radios, g \in Groups :
          Live(b) /\ call[b].group = g /\ Speaks(call[b], i)
             /\ Counted(i, g) /\ ~Counted(i, g)'
          => call'[b].rel # None \/ ~call'[b].tx]_gcVars

\* Calls end: a release that was begun ends with the call gone and its bearer free, and
\* a call without a speaker is taken up again or ends; no call stays in between for ever.
CallsEnd == \A b \in Bearers : []<>(call[b] = None \/ (Live(b) /\ call[b].tx))
=============================================================================

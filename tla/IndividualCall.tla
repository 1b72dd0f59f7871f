--------------------------- MODULE IndividualCall ---------------------------
(***************************************************************************)
(* Individual (private) calls of the call-control subentity: set-up        *)
(* between two terminals of the cell, to and from a party behind the Brew  *)
(* network, and to the built-in parrot and echo services; alerting and     *)
(* connection with their delivery guards; the floor of a simplex call; and *)
(* every way a call is cleared.                                            *)
(*                                                                         *)
(* One action is one handler run to its end, or one tick_start with all    *)
(* the drains it performs, in the order it performs them.  A handler is an *)
(* operator on the record Now of all the tables; Commit makes its result   *)
(* the next state.  Messages to the UMAC and to Brew act at once.          *)
(***************************************************************************)
EXTENDS Naturals, FiniteSets

CONSTANTS
    None,           \* no value
    Terminals,      \* terminals of the cell
    Remote,         \* the party behind the Brew network
    Parrot, Echo,   \* the built-in services (PARROT_ISSI, ECHO_ISSI)
    MaxCalls,       \* bound: calls ever made
    Slots,          \* traffic timeslots of the carrier
    TailDrain,      \* ticks a bearer tail drains before it takes effect
    GuardTime,      \* ticks a delivery or a release waits for its report
    SetupTime,      \* ticks of the set-up timer
    CallTime,       \* ticks of the timer of a simplex call
    CalledTries, CallerTries,  \* attempts at D-CONNECT-ACK and at D-CONNECT
    MaxFrames,      \* bound: frames the parrot records
    Workloads       \* what the users and the network may do in a behaviour

ASSUME TimesOrdered ==
    /\ {MaxCalls, TailDrain, GuardTime, SetupTime, CallTime, CalledTries,
        CallerTries, MaxFrames} \subseteq Nat \ {0}
    /\ TailDrain <= GuardTime /\ GuardTime <= SetupTime
ASSUME SlotsAreNumbers == Slots \subseteq Nat /\ IsFiniteSet(Slots)

VARIABLES
    call,       \* individual_calls
    connAck,    \* pending_individual_connect_acks
    netConn,    \* pending_network_individual_connects
    tail,       \* pending_individual_tx_ceased_tail_drains
    dtail,      \* pending_individual_disconnect_tail_drains
    relAck,     \* pending_individual_disconnect_release_acks
    rel,        \* pending_individual_releases
    owner,      \* the call that holds a timeslot and its circuit
    umac,       \* what the UMAC was told of a timeslot: open circuit and floor
    stale,      \* a circuit the manager has expired: carried by the release it
                \* began, or gone because a release was already pending
    parrot,     \* parrot_session
    echo,       \* the call of echo_session
    registered, \* terminals in subscriber_groups
    brew,       \* the leg of the call as Brew knows it
    said,       \* what the parties were last told of the floor (ghost)
    told,       \* parties that were sent D-RELEASE (ghost)
    heard,      \* parties the connection PDU is known to have reached (ghost)
    ceased,     \* speakers silent since their last request (ghost)
    lapsed,     \* calls whose floor moved, tail drain or not (ghost)
    ever,       \* the terminals of every call made so far (ghost)
    work        \* what may still happen

vars == <<call, connAck, netConn, tail, dtail, relAck, rel, owner, umac, stale,
          parrot, echo, registered, brew, said, told, heard, ceased, lapsed, ever, work>>

Ids == 1 .. MaxCalls
Parties == Terminals \cup {Remote, Parrot, Echo}
Reports == {"Pending", "Discarded", "Transmitted", "Lost", "Acknowledged"}

-----------------------------------------------------------------------------
(* The record of all tables, on which the handlers work *)

Now == [call |-> call, connAck |-> connAck, netConn |-> netConn, tail |-> tail,
        dtail |-> dtail, relAck |-> relAck, rel |-> rel, owner |-> owner,
        umac |-> umac, stale |-> stale, parrot |-> parrot, echo |-> echo,
        registered |-> registered, brew |-> brew, said |-> said, told |-> told,
        heard |-> heard, ceased |-> ceased, lapsed |-> lapsed, ever |-> ever]

Commit(s) ==
    /\ call' = s.call /\ connAck' = s.connAck /\ netConn' = s.netConn
    /\ tail' = s.tail /\ dtail' = s.dtail /\ relAck' = s.relAck /\ rel' = s.rel
    /\ owner' = s.owner /\ umac' = s.umac /\ stale' = s.stale
    /\ parrot' = s.parrot /\ echo' = s.echo
    /\ registered' = s.registered /\ brew' = s.brew /\ said' = s.said
    /\ told' = s.told /\ heard' = s.heard /\ ceased' = s.ceased
    /\ lapsed' = s.lapsed /\ ever' = s.ever

Transmitted(r) == r \in {"Transmitted", "Lost", "Acknowledged"}
Final(r, acked) ==
    r \in {"Discarded", "Lost", "Acknowledged"} \cup
          (IF acked THEN {} ELSE {"Transmitted"})

SetupStates == {"CallSetupPending", "IncomingSetupPending", "IncomingAlerting",
                "IncomingSetupWaitNetworkAck"}
ConnectAckPending == {"CalledConnectAckPending", "CallerConnectAckPending"}
HasAssignedCircuit(k) == k.st \in ConnectAckPending \cup {"Active"}

PartiesOf(k) == {k.from, k.to}
Peer(k, p) == IF p = k.from THEN k.to ELSE k.from
\* individual_leg_is_local_rf
LocalRf(k) == PartiesOf(k) \ (CASE k.brew = "out" -> {k.to}
                                [] k.brew = "in" -> {k.from}
                                [] OTHER -> {})
SlotOf(k, p) == IF p = k.from THEN k.cts ELSE k.dts
SlotsOf(k) == {k.cts, k.dts}
Simplex(k) == ~k.duplex
Speaking(k) == k.st = "Active" /\ Simplex(k)

\* find_individual_call_by_issi, live calls and calls whose release is pending
Busy(p) == \/ \E c \in Ids : call[c] # None /\ p \in PartiesOf(call[c])
           \/ \E c \in Ids : rel[c] # None /\ p \in PartiesOf(rel[c].call)

OverCalls(Op(_, _), s) ==
    LET after[n \in 0 .. MaxCalls] ==
            IF n = 0 THEN s ELSE Op(after[n - 1], n)
    IN  after[MaxCalls]

-----------------------------------------------------------------------------
(* Telling the parties, the UMAC and Brew *)

\* push_individual_d_tx_granted_if_local_rf and the grants of the connection
\* PDUs: only a party of the cell is told on the air.
Say(s, c, k, p, what) ==
    IF p \in LocalRf(k) THEN [s EXCEPT !.said[c][p] = what] ELSE s

UmacFloor(s, k, p, to) == [s EXCEPT !.umac[SlotOf(k, p)].floor = to]

\* set_floor_holder with D-TX-GRANTED to both legs and FloorGranted
GrantFloor(s, c, k, p) ==
    LET held == [s EXCEPT !.call[c].holder = p]
        toldBoth == Say(Say(held, c, k, p, "Granted"),
                        c, k, Peer(k, p), "GrantedToOtherUser")
    IN  UmacFloor(toldBoth, k, p, p)

\* clear_floor_holder with D-TX-CEASED to both legs and FloorReleased
CeaseFloorUntold(s, c, k, p) ==
    LET free == [s EXCEPT !.call[c].holder = None]
    IN  Say(Say(free, c, k, p, "Ceased"), c, k, Peer(k, p), "Ceased")
CeaseFloor(s, c, k, p) ==
    LET free == [s EXCEPT !.call[c].holder = None]
        toldBoth == Say(Say(free, c, k, p, "Ceased"), c, k, Peer(k, p), "Ceased")
    IN  UmacFloor(toldBoth, k, p, None)

\* The floor passes to the queued requester, or is free.
PassFloor(s, c, k, p) ==
    IF k.queue # None
    THEN GrantFloor([s EXCEPT !.call[c].queue = None], c, k, k.queue)
    ELSE CeaseFloor(s, c, k, p)

OpenCircuits(s, c, k) ==
    [s EXCEPT !.umac = [t \in Slots |-> IF t \in SlotsOf(k)
                                        THEN [call |-> c, floor |-> "open"]
                                        ELSE @[t]]]

-----------------------------------------------------------------------------
(* Release *)

DropPending(s, c) ==
    [s EXCEPT !.connAck[c] = None, !.netConn[c] = None, !.tail[c] = None,
              !.dtail[c] = None, !.relAck[c] = None]

\* complete_individual_release_cleanup: the UMAC is told to close a circuit the
\* release carries or the manager still has; CallEnded goes out in any case.
CleanupOneBearer(s, c, k, notify) ==
    [DropPending(s, c) EXCEPT
        !.call[c] = None, !.owner[k.cts] = None,
        !.umac[k.cts] = [call |-> None, floor |-> None],
        !.brew[c] = IF notify /\ k.brew # "none" THEN "released" ELSE @,
        !.parrot = IF @ # None /\ @.call = c THEN None ELSE @,
        !.echo = IF @ = c THEN None ELSE @]
Cleanup(s, c, k, notify) ==
    [DropPending(s, c) EXCEPT
        !.call[c] = None,
        !.owner = [t \in Slots |-> IF t \in SlotsOf(k) THEN None ELSE @[t]],
        !.umac = [t \in Slots |-> IF t \in SlotsOf(k)
                                  THEN IF s.stale[c] = "gone" THEN [@[t] EXCEPT !.floor = "open"]
                                       ELSE [call |-> None, floor |-> None]
                                  ELSE @[t]],
        !.brew[c] = IF notify /\ k.brew # "none" THEN "released" ELSE @,
        !.parrot = IF @ # None /\ @.call = c THEN None ELSE @,
        !.echo = IF @ = c THEN None ELSE @]

\* The legs whose D-RELEASE carries a reporter: both of an established call,
\* the called one once the caller is being connected, none before.
ReportedLegs(k, legs) ==
    CASE k.st = "Active" -> legs
      [] k.st = "CallerConnectAckPending" -> legs \cap {k.to}
      [] OTHER -> {}

\* begin_individual_release.  notify is notify_brew with a cause other than
\* SwmiRequestedDisconnection: only then is the release passed on to Brew.
BeginReleaseUnreportedUntold(s, c, only, notify) ==
    IF s.rel[c] # None THEN s
    ELSE IF s.call[c] = None THEN DropPending(s, c)
    ELSE LET k == s.call[c]
             reported == ReportedLegs(k, {p \in LocalRf(k) : only \in {None, p}})
             t == [DropPending(s, c) EXCEPT !.call[c] = None, !.told[c] = @ \cup reported]
         IN  IF reported = {} THEN Cleanup(t, c, k, notify)
             ELSE [t EXCEPT !.rel[c] = [call |-> k, age |-> 0, notify |-> notify,
                                        reports |-> [p \in reported |-> "Pending"]]]
BeginRelease(s, c, only, notify) ==
    IF s.rel[c] # None THEN s
    ELSE IF s.call[c] = None THEN DropPending(s, c)
    ELSE LET k == s.call[c]
             legs == {p \in LocalRf(k) : only \in {None, p}}
             t == [DropPending(s, c) EXCEPT !.call[c] = None,
                                            !.told[c] = @ \cup legs]
             reported == ReportedLegs(k, legs)
         IN  IF reported # {}
             THEN [t EXCEPT !.rel[c] =
                      [call |-> k, age |-> 0, notify |-> notify,
                       reports |-> [p \in reported |-> "Pending"]]]
             ELSE Cleanup(t, c, k, notify)

\* drain_pending_individual_releases
DrainRelease(s, c) ==
    IF /\ s.rel[c] # None
       /\ \/ \A p \in DOMAIN s.rel[c].reports : Transmitted(s.rel[c].reports[p])
          \/ s.rel[c].age >= GuardTime
    THEN Cleanup([s EXCEPT !.rel[c] = None], c, s.rel[c].call, s.rel[c].notify)
    ELSE s

\* complete_individual_disconnect_if_ready
CompleteDisconnect(s, c) ==
    LET a == s.relAck[c]
        late == a.age >= GuardTime
        peerClear == a.peer # None /\ (Transmitted(a.peer) \/ late)
        ackDone == late \/ (Transmitted(a.own) /\ Transmitted(a.peer))
        removed == [s EXCEPT !.relAck[c] = None]
    IN  IF a = None THEN s
        ELSE IF ~(peerClear /\ ackDone) THEN s
        ELSE IF s.call[c] = None THEN removed
        ELSE Cleanup(removed, c, s.call[c], TRUE)

\* send_individual_disconnect_release_ack
ReleaseAck(s, c, p) ==
    IF s.relAck[c] # None THEN s
    ELSE [s EXCEPT !.relAck[c] = [to |-> p, own |-> "Pending", peer |-> None, age |-> 0],
                   !.told[c] = @ \cup {p}]

\* send_individual_disconnect_peer_release
PeerRelease(s, c, p) ==
    LET t == [s EXCEPT !.told[c] = @ \cup {p}]
    IN  IF s.relAck[c] # None
        THEN CompleteDisconnect([t EXCEPT !.relAck[c].peer = "Pending"], c)
        ELSE BeginRelease(t, c, p, TRUE)

\* begin_individual_disconnect_tail_drain: supersedes a tail drain of the
\* speaker and inherits its age.
DisconnectTail(s, c, p) ==
    IF s.dtail[c] # None THEN s
    ELSE [s EXCEPT !.dtail[c] = [by |-> p, age |-> IF s.tail[c] = None THEN 0
                                                   ELSE s.tail[c].age],
                   !.tail[c] = None]

\* drain_pending_individual_disconnect_tail_drains
DrainDisconnectTail(s, c) ==
    LET d == s.dtail[c]
        k == s.call[c]
        t == [s EXCEPT !.dtail[c] = None]
    IN  IF d = None THEN s
        ELSE IF d.age < TailDrain THEN s
        ELSE IF k = None THEN t
        ELSE IF k.st # "Active" THEN t
        ELSE PeerRelease(t, c, Peer(k, d.by))

ClearPending(s, c) == s.dtail[c] # None \/ s.relAck[c] # None

-----------------------------------------------------------------------------
(* Set-up *)

NextId == CHOOSE c \in Ids : ever[c] = None /\ \A d \in 1 .. c - 1 : ever[d] # None
Free(s) == {t \in Slots : s.owner[t] = None}
Lowest(S) == CHOOSE t \in S : \A u \in S : t <= u

NewCall(from, to, st, leg) ==
    [from |-> from, to |-> to, duplex |-> work.duplex, first |-> work.first,
     offer |-> work.offer, st |-> st, cts |-> None, dts |-> None, age |-> 0,
     brew |-> leg, asked |-> FALSE, ctx |-> FALSE, holder |-> None, queue |-> None]

\* The call with its timeslots: two for a local duplex call, one for others.
Install(s, c, k, n) ==
    LET one == Lowest(Free(s))
        two == IF n = 2 THEN Lowest(Free(s) \ {one}) ELSE one
    IN  [s EXCEPT !.call[c] = [k EXCEPT !.cts = one, !.dts = two],
                  !.owner[one] = c, !.owner[two] = c,
                  !.ever[c] = LocalRf(k) \cap Terminals,
                  !.brew[c] = IF k.brew = "none" THEN "none" ELSE "setup"]

CanMake(kind, p) ==
    /\ kind \in work.kinds /\ p \in work.users
    /\ \E c \in 1 .. work.calls : ever[c] = None
Spend == work.moves > 0 /\ work' = [work EXCEPT !.moves = @ - 1]

\* fsm_on_u_setup_p2p, both parties in this cell
SetupLocal(from, to) ==
    LET n == IF work.duplex THEN 2 ELSE 1
    IN  /\ CanMake("local", from) /\ from # to
        /\ ~Busy(from) /\ to \in registered /\ ~Busy(to)
        /\ Cardinality(Free(Now)) >= n
        /\ Commit(Install(Now, NextId, NewCall(from, to, "CallSetupPending", "none"), n))
        /\ UNCHANGED work

\* fsm_on_u_setup_p2p_over_brew
SetupOverBrew(from) ==
    /\ CanMake("out", from) /\ ~Busy(from) /\ Free(Now) # {}
    /\ Commit(Install(Now, NextId, NewCall(from, Remote, "CallSetupPending", "out"), 1))
    /\ UNCHANGED work

\* The built-in services answer at once with the floor given to the caller.
Answered(s, c, from) ==
    LET k == s.call[c]
        open == OpenCircuits(Say(s, c, k, from, "Granted"), c, k)
    IN  UmacFloor([open EXCEPT !.call[c].holder = from], k, from, from)

\* fsm_on_u_setup_parrot: one session, simplex only
SetupParrot(from) ==
    LET c == NextId
        k == NewCall(from, Parrot, "Active", "none")
    IN  /\ CanMake("parrot", from) /\ ~Busy(from) /\ ~work.duplex
        /\ parrot = None /\ Free(Now) # {}
        /\ Commit([Answered(Install(Now, c, k, 1), c, from) EXCEPT
                     !.parrot = [call |-> c, st |-> "Recording", frames |-> 0, age |-> 0]])
        /\ UNCHANGED work

\* fsm_on_u_setup_echo: one session
SetupEcho(from) ==
    LET c == NextId
        k == NewCall(from, Echo, "Active", "none")
    IN  /\ CanMake("echo", from) /\ ~Busy(from)
        /\ echo = None /\ Free(Now) # {}
        /\ Commit([Answered(Install(Now, c, k, 1), c, from) EXCEPT !.echo = c])
        /\ UNCHANGED work

\* fsm_on_network_circuit_setup_request
NetworkSetup(to) ==
    /\ CanMake("in", to) /\ to \in registered /\ ~Busy(to) /\ Free(Now) # {}
    /\ Commit(Install(Now, NextId, NewCall(Remote, to, "IncomingSetupPending", "in"), 1))
    /\ UNCHANGED work

-----------------------------------------------------------------------------
(* Alerting and connection *)

\* accept_called_simplex_offer_for_requested_duplex: the second bearer goes back.
AcceptSimplex(s, c) ==
    LET k == s.call[c]
    IN  IF ~(k.duplex /\ k.offer) THEN s
        ELSE [s EXCEPT !.call[c].duplex = FALSE, !.call[c].dts = k.cts,
                       !.owner = [t \in Slots |-> IF t = k.dts /\ t # k.cts
                                                  THEN None ELSE @[t]]]

\* fsm_individual_on_alert: every U-ALERT restarts the set-up timer.
Alerted(s, c, ctx) ==
    IF s.call[c].st \notin {"CallSetupPending", "IncomingSetupPending", "IncomingAlerting"}
    THEN s
    ELSE [s EXCEPT !.call[c].st = "IncomingAlerting", !.call[c].age = 0,
                   !.call[c].ctx = @ \/ ctx]

\* send_pending_individual_release_direct_ack: a late answer is told again.
Late(c, p) == call[c] = None /\ rel[c] # None
              /\ Commit([Now EXCEPT !.told[c] = @ \cup {p}])

\* fsm_on_u_alert: the simplex offer is taken before the transition is tried.
\* Environment: a terminal offers simplex before it has connected.
UAlert(c, p) ==
    /\ Spend
    /\ \/ Late(c, p) /\ p \in PartiesOf(rel[c].call)
       \/ /\ call[c] # None /\ call[c].to = p
          /\ (call[c].duplex /\ call[c].offer) => call[c].st \in SetupStates
          /\ Commit(Alerted(AcceptSimplex(Now, c), c, TRUE))

\* fsm_on_network_circuit_alert
NetworkAlert(c) ==
    /\ Spend
    /\ call[c] # None /\ call[c].brew = "out"
    /\ Commit(Alerted(Now, c, FALSE))

\* private_connect_grants
ConnectGrant(k, p) ==
    IF k.duplex THEN "Granted"
    ELSE IF p = (IF k.first = "to" THEN k.to ELSE k.from) THEN "Granted"
    ELSE "GrantedToOtherUser"

\* One attempt at D-CONNECT-ACK or D-CONNECT under a delivery guard.
SendConnect(s, c, leg, tries) ==
    LET k == s.call[c]
        p == IF leg = "called" THEN k.to ELSE k.from
        t == [s EXCEPT !.connAck[c] =
                 [leg |-> leg, tries |-> tries, rep |-> "Pending", age |-> 0,
                  acked |-> leg = "caller" \/ k.duplex]]
    IN  Say(t, c, k, p, ConnectGrant(k, p))

\* U-CONNECT of a call from the network: ask for the connection, once.
AskNetwork(s, c) ==
    IF s.call[c].asked THEN s
    ELSE [s EXCEPT !.call[c].asked = TRUE, !.brew[c] = "requested",
                   !.call[c].st = "IncomingSetupWaitNetworkAck"]

\* U-CONNECT of a local call: open the bearers and connect the called leg.
ConnectCalled(s, c) ==
    SendConnect([OpenCircuits(s, c, s.call[c]) EXCEPT
                   !.call[c].st = "CalledConnectAckPending"], c, "called", 1)

\* fsm_on_u_connect
UConnect(c, p) ==
    LET s == [AcceptSimplex(Now, c) EXCEPT !.call[c].ctx = TRUE]
    IN  /\ Spend
        /\ \/ Late(c, p) /\ p \in PartiesOf(rel[c].call)
           \/ /\ call[c] # None /\ call[c].to = p /\ call[c].st \in SetupStates
              /\ Commit(IF call[c].brew = "in" THEN AskNetwork(s, c) ELSE ConnectCalled(s, c))

\* fsm_individual_transition_to_active
Activate(s, c) == [s EXCEPT !.call[c].st = "Active", !.call[c].age = 0,
                            !.call[c].asked = FALSE]

\* complete_private_connect_after_caller_connect_delivery
ActivateLocal(s, c) ==
    LET t == [Activate(s, c) EXCEPT !.connAck[c] = None]
        k == t.call[c]
        p == IF k.first = "to" THEN k.to ELSE k.from
    IN  IF k.duplex THEN t
        ELSE UmacFloor([t EXCEPT !.call[c].holder = p], k, p, p)

\* drain_pending_individual_connect_acks
DrainConnectAckForever(s, c) ==
    LET a == s.connAck[c]
        complete == IF a.acked THEN a.rep = "Acknowledged" ELSE Transmitted(a.rep)
    IN  IF a = None THEN s
        ELSE IF complete
        THEN IF a.leg = "called"
             THEN SendConnect([s EXCEPT !.call[c].st = "CallerConnectAckPending"], c, "caller", 1)
             ELSE ActivateLocal(s, c)
        ELSE IF ~Final(a.rep, a.acked) /\ a.age < GuardTime THEN s
        ELSE SendConnect([s EXCEPT !.call[c].age = 0], c, a.leg, 1)
DrainConnectAck(s, c) ==
    LET a == s.connAck[c]
        complete == IF a.acked THEN a.rep = "Acknowledged" ELSE Transmitted(a.rep)
    IN  IF a = None THEN s
        ELSE IF complete
        THEN IF a.leg = "called"
             THEN SendConnect([s EXCEPT !.call[c].st = "CallerConnectAckPending"], c, "caller", 1)
             ELSE ActivateLocal(s, c)
        ELSE IF ~Final(a.rep, a.acked) /\ a.age < GuardTime THEN s
        ELSE IF a.tries >= (IF a.leg = "called" THEN CalledTries ELSE CallerTries)
             THEN BeginRelease(s, c, None, TRUE)
        ELSE SendConnect(s, c, a.leg, a.tries + 1)

-----------------------------------------------------------------------------
(* Calls over the network *)

NetGrants == {"Granted", "GrantedToOtherUser", "NotGranted"}
LocalLeg(k) == IF k.brew = "out" THEN k.from ELSE k.to

\* The D-CONNECT (or D-CONNECT-ACK) of a call over Brew; a second request
\* replaces the pending one.
SendNetworkConnect(s, c, grant) ==
    LET k == s.call[c]
        p == LocalLeg(k)
        t == [OpenCircuits(s, c, k) EXCEPT !.netConn[c] =
                 [rep |-> "Pending", grant |-> grant, age |-> 0,
                  acked |-> ~(k.brew = "in" /\ k.duplex /\ grant = "Granted")]]
    IN  Say(t, c, k, p, grant)

\* fsm_on_network_circuit_connect_request
ConnectRequest(c, grant) ==
    /\ Spend
    /\ call[c] # None /\ call[c].brew = "out" /\ call[c].st # "Active"
    /\ Commit(SendNetworkConnect(Now, c, grant))

\* fsm_on_network_circuit_connect_confirm: answers our request, in which we
\* asked for the floor to be given to the calling side, or comes before it.
ConnectConfirm(c, grant) ==
    /\ Spend
    /\ call[c] # None /\ call[c].brew = "in" /\ call[c].st # "Active" /\ call[c].ctx
    /\ Commit(SendNetworkConnect(Now, c, IF call[c].asked /\ ~call[c].duplex
                                         THEN "GrantedToOtherUser" ELSE grant))

\* pending_network_individual_connect_can_complete_on_tx
CompletesOnTx(k, grant) ==
    IF k.duplex THEN grant = "Granted"
    ELSE grant = IF k.brew = "in" THEN "GrantedToOtherUser" ELSE "Granted"

\* complete_pending_network_individual_connect with apply_brew_simplex_initial_floor
ActivateNetwork(s, c, grant) ==
    LET k == s.call[c]
        p == LocalLeg(k)
        t == [Activate(s, c) EXCEPT !.netConn[c] = None, !.brew[c] = "connected",
                !.call[c].holder = IF k.duplex THEN None
                                   ELSE CASE grant = "Granted" -> p
                                          [] grant = "GrantedToOtherUser" -> Remote
                                          [] OTHER -> None]
    IN  IF ~k.duplex /\ grant = "Granted" THEN UmacFloor(t, k, p, p) ELSE t

\* drain_pending_network_individual_connects
DrainNetworkConnect(s, c) ==
    LET n == s.netConn[c]
        k == s.call[c]
    IN  IF n = None THEN s
        ELSE IF \/ n.rep = "Acknowledged"
                \/ CompletesOnTx(k, n.grant) /\ Transmitted(n.rep)
        THEN ActivateNetwork(s, c, n.grant)
        ELSE IF Final(n.rep, n.acked) \/ n.age >= GuardTime
        THEN BeginRelease([s EXCEPT !.netConn[c] = None], c, None, TRUE)
        ELSE s

\* The floor moves and leaves a pending tail drain behind.
Lapse(s, c) == [s EXCEPT !.lapsed = IF s.tail[c] # None THEN @ \cup {c} ELSE @]

\* fsm_on_network_circuit_simplex_granted
SimplexGranted(c, grant) ==
    LET k == call[c]
        p == LocalLeg(k)
        toldLocal == Say(Lapse(Now, c), c, k, p, grant)
    IN  /\ Spend
        /\ k # None /\ k.brew # "none" /\ Speaking(k)
        /\ Commit(CASE grant = "Granted" ->
                          UmacFloor([toldLocal EXCEPT !.call[c].holder = p], k, p, p)
                     [] grant = "GrantedToOtherUser" ->
                          UmacFloor([toldLocal EXCEPT !.call[c].holder = Remote], k, p, Remote)
                     [] OTHER -> toldLocal)

\* fsm_on_network_circuit_simplex_idle
SimplexIdle(c) ==
    LET k == call[c]
    IN  /\ Spend
        /\ k # None /\ k.brew # "none" /\ Speaking(k)
        /\ k.holder \in {None, Remote}
        /\ Commit(PassFloor(Lapse(Now, c), c, k, LocalLeg(k)))

\* fsm_on_network_circuit_setup_reject, fsm_on_network_circuit_release
NetworkRelease(c) ==
    /\ Spend
    /\ call[c] # None /\ call[c].brew # "none"
    /\ Commit(BeginRelease([Now EXCEPT !.brew[c] = "released"], c, None, FALSE))

-----------------------------------------------------------------------------
(* The floor of a simplex call *)

FloorUsable(c, p) ==
    call[c] # None /\ ~ClearPending(Now, c) /\ Speaking(call[c]) /\ p \in PartiesOf(call[c])

CancelTail(s, c, p) ==
    [s EXCEPT !.tail[c] = IF @ # None /\ @.by = p THEN None ELSE @]

\* The floor is taken from its holder, and the holder's tail with it.
Preempt(s, c, k, p) ==
    [GrantFloor(CancelTail(s, c, k.holder), c, k, p) EXCEPT !.call[c].queue = None]

\* queue_tx_demand: one request is kept.
QueueDemand(s, c, k, p) ==
    IF k.queue \in {None, p}
    THEN [Say(s, c, k, p, "RequestQueued") EXCEPT !.call[c].queue = p]
    ELSE Say(s, c, k, p, "NotGranted")

\* fsm_on_u_tx_demand
TxDemand(c, p, preempts) ==
    LET k == call[c]
        s == [Now EXCEPT !.ceased = @ \ {<<c, p>>}]
    IN  /\ Spend
        /\ preempts => work.interruption
        /\ FloorUsable(c, p)
        /\ Commit(IF k.holder \in {None, p} THEN GrantFloor(CancelTail(s, c, p), c, k, p)
                  ELSE IF preempts THEN Preempt(s, c, k, p)
                  ELSE QueueDemand(s, c, k, p))

\* The caller of the parrot falls silent: play back, or nothing to play.
ParrotTurn(s, c) ==
    LET k == s.call[c]
        r == s.parrot
    IN  IF r.frames = 0
        THEN BeginRelease([s EXCEPT !.parrot.st = IF @ = "Recording" THEN "Stopped" ELSE @],
                          c, k.from, TRUE)
        ELSE IF r.st = "Recording"
        THEN UmacFloor(Say([s EXCEPT !.parrot.st = "Playing", !.call[c].holder = Parrot],
                           c, k, k.from, "GrantedToOtherUser"),
                       k, k.from, Parrot)
        ELSE s

\* fsm_on_u_tx_ceased
TxCeased(c, p) ==
    LET k == call[c]
        s == [Now EXCEPT !.ceased = @ \cup {<<c, p>>}]
    IN  /\ Spend
        /\ FloorUsable(c, p)
        /\ \/ /\ k.holder # p /\ k.queue = p
              /\ Commit([s EXCEPT !.call[c].queue = None])
           \/ /\ k.holder = p /\ k.to = Parrot
              /\ Commit(ParrotTurn(s, c))
           \/ /\ k.holder = p /\ k.to # Parrot
              /\ Commit(IF k.queue # None THEN PassFloor(Lapse(s, c), c, k, p)
                        ELSE IF s.tail[c] # None THEN s
                        ELSE [s EXCEPT !.tail[c] = [by |-> p, age |-> 0]])

\* complete_individual_tx_ceased_tail_drain
DrainTail(s, c) ==
    LET d == s.tail[c]
        k == s.call[c]
        t == [s EXCEPT !.tail[c] = None]
    IN  IF d = None THEN s
        ELSE IF d.age < TailDrain THEN s
        ELSE IF k = None THEN t
        ELSE IF Speaking(k) /\ k.holder = d.by THEN PassFloor(t, c, k, d.by)
        ELSE t

\* check_ul_inactivity: the UMAC expects uplink speech on the timeslot, not in
\* hangtime and not while it was told that the network speaks.  How long none
\* came is the choice of the action.
ExpectsSpeech(t) == umac[t].call # None /\ umac[t].floor \notin {None, Remote}

\* handle_ul_inactivity_timeout, raised by check_ul_inactivity
Inactivity(c) ==
    LET k == call[c]
        s == Lapse(Now, c)
    IN  /\ Spend
        /\ k # None /\ Speaking(k) /\ k.holder # None
        /\ ExpectsSpeech(SlotOf(k, k.holder))
        /\ Commit(IF k.to = Parrot THEN ParrotTurn(s, c)
                  ELSE PassFloor(s, c, k, k.holder))

\* handle_parrot_ul_frame
RecordFrame ==
    /\ Spend
    /\ parrot # None /\ parrot.st = "Recording" /\ parrot.frames < MaxFrames
    /\ Commit([Now EXCEPT !.parrot.frames = @ + 1])

\* drive_parrot_session
DriveParrot(s) ==
    LET r == s.parrot
    IN  IF r = None THEN s
        ELSE CASE r.st = "Playing" /\ r.frames > 0 -> [s EXCEPT !.parrot.frames = @ - 1]
               [] r.st = "Playing" /\ r.frames = 0 ->
                    [s EXCEPT !.parrot.st = "Releasing", !.parrot.age = 0]
               [] r.st = "Releasing" /\ r.age >= TailDrain ->
                    BeginRelease([s EXCEPT !.parrot.st = "Stopped"], r.call,
                                 IF s.call[r.call] = None THEN None ELSE s.call[r.call].from,
                                 TRUE)
               [] OTHER -> s

-----------------------------------------------------------------------------
(* Disconnection, deregistration, time *)

\* fsm_on_u_disconnect.  The cause is the terminal's; the one that says that
\* the SwMI asked for the disconnection keeps the release from Brew.
UDisconnect(c, p, bySwmi) ==
    LET k == call[c]
        acked == ReleaseAck(Now, c, p)
    IN  /\ Spend
        /\ \/ Late(c, p) /\ p \in PartiesOf(rel[c].call)
           \/ /\ k # None /\ p \in PartiesOf(k)
              /\ k.brew = "none" /\ k.st = "Active" /\ ~ClearPending(Now, c)
              /\ Commit(IF Simplex(k) THEN DisconnectTail(acked, c, p)
                        ELSE PeerRelease(acked, c, Peer(k, p)))
           \/ /\ k # None /\ p \in PartiesOf(k)
              /\ k.brew # "none" \/ k.st # "Active"
              /\ Commit(BeginRelease(IF bySwmi /\ k.brew # "none"
                                     THEN [Now EXCEPT !.brew[c] = "untold"] ELSE Now,
                                     c, None, ~bySwmi))

\* The calls of a terminal that deregisters, attaches anew or is put off the
\* cell (kick_ms) are released; after a new attach it stays registered.
Detach(p, stays) ==
    /\ Spend
    /\ p \in registered
    /\ LET Drop(s, c) == IF s.call[c] # None /\ p \in PartiesOf(s.call[c])
                         THEN BeginRelease(s, c, None, TRUE) ELSE s
       IN  Commit([OverCalls(Drop, Now) EXCEPT
                     !.registered = IF stays THEN @ ELSE @ \ {p}])

Older(r) == IF r = None THEN None ELSE [r EXCEPT !.age = @ + 1]
AgeAll(s) ==
    [s EXCEPT
        !.call = [c \in Ids |-> IF @[c] = None \/ (@[c].duplex /\ @[c].st = "Active")
                                THEN @[c] ELSE Older(@[c])],
        !.connAck = [c \in Ids |-> Older(@[c])], !.netConn = [c \in Ids |-> Older(@[c])],
        !.tail = [c \in Ids |-> Older(@[c])], !.dtail = [c \in Ids |-> Older(@[c])],
        !.relAck = [c \in Ids |-> IF @[c] = None \/ @[c].age = GuardTime THEN @[c]
                                  ELSE Older(@[c])],
        !.rel = [c \in Ids |-> Older(@[c])],
        !.parrot = IF @ # None /\ @.st = "Releasing" THEN Older(@) ELSE @]

\* check_call_timeout_expiry, then check_individual_setup_timeout
DrainCallTime(s, c) ==
    IF s.call[c] # None /\ Speaking(s.call[c]) /\ s.call[c].age >= CallTime
    THEN BeginRelease(s, c, None, TRUE) ELSE s
DrainSetupTime(s, c) ==
    IF s.call[c] # None /\ s.call[c].st # "Active" /\ s.call[c].age >= SetupTime
    THEN BeginRelease(s, c, None, TRUE) ELSE s

\* tick_start
Ticked(s) ==
    LET a == OverCalls(DrainTail, AgeAll(s))
        b == OverCalls(DrainDisconnectTail, a)
        d == OverCalls(CompleteDisconnect, OverCalls(DrainRelease, b))
        e == OverCalls(DrainNetworkConnect, OverCalls(DrainConnectAck, d))
    IN  OverCalls(DrainSetupTime, OverCalls(DrainCallTime, DriveParrot(e)))

InUse == \E c \in Ids : call[c] # None \/ rel[c] # None

Tick == InUse /\ Commit(Ticked(Now)) /\ UNCHANGED work

\* SendClose of tick_start: the release of a live call carries the circuit; the
\* close is suppressed while a release is pending.
Expire(s, c) ==
    IF s.rel[c] # None THEN [s EXCEPT !.stale[c] = "gone"]
    ELSE BeginRelease([s EXCEPT !.stale[c] = "carried"], c, None, TRUE)

\* A tick at whose end close_expired_circuits finds the circuit of a call too
\* old.  The circuit of a call set up as duplex does not expire.
TickExpired(c) ==
    LET s == Ticked(Now)
    IN  /\ Spend
        /\ stale[c] = "no" /\ ~work.duplex
        /\ s.call[c] # None \/ s.rel[c] # None
        /\ Commit(Expire(s, c))

-----------------------------------------------------------------------------
(* What becomes of a PDU that carries a reporter *)

Outcomes(r, acked) ==
    CASE r = "Pending" -> {"Transmitted", "Discarded"}
      [] r = "Transmitted" /\ acked -> {"Acknowledged", "Lost"}
      [] OTHER -> {}

Charge(r) == IF r \in {"Discarded", "Lost"}
             THEN work.losses > 0 /\ work' = [work EXCEPT !.losses = @ - 1]
             ELSE UNCHANGED work

Hear(s, c, p, r) == [s EXCEPT !.heard[c] = IF Transmitted(r) THEN @ \cup {<<p, r>>} ELSE @]

ReportConnect(c) ==
    /\ connAck[c] # None
    /\ \E r \in Outcomes(connAck[c].rep, connAck[c].acked) :
          /\ Charge(r)
          /\ Commit(Hear([Now EXCEPT !.connAck[c].rep = r], c,
                         IF connAck[c].leg = "called" THEN call[c].to ELSE call[c].from, r))
ReportNetworkConnect(c) ==
    /\ netConn[c] # None
    /\ \E r \in Outcomes(netConn[c].rep, netConn[c].acked) :
          /\ Charge(r)
          /\ Commit(Hear([Now EXCEPT !.netConn[c].rep = r], c, LocalLeg(call[c]), r))
ReportRelease(c) ==
    /\ rel[c] # None
    /\ \E p \in DOMAIN rel[c].reports :
          \E r \in Outcomes(rel[c].reports[p], FALSE) :
             Charge(r) /\ Commit([Now EXCEPT !.rel[c].reports[p] = r])
ReportDisconnect(c) ==
    /\ relAck[c] # None
    /\ \/ \E r \in Outcomes(relAck[c].own, FALSE) :
             Charge(r) /\ Commit([Now EXCEPT !.relAck[c].own = r])
       \/ /\ relAck[c].peer # None
          /\ \E r \in Outcomes(relAck[c].peer, FALSE) :
                Charge(r) /\ Commit([Now EXCEPT !.relAck[c].peer = r])

-----------------------------------------------------------------------------
Nowhere == [c \in Ids |-> None]

Init ==
    /\ work \in Workloads
    /\ call = Nowhere /\ connAck = Nowhere /\ netConn = Nowhere /\ tail = Nowhere
    /\ dtail = Nowhere /\ relAck = Nowhere /\ rel = Nowhere
    /\ owner = [t \in Slots |-> None]
    /\ umac = [t \in Slots |-> [call |-> None, floor |-> None]]
    /\ stale = [c \in Ids |-> "no"]
    /\ parrot = None /\ echo = None /\ registered = Terminals
    /\ brew = [c \in Ids |-> "none"]
    /\ said = [c \in Ids |-> [p \in Parties |-> None]]
    /\ told = [c \in Ids |-> {}] /\ heard = [c \in Ids |-> {}]
    /\ ceased = {} /\ lapsed = {} /\ ever = Nowhere

Setup ==
    \E p \in Terminals :
       \/ \E q \in Terminals : SetupLocal(p, q)
       \/ SetupOverBrew(p) \/ SetupParrot(p) \/ SetupEcho(p) \/ NetworkSetup(p)

TerminalMoves ==
    \E c \in Ids, p \in Terminals :
       \/ UAlert(c, p) \/ UConnect(c, p) \/ TxCeased(c, p)
       \/ \E bySwmi \in BOOLEAN : UDisconnect(c, p, bySwmi)
       \/ \E preempts \in BOOLEAN : TxDemand(c, p, preempts)

NetworkMoves ==
    \E c \in Ids :
       \/ NetworkAlert(c) \/ NetworkRelease(c) \/ SimplexIdle(c)
       \/ \E g \in NetGrants : ConnectRequest(c, g) \/ ConnectConfirm(c, g)
       \/ \E g \in NetGrants : SimplexGranted(c, g)

CellMoves ==
    \/ \E p \in Terminals, stays \in BOOLEAN : Detach(p, stays)
    \/ \E c \in Ids : Inactivity(c) \/ TickExpired(c)
    \/ RecordFrame

Delivery ==
    \E c \in Ids : \/ ReportConnect(c) \/ ReportNetworkConnect(c)
                   \/ ReportRelease(c) \/ ReportDisconnect(c)

Next == Setup \/ TerminalMoves \/ NetworkMoves \/ CellMoves \/ Delivery \/ Tick

\* The router calls tick_start once a timeslot, whatever else happens; nothing
\* is assumed of the terminals, of the network or of the delivery reports.
TickFairness == []<>~InUse \/ []<><<Tick>>_vars

Spec == Init /\ [][Next]_vars /\ TickFairness

-----------------------------------------------------------------------------
(* Properties *)

Gone(c) == ever[c] # None /\ call[c] = None /\ rel[c] = None

-----------------------------------------------------------------------------
(* The types of the tables *)

CallStates == SetupStates \cup ConnectAckPending \cup {"Active"}
Calls ==
    [from : Parties, to : Parties, duplex : BOOLEAN, first : {"from", "to"},
     offer : BOOLEAN, st : CallStates, cts : Slots, dts : Slots, age : Nat,
     brew : {"none", "out", "in"}, asked : BOOLEAN, ctx : BOOLEAN,
     holder : Parties \cup {None}, queue : Parties \cup {None}]

\* The deliveries a call waits for.  Every age is below its limit whenever no
\* handler is running, since tick_start looks at each entry.
ConnectAcks == [leg : {"called", "caller"}, tries : 1 .. CalledTries + CallerTries,
                rep : Reports, age : 0 .. GuardTime - 1, acked : BOOLEAN]
NetworkConnects == [rep : Reports, grant : NetGrants, age : 0 .. GuardTime - 1,
                    acked : BOOLEAN]
TailDrains == [by : Parties, age : 0 .. TailDrain - 1]
DisconnectTailDrains == [by : Parties, age : 0 .. TailDrain - 1]
ReleaseAcks == [to : Parties, own : Reports, peer : Reports \cup {None},
                age : 0 .. GuardTime]
Releases == [call : Calls, age : 0 .. GuardTime - 1, notify : BOOLEAN,
             reports : UNION {[S -> Reports] : S \in SUBSET Parties}]

\* The built-in services have one session each; the frames are counted.
ParrotSessions == [call : Ids, st : {"Recording", "Playing", "Releasing", "Stopped"},
                   frames : 0 .. MaxFrames, age : Nat]
EchoSessions == Ids

\* The tables keep their types, a call is live or being released and never
\* both, and the ages stay within their timers.
TypeOK ==
    /\ \A c \in Ids :
         /\ call[c] \in Calls \cup {None}
         /\ call[c] # None =>
              /\ rel[c] = None
              /\ {call[c].holder, call[c].queue} \subseteq PartiesOf(call[c]) \cup {None}
         /\ connAck[c] \in ConnectAcks \cup {None}
         /\ netConn[c] \in NetworkConnects \cup {None}
         /\ tail[c] \in TailDrains \cup {None}
         /\ dtail[c] \in DisconnectTailDrains \cup {None}
         /\ relAck[c] \in ReleaseAcks \cup {None}
         /\ rel[c] \in Releases \cup {None}
         /\ brew[c] \in {"none", "setup", "requested", "connected", "released", "untold"}
         /\ stale[c] \in {"no", "carried", "gone"}
    /\ parrot \in ParrotSessions \cup {None} /\ echo \in EchoSessions \cup {None}
    /\ \A t \in Slots : owner[t] \in Ids \cup {None} /\ umac[t].call \in Ids \cup {None}
    /\ registered \subseteq Terminals

\* A timeslot is held by exactly the call that lists it, live or waiting for
\* its D-RELEASE to be sent, and the UMAC has an open circuit on every slot of
\* a connected call: no order of answers, expiries and clearings gives a bearer
\* to two calls.  The UMAC keeps the circuit of a call that no longer holds the
\* slot only where the circuit expired while the call's release was pending
\* (complete_individual_release_cleanup, begin_individual_release, SendClose).
SlotsAccounted ==
    \A t \in Slots :
       LET c == owner[t]
       IN  /\ umac[t].call \notin {None, c} =>
                 Gone(umac[t].call) /\ stale[umac[t].call] = "gone"
           /\ \A d \in Ids : /\ (call[d] # None /\ t \in SlotsOf(call[d])) => c = d
                             /\ (rel[d] # None /\ t \in SlotsOf(rel[d].call)) => c = d
           /\ c # None =>
                 IF call[c] # None
                 THEN /\ t \in SlotsOf(call[c])
                      /\ HasAssignedCircuit(call[c]) => umac[t].call = c
                 ELSE rel[c] # None /\ t \in SlotsOf(rel[c].call)

\* However a call ended, every terminal in it was sent D-RELEASE for it.
NobodyForgotten == \A c \in Ids : Gone(c) => ever[c] \subseteq told[c]

\* A call of the Brew network that is gone here was released there, by the
\* network itself or by a release sent to it, unless the terminal disconnected
\* it in the SwMI's name; and a leg Brew believes connected belongs to a call
\* that is active or on its way out.
BrewLegClosed ==
    \A c \in Ids :
       /\ Gone(c) => brew[c] \in {"none", "released", "untold"}
       /\ brew[c] = "connected" =>
             rel[c] # None \/ (call[c] # None /\ call[c].st = "Active")

\* In a simplex call at most one terminal was last told that it may transmit,
\* and once the call is active that terminal holds the floor.
OneSpeaker ==
    \A c \in Ids :
       LET k == call[c]
           speakers == {p \in Terminals : said[c][p] = "Granted"}
       IN  k # None /\ ~k.duplex =>
             /\ Cardinality(speakers) <= 1
             /\ (k.st = "Active" /\ netConn[c] = None) => speakers \subseteq {k.holder}

\* The floor as the UMAC knows it is the floor of the call: a local speaker's
\* uplink is watched, and a free floor is in hangtime.  Only the state the
\* circuit was opened in may stand in for a remote speaker or a free floor.
UmacFollowsFloor ==
    \A c \in Ids :
       LET k == call[c]
       IN  k # None /\ Speaking(k) =>
             \A t \in SlotsOf(k) :
                umac[t].floor = k.holder \/ (umac[t].floor = "open" /\ k.holder \notin Terminals)

\* The side tables never outlive the state that explains them: a delivery
\* guard belongs to the leg being connected, a network connect to a Brew call
\* that is not yet active, a tail or a disconnection to an active call.
GuardsBacked ==
    \A c \in Ids :
       LET k == call[c]
       IN  /\ connAck[c] # None <=> k # None /\ k.st \in ConnectAckPending
           /\ connAck[c] # None => (connAck[c].leg = "called" <=>
                                      k.st = "CalledConnectAckPending")
           /\ netConn[c] # None => k # None /\ k.brew # "none" /\ k.st \in SetupStates
           /\ {tail[c], dtail[c], relAck[c]} # {None} => k # None /\ k.st = "Active"
           /\ parrot # None => call[parrot.call] # None \/ rel[parrot.call] # None

\* No terminal is in two individual calls at once, a call whose release is
\* still being sent included (find_individual_call_by_issi).
OneCallEach ==
    \A p \in Terminals :
       Cardinality({c \in Ids : \/ call[c] # None /\ p \in PartiesOf(call[c])
                                \/ rel[c] # None /\ p \in PartiesOf(rel[c].call)}) <= 1

\* A call between two terminals becomes active only after the called one was
\* reached by D-CONNECT-ACK (acknowledged if duplex) and the caller
\* acknowledged D-CONNECT: nobody speaks into a bearer the peer has not got.
ConnectedInOrder ==
    \A c \in Ids :
       LET k == call[c]
       IN  k # None /\ k.st = "Active" /\ PartiesOf(k) \subseteq Terminals =>
             /\ <<k.from, "Acknowledged">> \in heard[c]
             /\ <<k.to, IF k.duplex THEN "Acknowledged" ELSE "Transmitted">> \in heard[c]

\* A tail drain that can still take the floor from its speaker belongs to a
\* speaker who has not asked for it again since they fell silent, unless the
\* floor was moved during the tail by inactivity, by the network or by a
\* repeated U-TX-CEASED.
TailIsCurrent ==
    \A c \in Ids :
       /\ tail[c] # None /\ call[c].holder = tail[c].by /\ c \notin lapsed
       => <<c, tail[c].by>> \in ceased

\* Whatever is lost or never answered, a set-up ends in an active call or in
\* no call, and a release, a disconnection and a draining tail end.
Unsettled(c) ==
    \/ call[c] # None /\ call[c].st # "Active"
    \/ {rel[c], relAck[c], tail[c]} # {None}
Settles == \A c \in Ids : []<>~Unsettled(c)

\* The tables of the call control tell one story: bearers, guards, tails and parties of a
\* call belong to it and to no other.
CallsConsistent ==
    /\ TypeOK
    /\ SlotsAccounted
    /\ GuardsBacked
    /\ OneCallEach
    /\ ConnectedInOrder
    /\ TailIsCurrent

\* The end of a call reaches everybody in it, the terminals and the network.
EverybodyReleased ==
    /\ NobodyForgotten
    /\ BrewLegClosed

\* The floor of a simplex call is one: as the terminals were told and as the UMAC has it.
FloorConsistent ==
    /\ OneSpeaker
    /\ UmacFollowsFloor
=============================================================================

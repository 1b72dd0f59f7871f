------------------------------ MODULE BrewGroup ------------------------------
(***************************************************************************)
(* Group calls in the Brew entity (net_brew/entity.rs), the gateway to the *)
(* TetraPack server.  Speech of a network session goes to the bearer CMCE  *)
(* reported for it; speech of a local call is forwarded in a session that  *)
(* Brew opens at the server with GROUP_TX and closes with GROUP_IDLE.      *)
(***************************************************************************)
EXTENDS GroupCall

CONSTANT Arbitrated  \* the server has at most one session per group

VARIABLES
    connected,  \* the backhaul is up
    active,     \* active_calls: the network sessions
    hanging,    \* hanging_calls: per group, the session last ended
    fwd,        \* ul_forwarded: per bearer, the speaker forwarded to the server
    server      \* per bearer, the speaker of the session open at the server

brewVars == <<connected, active, hanging, fwd, server>>

Session == [issi : Remotes, group : Groups, bearer : Bearers \cup {None}, ready : BOOLEAN]
Hanging == [uuid : Uuids, bearer : Bearers]

ASSUME BrewAssumption ==
    /\ IsFiniteSet(Remotes) /\ IsFiniteSet(Uuids)
    /\ Arbitrated \in BOOLEAN
    /\ None \notin Session \cup Hanging

BrewTypeOK ==
    /\ connected \in BOOLEAN
    /\ active \in [Uuids -> Session \cup {None}]
    /\ hanging \in [Groups -> Hanging \cup {None}]
    /\ fwd \in [Bearers -> Issis \cup {None}]
    /\ server \in [Bearers -> Issis \cup {None}]

BrewInit ==
    /\ connected = FALSE
    /\ active = [u \in Uuids |-> None]
    /\ hanging = [g \in Groups |-> None]
    /\ fwd = [b \in Bearers |-> None]
    /\ server = [b \in Bearers |-> None]

ToCmce(type, x) == [to |-> "cmce", type |-> type, bearer |-> None, arg |-> x]
Send(out) == mq' = mq \o out

HasSession(g) == \E v \in Uuids : active[v] # None /\ active[v].group = g

-----------------------------------------------------------------------------
(* Events from the server (process_events) *)

\* BrewEvent::Connected.
Connect ==
    /\ ~connected
    /\ connected' = TRUE
    /\ UNCHANGED <<active, hanging, fwd, server, mq>>

\* BrewEvent::Disconnected and release_all_calls; the server forgets the sessions.
Disconnect ==
    /\ Quiet
    /\ connected
    /\ connected' = FALSE
    /\ active' = [u \in Uuids |-> None]
    /\ hanging' = [g \in Groups |-> None]
    /\ fwd' = [b \in Bearers |-> None]
    /\ server' = [b \in Bearers |-> None]
    /\ LET ended == {u \in Uuids : active[u] # None}
       IN  Send(SetToSeq({ToCmce("Deregister", [issi |-> a[1], group |-> a[2]]) : a \in ext})
                \o SetToSeq({ToCmce("NetworkCallEnd", u) : u \in ended}))

\* handle_group_call_start: a change of speaker in a known session, or a session Brew
\* does not know (a new one, or one it gave up and the server goes on with), which
\* takes over the resources of the one that hangs.
GroupTx(n) ==
    LET u == n.uuid
        h == hanging[n.group]
        known == active[u] # None /\ active[u].group = n.group /\ active[u].issi # n.issi
    IN  /\ Quiet
        /\ connected
        /\ \/ known
                /\ active' = [active EXCEPT ![u].issi = n.issi, ![u].ready = FALSE]
                /\ UNCHANGED hanging
           \/ active[u] = None
                /\ (Arbitrated => ~HasSession(n.group))
                /\ active' = [active EXCEPT ![u] =
                                [issi |-> n.issi, group |-> n.group, ready |-> h # None,
                                 bearer |-> IF h = None THEN None ELSE h.bearer]]
                /\ hanging' = [hanging EXCEPT ![n.group] = None]
        /\ Send(<<ToCmce("NetworkCallStart", n)>>)
        /\ UNCHANGED <<connected, fwd, server>>

\* handle_group_call_end: the session hangs if it had resources.
GroupIdle(u) ==
    /\ Quiet
    /\ active[u] # None
    /\ active' = [active EXCEPT ![u] = None]
    /\ hanging' = IF active[u].bearer = None THEN hanging
                  ELSE [hanging EXCEPT ![active[u].group] =
                          [uuid |-> u, bearer |-> active[u].bearer]]
    /\ Send(<<ToCmce("NetworkCallEnd", u)>>)
    /\ UNCHANGED <<connected, fwd, server>>

-----------------------------------------------------------------------------
(* Timers *)

\* release_zero_media_network_calls: a speaker who was given the floor and sent no
\* speech.
ReleaseZeroMedia(u) ==
    /\ Quiet
    /\ active[u] # None /\ active[u].ready
    /\ active' = [active EXCEPT ![u] = None]
    /\ Send(<<ToCmce("NetworkCallEnd", u)>>)
    /\ UNCHANGED <<connected, hanging, fwd, server>>

\* expire_hanging_calls.
ExpireHanging(g) ==
    /\ hanging[g] # None
    /\ hanging' = [hanging EXCEPT ![g] = None]
    /\ UNCHANGED <<connected, active, fwd, server, mq>>

-----------------------------------------------------------------------------
(* Messages from CMCE (rx_prim) *)

\* handle_local_call_start: GROUP_TX, in the session of the bearer if it has one.
LocalCallStart(b, i) ==
    /\ fwd' = IF connected THEN [fwd EXCEPT ![b] = i] ELSE fwd
    /\ server' = IF connected THEN [server EXCEPT ![b] = i] ELSE server
    /\ UNCHANGED <<connected, active, hanging>>

\* handle_local_call_tx_stopped: GROUP_IDLE.
LocalCallTxStopped(b) ==
    /\ fwd' = [fwd EXCEPT ![b] = None]
    /\ server' = IF fwd[b] = None THEN server ELSE [server EXCEPT ![b] = None]
    /\ UNCHANGED <<connected, active, hanging>>

\* handle_local_call_end: the server is not told.
LocalCallEnd(b) ==
    /\ fwd' = [fwd EXCEPT ![b] = None]
    /\ UNCHANGED <<connected, active, hanging, server>>

\* Fault: a session keeps the resources it took over.
NetworkCallReadyOnce(b, u, q) ==
    /\ IF active[u] # None
       THEN active' = [active EXCEPT ![u].bearer = IF @ = None THEN b ELSE @, ![u].ready = TRUE]
            /\ mq' = q
       ELSE mq' = q \o <<ToCmce("NetworkCallEnd", u)>> /\ UNCHANGED active
    /\ UNCHANGED <<connected, hanging, fwd, server>>

\* rx_network_call_ready: a session that is gone is ended in CMCE as well.
NetworkCallReady(b, u, q) ==
    /\ IF active[u] # None
       THEN active' = [active EXCEPT ![u].bearer = b, ![u].ready = TRUE] /\ mq' = q
       ELSE mq' = q \o <<ToCmce("NetworkCallEnd", u)>> /\ UNCHANGED active
    /\ UNCHANGED <<connected, hanging, fwd, server>>

\* drop_network_call.
DropNetworkCall(u) ==
    /\ active' = [active EXCEPT ![u] = None]
    /\ hanging' = [g \in Groups |->
                     IF \/ active[u] # None /\ active[u].group = g
                        \/ active[u] = None /\ hanging[g] # None /\ hanging[g].uuid = u
                     THEN None ELSE hanging[g]]
    /\ UNCHANGED <<connected, fwd, server>>

BrewReceives(m, q) ==
    \/ m.type = "FloorGranted" /\ LocalCallStart(m.bearer, m.arg) /\ mq' = q
    \/ m.type = "FloorReleased" /\ LocalCallTxStopped(m.bearer) /\ mq' = q
    \/ m.type = "CallEnded" /\ LocalCallEnd(m.bearer) /\ mq' = q
    \/ m.type = "NetworkCallReady" /\ NetworkCallReady(m.bearer, m.arg, q)
    \/ m.type = "NetworkCallEnd" /\ DropNetworkCall(m.arg) /\ mq' = q
=============================================================================

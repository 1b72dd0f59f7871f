------------------------------ MODULE SndcpPdp -----------------------------
(***************************************************************************)
(* The PDP contexts of the terminals and their SNDCP state machines        *)
(* (sndcp/context.rs, pdp_service.rs, state.rs, bearer.rs), and what the   *)
(* WAP session (wap_session.rs, wap_gateway.rs) answers to each PDU.       *)
(*                                                                         *)
(* Fields of s used here: ctx, the address of each context of a terminal   *)
(* by NSAPI; sm, its state machine, where having none is being Idle with   *)
(* no context.  The three timers of a machine follow its state and nobody  *)
(* waits for them; secondary contexts, IPv6 and mobile IPv4 are refused by *)
(* the policy the service runs with; of the type of the terminal only the  *)
(* refused one matters.  An operation returns the state and the answer r,  *)
(* of which Silent is none and Dropped an error.                           *)
(***************************************************************************)
EXTENDS Lists, Integers

CONSTANTS
    Issis, Nsapis,
    Pool,          \* the hosts of dynamic_ipv4_pool
    AllowStatic,   \* allow_static_ipv4
    MaxContexts,   \* max_contexts_per_issi
    None

Machine == [st : {"Idle", "Standby", "Ready"}, n : Nat]
Links == {0, 1}   \* SNDCP_BASIC_LINK_ID and an advanced link
Session == [link : Links, st : {"CommonControl", "PdchReady", "RadioResourceLost"}]

ASSUME PdpAssumption ==
    /\ IsFiniteSet(Issis) /\ IsFiniteSet(Nsapis) /\ Pool \subseteq Nat /\ IsFiniteSet(Pool)
    /\ AllowStatic \in BOOLEAN /\ MaxContexts \in Nat
    /\ None \notin Machine \cup Session \cup {"Replace", "QuitAndGo"}

Idle == [st |-> "Idle", n |-> 0]
NoContext == [n \in {} |-> None]

Say(s, r) == [s |-> s, r |-> r]
Silent == [k |-> "Silent"]
Dropped == [k |-> "Dropped"]
Refuse(cause) == [k |-> "ActivateReject", cause |-> cause]
Accepted(nsapi) == [k |-> "Accepted", nsapi |-> nsapi]
Rejected(nsapi, cause) == [k |-> "Rejected", nsapi |-> nsapi, cause |-> cause]

------------------------------------------------------------------------------
(* SwmiSndcpStateMachine: the machine after the event, None when it is     *)
(* refused.                                                                *)
ActivatePdpContext(m) ==
    IF m.n > 0 THEN [m EXCEPT !.n = @ + 1]
    ELSE IF m.st = "Idle" THEN [st |-> "Standby", n |-> 1] ELSE None
DeactivatePdpContext(m) ==
    CASE m.n = 0 -> None
      [] m.n > 1 -> [m EXCEPT !.n = @ - 1]
      [] OTHER -> IF m.st = "Standby" THEN Idle ELSE None
DataTransmitRequestReceived(m) ==
    IF m.n > 0 /\ m.st = "Standby" THEN [m EXCEPT !.st = "Ready"] ELSE None
PacketDataTransferred(m) == IF m.n > 0 /\ m.st = "Ready" THEN m ELSE None
EndOfDataReceived(m) == IF m.st = "Ready" THEN [m EXCEPT !.st = "Standby"] ELSE None
ReconnectReceived(m) == EndOfDataReceived(m)
ReconnectWithoutDataReceived(m) ==
    IF m.n > 0 /\ m.st # "Idle" THEN [m EXCEPT !.st = "Standby"] ELSE None

\* Apply the event to the terminal's machine; the state is kept when it is refused.
Into(s, i, m) == IF m = None THEN s ELSE [s EXCEPT !.sm[i] = m]

------------------------------------------------------------------------------
(* SndcpPdpService                                                         *)
AnyIpv4Context(s, addr) ==
    \E i \in Issis : \E n \in DOMAIN s.ctx[i] : s.ctx[i][n] = addr
AllocateDynamicIpv4(s) ==
    LET free == {a \in Pool : ~ AnyIpv4Context(s, a)} IN IF free = {} THEN None ELSE Min(free)

\* build_context_and_accept: the address given, or why none is.
BuildContext(s, want) ==
    CASE want.t = "Static" ->
           (CASE ~ AllowStatic \/ want.a \notin Pool -> Refuse("StaticAddressNotAllowed")
              [] AllowStatic /\ want.a \in Pool /\ AnyIpv4Context(s, want.a) ->
                   Refuse("StaticAddressInUse")
              [] OTHER -> [k |-> "ActivateAccept", addr |-> want.a])
      [] want.t = "Dynamic" ->
           (IF AllocateDynamicIpv4(s) = None THEN Refuse("DynamicAddressPoolEmpty")
            ELSE [k |-> "ActivateAccept", addr |-> AllocateDynamicIpv4(s)])
      [] OTHER -> Refuse(want.t)

\* accept_for_existing_context: a terminal that activates again gets what it has.
Reusable(c, want) == want.t = "Dynamic" \/ (want.t = "Static" /\ want.a = c)

AddContext(s, i, n, c) == [s EXCEPT !.ctx[i] = Insert(@, n, c)]

HandleActivateDemand(s, i, d) ==
    LET has == d.nsapi \in DOMAIN s.ctx[i]
        c == s.ctx[i][d.nsapi]
        new == BuildContext(s, d.want)
        m == ActivatePdpContext(s.sm[i])
    IN  CASE d.ms = "D" -> Say(s, Refuse("PacketDataMsTypeNotSupported"))
          [] d.ms # "D" /\ has ->
               IF Reusable(c, d.want)
               THEN Say(s, [k |-> "ActivateAccept", addr |-> c])
               ELSE Say(s, Refuse("Undefined"))
          [] d.ms # "D" /\ ~ has /\ Cardinality(DOMAIN s.ctx[i]) >= MaxContexts ->
               Say(s, Refuse("MaximumNumberOfPdpContextsPerItsiExceeded"))
          [] OTHER ->
               IF new.k = "ActivateReject" THEN Say(s, new)
               ELSE Say(Into(AddContext(s, i, d.nsapi, new.addr), i, m),
                        IF m = None THEN Dropped ELSE new)

\* As many deactivations as contexts were removed, up to the first refused.
Deactivated(m, n) ==
    LET after[j \in 0 .. n] ==
          IF j = 0 THEN m
          ELSE IF DeactivatePdpContext(after[j - 1]) = None THEN after[j - 1]
          ELSE DeactivatePdpContext(after[j - 1])
    IN  after[n]

HandleDeactivateDemand(s, i, d) ==
    LET gone == IF d.nsapi = None THEN DOMAIN s.ctx[i] ELSE {d.nsapi} \cap DOMAIN s.ctx[i]
        left == [n \in DOMAIN s.ctx[i] \ gone |-> s.ctx[i][n]]
    IN  Say([s EXCEPT !.ctx[i] = left, !.sm[i] = Deactivated(@, Cardinality(gone))],
            [k |-> "DeactivateAccept", nsapi |-> d.nsapi])

DeregisterIssi(s, i) == [s EXCEPT !.ctx[i] = NoContext, !.sm[i] = Idle]

------------------------------------------------------------------------------
(* SndcpBearerManager and SndcpWapSession                                  *)
MarkReadyBearerTemporarilyBroken(s, i) ==
    IF s.sm[i].st = "Ready" THEN Into(s, i, ReconnectWithoutDataReceived(s.sm[i])) ELSE s

HandleMsDataTransmitRequest(s, i, nsapi) ==
    LET m == DataTransmitRequestReceived(s.sm[i])
    IN  CASE nsapi \notin DOMAIN s.ctx[i] -> Say(s, Rejected(nsapi, "UnknownNsapi"))
          [] nsapi \in DOMAIN s.ctx[i] /\ m = None ->
               Say(s, Rejected(nsapi, IF s.sm[i].n = 0 THEN "UnknownNsapi" ELSE "Undefined"))
          [] OTHER -> Say(Into(s, i, m), Accepted(nsapi))

\* recover_missing_wap_ipv4_context_for_ms_transfer: the terminal thinks it has a
\* context; it is given a new one when it can be.
RecoverMissingContext(s, i, nsapi) ==
    IF nsapi \in DOMAIN s.ctx[i] THEN Say(s, Silent)
    ELSE HandleActivateDemand(s, i, [nsapi |-> nsapi, want |-> [t |-> "Dynamic"], ms |-> "A"])

HandleDataTransmitRequest(s, i, nsapi) ==
    LET c == RecoverMissingContext(s, i, nsapi)
    IN  IF c.r = Dropped THEN c ELSE HandleMsDataTransmitRequest(c.s, i, nsapi)

HandleEndOfData(s, i, immediate) ==
    LET m == EndOfDataReceived(s.sm[i])
    IN  IF m = None THEN Say(s, Dropped)
        ELSE Say(Into(s, i, m), IF immediate THEN Silent ELSE [k |-> "EndOfData"])

\* handle_reconnect_received of the bearer, once the context is known.
ReconnectWithData(s, i, nsapi) ==
    LET m == ReconnectReceived(s.sm[i])
        again == DataTransmitRequestReceived(m)
    IN  IF m = None THEN Say(s, Dropped)
        ELSE IF again = None THEN Say(Into(s, i, m), Dropped)
        ELSE Say(Into(s, i, again), Accepted(nsapi))

HandleReconnect(s, i, nsapi) ==
    LET m == ReconnectWithoutDataReceived(s.sm[i])
    IN  IF nsapi = None
        THEN IF s.sm[i].st = "Idle" /\ DOMAIN s.ctx[i] = {} THEN Say(s, Silent)
             ELSE IF m = None THEN Say(s, Dropped) ELSE Say(Into(s, i, m), Silent)
        ELSE IF nsapi \notin DOMAIN s.ctx[i] THEN HandleDataTransmitRequest(s, i, nsapi)
        ELSE ReconnectWithData(s, i, nsapi)

\* The WAP gateway answers a request that comes from the address of the context;
\* it acknowledges nothing and answers no WTP acknowledgement.
HandleUnitdata(s, i, d) ==
    IF d.nsapi \notin DOMAIN s.ctx[i] \/ d.kind = "Bad" THEN Say(s, Dropped)
    ELSE IF d.src # s.ctx[i][d.nsapi] THEN Say(s, Dropped)
    ELSE IF d.kind = "WtpAck" THEN Say(s, Silent)
    ELSE IF PacketDataTransferred(s.sm[i]) = None THEN Say(s, Dropped)
    ELSE Say(s, [k |-> "Unitdata", nsapi |-> d.nsapi, tid |-> d.tid])

\* handle_inbound_pdu_response
HandleInboundPdu(s, i, d) ==
    CASE d.k = "Activate" -> HandleActivateDemand(s, i, d)
      [] d.k = "Deactivate" -> HandleDeactivateDemand(s, i, d)
      [] d.k = "Request" -> HandleDataTransmitRequest(s, i, d.nsapi)
      [] d.k = "EndOfData" -> HandleEndOfData(s, i, d.immediate)
      [] d.k = "Reconnect" -> HandleReconnect(s, i, d.nsapi)
      [] d.k = "Unitdata" -> HandleUnitdata(s, i, d)
      [] OTHER -> Say(s, Dropped)

-----------------------------------------------------------------------------
(***************************************************************************)
(* Where SNDCP believes each terminal to be (SndcpPdchManager, pdch.rs):   *)
(* on the common control channel, on the packet-data channel, or there     *)
(* without radio resources.  pdch[i] is None or the session of terminal i, *)
(* the link it last spoke on and its state.                                *)
(*                                                                         *)
(* Every endpoint is 0: the UMAC gives terminals the endpoint SNDCP last   *)
(* answered on, which it took from the UMAC.  Channel changes that the     *)
(* lower layers ask SNDCP about do not occur: the MLE and the UMAC never   *)
(* set chan_change_resp_req.                                               *)
(***************************************************************************)

On(link, st) == [link |-> link, st |-> st]

EnsureSession(s, i, link) ==
    IF s.pdch[i] = None THEN [s EXCEPT !.pdch[i] = On(link, "CommonControl")] ELSE s

\* A terminal on the packet-data channel may use any link, another only its own.
ValidEndpointLink(session, link) == session.st = "PdchReady" \/ session.link = link

Ready(s, i) == s.pdch[i] # None /\ s.pdch[i].st = "PdchReady"
MarkPdchReady(s, i, link) == [s EXCEPT !.pdch[i] = On(link, "PdchReady")]
MarkCommonControlOnLink(s, i, link) == [s EXCEPT !.pdch[i] = On(link, "CommonControl")]
DeregisterSession(s, i) == [s EXCEPT !.pdch[i] = None]

\* validate_channel_advice_and_resource_request: both directions the same number of
\* slots, at most what the terminal can do.
ResourceRequestSupported(res) == res = None \/ (res.ul = res.dl /\ res.ul <= res.full)

\* plan_swmi_unitdata_channel: None is an error.  A call in progress never stands
\* against it, as the capacity has been found to be there.
PlanUnitdataChannel(s, i, link, res) ==
    IF /\ ResourceRequestSupported(res) /\ s.sm[i].st = "Ready"
       /\ ValidEndpointLink(s.pdch[i], link) /\ s.pdch[i].st # "RadioResourceLost"
    THEN IF Ready(s, i) THEN "ExistingPdch" ELSE "NewPdchAllocation" ELSE None
\* packet_data_plan_to_lower_channel_allocation: timeslot 2, whatever was asked.
LowerChannelAllocation(plan) == IF plan = "NewPdchAllocation" THEN "Replace" ELSE None
\* attach_mvp_pdch_allocation_for_data_transmit_response: a channel the terminal has
\* is given once more.
PdchAllocation(s, i, link, res) ==
    LET plan == PlanUnitdataChannel(s, i, link, res)
    IN  IF plan = "ExistingPdch" THEN "Replace" ELSE LowerChannelAllocation(plan)

MarkCommonControl(s, i) == [s EXCEPT !.pdch[i] = On(0, "CommonControl")]
\* attach_common_control_allocation_for_end_of_data_response
ReturnToCommonControl(s, i) ==
    IF Ready(s, i) THEN [s |-> MarkCommonControl(s, i), chan |-> "QuitAndGo"]
    ELSE [s |-> s, chan |-> None]

\* handle_ltpd_configure_ind_fail_closed; a loss is acknowledged to the MLE, which
\* does nothing with it.
LossOfRadioResources(s, i) == [s EXCEPT !.pdch[i].st = "RadioResourceLost"]
RecoveryOfRadioResources(s, i) == MarkCommonControl(s, i)
=============================================================================

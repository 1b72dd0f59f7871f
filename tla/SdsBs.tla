------------------------------- MODULE SdsBs -------------------------------
(***************************************************************************)
(* Short data of the base station: CMCE's SDS subentity                    *)
(* (cmce/subentities/sds_bs.rs), the part of CmceBs that feeds it, and the *)
(* SDS part of the Brew entity (net_brew/entity.rs).                       *)
(*                                                                         *)
(* A message comes from a terminal, from the network through Brew, from a  *)
(* control command or from the weather service, and goes to a terminal, a  *)
(* group or the network.  One for a terminal that is held by a private     *)
(* call waits for the end of the call.  The network learns the outcome of  *)
(* what it sent from a transmit receipt, and the short reports of          *)
(* terminals are expanded with the protocol of the message they answer.    *)
(*                                                                         *)
(* User data is a transfer of the SDS transport layer (with its protocol,  *)
(* reference and the reports it asks for), a report, or plain data.        *)
(***************************************************************************)
EXTENDS Integers, Sequences, SequencesExt, FiniteSets, Functions, TLC

CONSTANTS
    None,
    Issis,         \* terminals of the cell, positive numbers
    Groups,        \* group addresses, positive numbers
    Broadcast,     \* the all-ones address, above every other 24-bit one
    WxIssi,        \* the weather service (effective_wx_service)
    CommandIssi,   \* 9999
    Operators,     \* authorized_issis of sds_command_control
    LocalMni,      \* the code of this network
    TextPid,       \* SDS_TL_TEXT_PROTOCOL_ID
    Uuids,         \* identities of the network's messages
    RefModulo,     \* 256: message references are octets
    ContextLimit,  \* SDS_TL_REPORT_CONTEXT_LIMIT
    DeferLimit     \* DEFERRED_INDIVIDUAL_SDS_LIMIT

VARIABLES
    registered,   \* terminals that are registered
    member,       \* which terminal is affiliated to which group
    busy,         \* terminals held by a private call
    s             \* SDS and Brew: see Idle

ValidSsi(a) == a <= Broadcast
IsRegistered(a) == a \in registered
HasGroupMembers(g) == \E i \in Issis : <<i, g>> \in member

Received == "Received"
Consumed == "Consumed"
Transfer(pid, ref, req) == [k |-> "Transfer", pid |-> pid, ref |-> ref, req |-> req]
Report(pid, ref, status) == [k |-> "Report", pid |-> pid, ref |-> ref, status |-> status]
Plain == [k |-> "Plain"]

Keys == [reporting : Issis, peer : Int, ref : 0 .. (RefModulo - 1)]

\* connected: to the network; ctx, order: the report contexts and their age; deferred:
\* what waits for the end of a call; ref: SDS_MR; kick: pending_actions; wx: the weather threads of a terminal;
\* queue: to CMCE and to Brew; receipt, air: transmit receipts and those at the lower layers;
\* pend: pending_sds_reports; told: what the network was told; out: what the last step
\* handed to the MLE or to Brew; asked: the protocol of the last transfer sent to a
\* terminal under a reference.
Idle ==
    [connected |-> TRUE, ctx |-> <<>>, order |-> <<>>, deferred |-> <<>>, ref |-> 1, kick |-> FALSE,
     wx |-> [i \in Issis |-> 0], queue |-> <<>>, receipt |-> [u \in Uuids |-> "Unused"], air |-> {},
     pend |-> {}, told |-> [u \in Uuids |-> None], out |-> <<>>, asked |-> <<>>]

Emit(t, m) == [t EXCEPT !.out = Append(@, m)]
DSdsData(src, dst, type, data, rep) ==
    [k |-> "Sds", src |-> src, dst |-> dst, type |-> type, data |-> data, rep |-> rep]
DStatus(src, dst, type) == [k |-> "Status", src |-> src, dst |-> dst, type |-> type]
FunctionNotSupported(i) == [k |-> "NotSupported", dst |-> i]

\* discard_sds_reporter: try_mark_discarded.
DiscardReporter(t, rep) ==
    IF rep = None \/ t.receipt[rep] # "Pending" THEN t
    ELSE [t EXCEPT !.receipt[rep] = "Discarded"]

------------------------------------------------------------------------------
(* Report contexts.                                                        *)
\* sds_tl_short_report_mask
ShortReportMask(kind) == IF kind \in {Received, Consumed} THEN {kind} ELSE {Received, Consumed}
Negative(kind) == kind \notin {Received, Consumed}

\* clear_sds_tl_delivery_report_request, sds_tl_without_delivery_report
WithoutDeliveryReport(data) ==
    IF data.k = "Transfer" THEN [data EXCEPT !.req = {}] ELSE data

Without(order, key) == SelectSeq(order, LAMBDA k : k # key)
EvictContexts(t) ==
    LET over == IF Cardinality(DOMAIN t.ctx) > ContextLimit
                THEN Cardinality(DOMAIN t.ctx) - ContextLimit ELSE 0
        old == {t.order[n] : n \in 1 .. over}
    IN  [t EXCEPT !.order = SubSeq(@, over + 1, Len(@)), !.ctx = Restrict(@, DOMAIN @ \ old)]

RememberReportContext(t, src, dst, type, data) ==
    IF type # "Issi" \/ data.k # "Transfer" \/ data.req = {} THEN t
    ELSE LET key == [reporting |-> dst, peer |-> src, ref |-> data.ref]
             new == [pid |-> data.pid, req |-> data.req, conv |-> {}]
         IN  EvictContexts([t EXCEPT !.ctx = (key :> new) @@ @,
                                     !.order = Append(Without(@, key), key),
                                     !.asked = (key :> data.pid) @@ @])

\* take_sds_tl_report_protocol_id, when there is a context.
TakeReportContext(t, key, kind) ==
    LET c == t.ctx[key]
        conv == c.conv \cup ShortReportMask(kind)
    IN  IF c.req \subseteq conv \/ ShortReportMask(kind) \cap c.req = {} \/ Negative(kind)
        THEN [t EXCEPT !.ctx = Restrict(@, DOMAIN @ \ {key}), !.order = Without(@, key)]
        ELSE [t EXCEPT !.ctx[key].conv = conv]

------------------------------------------------------------------------------
(* Sending to the MLE, and waiting for the end of a call.                  *)
\* send_d_sds_data_with_reporter
SendSdsData(t, src, dst, type, data, rep) ==
    IF ~ ValidSsi(src) \/ ~ ValidSsi(dst) THEN DiscardReporter(t, rep)
    ELSE LET m == DSdsData(src, dst, type, data, rep)
             e == Emit(RememberReportContext(t, src, dst, type, data), m)
         IN  IF rep = None THEN e ELSE [e EXCEPT !.air = @ \cup {rep}]

\* defer_individual_sds
\* Mutant: a full queue drops the message and says nothing.
DeferSilently(t, src, dst, data, rep) ==
    IF Len(t.deferred) >= DeferLimit THEN t
    ELSE [t EXCEPT !.deferred = Append(@, [src |-> src, dst |-> dst, data |-> data, rep |-> rep])]
Defer(t, src, dst, data, rep) ==
    IF Len(t.deferred) >= DeferLimit THEN DiscardReporter(t, rep)
    ELSE [t EXCEPT !.deferred = Append(@, [src |-> src, dst |-> dst, data |-> data, rep |-> rep])]

\* send_or_defer_d_sds_data
SendOrDefer(t, src, dst, type, data, rep) ==
    IF type = "Issi" /\ dst \in busy THEN Defer(t, src, dst, data, rep)
    ELSE SendSdsData(t, src, dst, type, data, rep)

\* flush_deferred_individual_sds, with the terminals busy at the end of the tick.
FlushOne(t, p, b) ==
    CASE p.dst \in b -> [t EXCEPT !.deferred = Append(@, p)]
      [] p.dst \notin b /\ ~ IsRegistered(p.dst) -> DiscardReporter(t, p.rep)
      [] OTHER -> SendSdsData(t, p.src, p.dst, "Issi", p.data, p.rep)
FlushDeferred(t, b) ==
    FoldLeft(LAMBDA u, p : FlushOne(u, p, b), [t EXCEPT !.deferred = <<>>], t.deferred)

------------------------------------------------------------------------------
(* From a terminal.                                                        *)
Enqueue(t, m) == [t EXCEPT !.queue = Append(@, m)]
ToBrew(t, src, dst, data) == Enqueue(t, [to |-> "Brew", src |-> src, dst |-> dst, data |-> data])

LocalIssi(a) == a # Broadcast /\ IsRegistered(a)
LocalGroup(a) == a = Broadcast \/ HasGroupMembers(a)

\* handle_wx_request: a thread fetches what a command asks for.
HandleWxRequest(t, i, pdu) == IF pdu.wx THEN [t EXCEPT !.wx[i] = @ + 1] ELSE t
\* sds_tl_message_reference: of a text, not of a report.
WxConfirm(t, i, data) ==
    IF data.k # "Transfer" THEN t
    ELSE SendOrDefer(t, WxIssi, i, "Issi", Report(TextPid, data.ref, "Ok"), None)

\* feature_check_called_party_address: an SSI, alone or with the code of this network;
\* pdu.other: a short number, an external number or a direct mode address is there too.
CalledPartySupported(pdu) ==
    /\ \/ pdu.party = "Ssi" /\ pdu.mni = None
       \/ pdu.party = "Tsi" /\ pdu.mni = LocalMni
    /\ pdu.dst # None /\ ValidSsi(pdu.dst)
    /\ ~ pdu.other

\* route_rf_deliver_with_busy
RouteSdsData(t, i, pdu) ==
    CASE ~ IsRegistered(i) -> t
      [] IsRegistered(i) /\ ~ CalledPartySupported(pdu) -> Emit(t, FunctionNotSupported(i))
      [] IsRegistered(i) /\ CalledPartySupported(pdu) /\ pdu.dst = WxIssi ->
           (IF pdu.data.k = "Report" THEN t
            ELSE HandleWxRequest(WxConfirm(t, i, pdu.data), i, pdu))
      [] OTHER ->
           CASE LocalIssi(pdu.dst) /\ LocalGroup(pdu.dst) -> t
             [] LocalIssi(pdu.dst) /\ ~ LocalGroup(pdu.dst) ->
                  SendOrDefer(t, i, pdu.dst, "Issi", pdu.data, None)
             [] ~ LocalIssi(pdu.dst) /\ LocalGroup(pdu.dst) ->
                  SendSdsData(t, i, pdu.dst, "Gssi", pdu.data, None)
             [] OTHER -> ToBrew(t, i, pdu.dst, pdu.data)

\* handle_sds_command_status: kick_all; restart and shutdown end the program.
CommandStatus(i, pdu) == pdu.dst = CommandIssi /\ pdu.status = "KickAll" /\ i \in Operators

\* The Brew part of route_status_deliver: a short report becomes a full one.
StatusToBrew(t, i, pdu) ==
    LET key == [reporting |-> i, peer |-> pdu.dst, ref |-> pdu.ref]
    IN  IF pdu.status = "ShortReport" /\ key \in DOMAIN t.ctx
        THEN ToBrew(TakeReportContext(t, key, pdu.kind), i, pdu.dst,
                    Report(t.ctx[key].pid, pdu.ref, pdu.kind))
        ELSE ToBrew(t, i, pdu.dst, Plain)

\* route_status_deliver
RouteStatus(t, i, pdu) ==
    CASE ~ IsRegistered(i) -> t
      [] IsRegistered(i) /\ ~ CalledPartySupported(pdu) -> Emit(t, FunctionNotSupported(i))
      [] IsRegistered(i) /\ CalledPartySupported(pdu) /\ CommandStatus(i, pdu) -> [t EXCEPT !.kick = TRUE]
      [] OTHER ->
           CASE LocalIssi(pdu.dst) /\ LocalGroup(pdu.dst) -> t
             [] LocalIssi(pdu.dst) /\ ~ LocalGroup(pdu.dst) -> Emit(t, DStatus(i, pdu.dst, "Issi"))
             [] ~ LocalIssi(pdu.dst) /\ LocalGroup(pdu.dst) -> Emit(t, DStatus(i, pdu.dst, "Gssi"))
             [] OTHER -> StatusToBrew(t, i, pdu)

\* rx_lcmc_mle_unitdata_ind, for the PDUs that are not call control's.
RxFromTerminal(t, i, pdu) ==
    CASE pdu.k = "USdsData" -> RouteSdsData(t, i, pdu)
      [] pdu.k = "UStatus" -> RouteStatus(t, i, pdu)
      [] pdu.k = "UFacility" -> Emit(t, FunctionNotSupported(i))

------------------------------------------------------------------------------
(* From the network, through Brew.                                         *)
\* BrewEntity::handle_sds_transfer.  m.fits: the length and the octets agree and are
\* those of a Type4 message (sds_type4_payload_can_serialize).
BrewTransfer(t, m) ==
    LET known == ValidSsi(m.src) /\ ValidSsi(m.dst) /\ (LocalIssi(m.dst) # LocalGroup(m.dst))
        all == m.dst = Broadcast
        type == IF LocalIssi(m.dst) THEN "Issi" ELSE "Gssi"
    IN  IF ~ known \/ ~ m.fits THEN t
        ELSE Enqueue([t EXCEPT !.receipt[m.uuid] = "Pending", !.pend = @ \cup {m.uuid}],
                     [to |-> "Cmce", src |-> IF all THEN Broadcast ELSE m.src, dst |-> m.dst,
                      type |-> type, rep |-> m.uuid,
                      data |-> IF all THEN WithoutDeliveryReport(m.data) ELSE m.data])

\* rx_sds_from_brew_with_busy: what Brew found may have changed since.
RxFromBrew(t, m) ==
    IF ~ ValidSsi(m.src) \/ ~ ValidSsi(m.dst) THEN DiscardReporter(t, m.rep)
    ELSE IF m.dst = Broadcast
    THEN SendOrDefer(t, Broadcast, m.dst, "Gssi", WithoutDeliveryReport(m.data), m.rep)
    ELSE IF (IF m.type = "Issi" THEN IsRegistered(m.dst) ELSE HasGroupMembers(m.dst))
    THEN SendOrDefer(t, m.src, m.dst, m.type, m.data, m.rep)
    ELSE DiscardReporter(t, m.rep)

\* TxReporter::is_in_final_state and sds_report_status_for_reporter.  "Sent" is the
\* receipt of a message to a group, transmitted: nobody acknowledges it.
ReportStatus(t, u) ==
    CASE t.receipt[u] \in {"Acknowledged", "Sent"} -> "Success"
      [] t.receipt[u] \in {"Discarded", "Lost"} -> "Failed"
      [] OTHER -> None
\* Mutant: a message that was not acknowledged is never reported.
DrainReportsAcked(t) ==
    LET ready == {u \in t.pend : ReportStatus(t, u) = "Success"}
    IN  [t EXCEPT !.pend = @ \ ready,
                  !.told = [u \in Uuids |-> IF u \in ready THEN ReportStatus(t, u) ELSE @[u]]]
\* drain_pending_sds_reports
DrainReports(t) ==
    LET ready == {u \in t.pend : ReportStatus(t, u) # None}
    IN  [t EXCEPT !.pend = @ \ ready,
                  !.told = [u \in Uuids |-> IF u \in ready THEN ReportStatus(t, u) ELSE @[u]]]

\* handle_sds_send: on its way to the worker of module BrewLink.
BrewSend(t, m) ==
    IF t.connected THEN Emit(t, [k |-> "ToNetwork", src |-> m.src, dst |-> m.dst, data |-> m.data])
    ELSE t

Deliver(t, m) == IF m.to = "Cmce" THEN RxFromBrew(t, m) ELSE BrewSend(t, m)

------------------------------------------------------------------------------
(* From control commands.                                                  *)
\* control_sds_air_route: None, or the source and kind of address on the air.
ControlRoute(c) ==
    LET type == IF c.dst = Broadcast \/ c.group THEN "Gssi" ELSE "Issi"
    IN  CASE ~ ValidSsi(c.src) \/ ~ ValidSsi(c.dst) -> None
          [] ValidSsi(c.dst) /\ type = "Issi" /\ ~ IsRegistered(c.dst) -> None
          [] ValidSsi(c.dst) /\ type = "Gssi" /\ c.dst # Broadcast /\ ~ HasGroupMembers(c.dst) -> None
          [] OTHER -> [src |-> IF c.dst = Broadcast THEN Broadcast ELSE c.src, type |-> type]

\* SDS_MR: the references of control texts; 0 is passed over.
NextRef(t) == IF t.ref = 0 THEN 1 ELSE t.ref
AdvanceRef(t) == [t EXCEPT !.ref = IF @ = 0 THEN 1 ELSE (@ + 1) % RefModulo]

\* rx_sds_from_control_with_busy.  c.aligned: the length is that of the octets;
\* c.long: what comes of them does not fit a Type4 message.
SendSds(t, c) ==
    LET route == ControlRoute(c)
        req == IF c.group \/ c.dst = Broadcast THEN {} ELSE {Received}
    IN  IF route = None \/ ~ c.aligned THEN t
        ELSE IF c.long THEN AdvanceRef(t)
        ELSE SendOrDefer(AdvanceRef(t), route.src, c.dst, route.type,
                         Transfer(TextPid, NextRef(t), req), None)
\* rx_raw_sds_from_control_with_busy.  c.data is None when raw_control_sds_user_data
\* refuses the length.
SendRawSds(t, c) ==
    LET route == ControlRoute(c)
        data == IF route.type = "Gssi" THEN WithoutDeliveryReport(c.data) ELSE c.data
    IN  IF route = None \/ c.data = None THEN t
        ELSE SendOrDefer(t, route.src, c.dst, route.type, data, None)
\* rx_status_command_from_control, route_status_from_control_fields
SendStatus(t, c) ==
    LET route == ControlRoute(c)
    IN  IF route = None THEN t ELSE Emit(t, DStatus(route.src, c.dst, route.type))

\* do_control_command, for short data and for a terminal that is sent away.
ControlSds(t, c) ==
    CASE c.k = "SendSds" -> SendSds(t, c)
      [] c.k = "SendRawSds" -> SendRawSds(t, c)
      [] c.k = "SendStatus" -> SendStatus(t, c)
      [] c.k = "KickMs" -> Emit(t, [k |-> "Kick", dst |-> c.dst])
      [] OTHER -> t

\* The end of CmceBs::tick_start: pending actions, then what waited for a call.
FinishTick(t, b) ==
    FlushDeferred(IF t.kick THEN Emit([t EXCEPT !.kick = FALSE], [k |-> "Kick", dst |-> None])
                  ELSE t, b)
=============================================================================

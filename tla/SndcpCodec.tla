----------------------------- MODULE SndcpCodec -----------------------------
(***************************************************************************)
(* The PDUs of the SNDCP (crates/tetra-entities/src/sndcp: pdp.rs,         *)
(* transfer.rs, unitdata.rs).  A PDU ends with an o-bit that is never set,  *)
(* and what follows it is refused.  The encoder asks for a buffer of the    *)
(* exact size before it writes.                                             *)
(***************************************************************************)
EXTENDS PduCodec

SnPduType ==
    [ActivatePdpContext |-> 0, DeactivatePdpContextAccept |-> 1,
     DeactivatePdpContextDemand |-> 2, ActivatePdpContextReject |-> 3, Unitdata |-> 4,
     Data |-> 5, DataTransmitRequest |-> 6, DataTransmitResponse |-> 7, EndOfData |-> 8,
     Reconnect |-> 9, NotSupported |-> 11]
Nsapi == 1..14
ReadNoOptionalTail == <<Fixed(1, 0), End(FALSE)>>
WriteNoOptionalElements == <<Fixed(1, 0)>>
\* The NSAPIs worth trying: the reserved ones are refused by every encoder.
TriedNsapi == {0, 1, 14, 15, 16}

-----------------------------------------------------------------------------
(* PDP contexts.                                                           *)

AddressTypeIdentifierInDemand == 0..5
StaticAddress == 0
SecondaryContext == 5
PacketDataMsType == 0..3
Ipv4(bit) == BitsOf(32, bit)

ActivateDemand ==
    [sndcp_version |-> U(8), nsapi |-> U(8), address |-> Enum(AddressTypeIdentifierInDemand),
     ipv4 |-> Option(Bits(32)), primary_nsapi |-> Option(U(8)),
     packet_data_ms_type |-> Enum(PacketDataMsType), pcomp_negotiation |-> U(8)]
ActivateDemandRead ==
    <<Fixed(4, SnPduType.ActivatePdpContext), Code("sndcp_version", 4, {1}),
      Code("nsapi", 4, Nsapi), Code("address", 3, AddressTypeIdentifierInDemand),
      When("address", {StaticAddress}, <<Raw("ipv4", 32)>>),
      When("address", {SecondaryContext}, <<Code("primary_nsapi", 4, Nsapi)>>),
      Code("packet_data_ms_type", 4, PacketDataMsType), Code("pcomp_negotiation", 8, {0})>>
    \o ReadNoOptionalTail
ActivateDemandWrite ==
    <<Fixed(4, SnPduType.ActivatePdpContext), Field("sndcp_version", 4), Field("nsapi", 4),
      Field("address", 3), Some("ipv4", <<Raw("ipv4", 32)>>),
      Some("primary_nsapi", <<Field("primary_nsapi", 4)>>),
      Field("packet_data_ms_type", 4), Field("pcomp_negotiation", 8)>>
    \o WriteNoOptionalElements
ActivateDemandValid ==
    <<Is("sndcp_version", {1}), Is("nsapi", Nsapi), Is("pcomp_negotiation", {0}),
      Is("primary_nsapi", Nsapi)>>
ActivateDemands ==
    {[sndcp_version |-> ver, nsapi |-> n, address |-> a, packet_data_ms_type |-> ms,
      pcomp_negotiation |-> comp] @@
     (CASE a = StaticAddress -> [ipv4 |-> Ipv4(1)]
        [] a = SecondaryContext -> [primary_nsapi |-> p]
        [] OTHER -> Nothing)
     : ver \in 0..2, n \in TriedNsapi, p \in TriedNsapi, ms \in {0, 3}, comp \in {0, 1},
       a \in AddressTypeIdentifierInDemand}

TypeIdentifierInAccept == 0..2
WithAddress == {1, 2}
MaximumTransmissionUnit == 1..5
ActivateAccept ==
    [nsapi |-> U(8), pdu_priority_max |-> U(8), ready_timer |-> U(8), standby_timer |-> U(8),
     response_wait_timer |-> U(8), type_identifier |-> Enum(TypeIdentifierInAccept),
     assigned_address |-> Option(Bits(32)), pcomp_negotiation |-> U(8),
     maximum_transmission_unit |-> Enum(MaximumTransmissionUnit)]
ActivateAcceptRead ==
    <<Fixed(4, SnPduType.ActivatePdpContext), Code("nsapi", 4, Nsapi),
      Code("pdu_priority_max", 3, 0..7), Code("ready_timer", 4, 1..14),
      Code("standby_timer", 4, 1..15), Code("response_wait_timer", 4, 0..14),
      Code("type_identifier", 3, TypeIdentifierInAccept),
      When("type_identifier", WithAddress, <<Raw("assigned_address", 32)>>),
      Code("pcomp_negotiation", 8, {0}),
      Code("maximum_transmission_unit", 3, MaximumTransmissionUnit)>> \o ReadNoOptionalTail
\* The address is only looked for once the buffer is half written.
ActivateAcceptWrite ==
    <<Fixed(4, SnPduType.ActivatePdpContext), Field("nsapi", 4), Field("pdu_priority_max", 3),
      Field("ready_timer", 4), Field("standby_timer", 4), Field("response_wait_timer", 4),
      Field("type_identifier", 3),
      When("type_identifier", WithAddress,
           <<Must(Required("assigned_address")), Raw("assigned_address", 32)>>),
      Field("pcomp_negotiation", 8), Field("maximum_transmission_unit", 3)>>
    \o WriteNoOptionalElements
ActivateAcceptValid ==
    <<Is("nsapi", Nsapi), Is("pdu_priority_max", 0..7), Is("ready_timer", 1..14),
      Is("standby_timer", 1..15), Is("response_wait_timer", 0..14),
      Is("pcomp_negotiation", {0})>>
ActivateAccepts ==
    LET plain == [nsapi |-> 1, pdu_priority_max |-> 4, ready_timer |-> 8,
                  standby_timer |-> 12, response_wait_timer |-> 0, type_identifier |-> 2,
                  assigned_address |-> Ipv4(0), pcomp_negotiation |-> 0,
                  maximum_transmission_unit |-> 2]
        none == [n \in DOMAIN plain \ {"assigned_address"} |-> plain[n]]
    IN {none, [none EXCEPT !.type_identifier = 0]}
       \cup {[plain EXCEPT !.nsapi = n, !.type_identifier = t] : n \in TriedNsapi, t \in WithAddress}
       \cup {[plain EXCEPT !.pdu_priority_max = p, !.ready_timer = t] : p \in {0, 7, 8}, t \in {0, 1, 14, 15}}
       \cup {[plain EXCEPT !.standby_timer = t, !.response_wait_timer = w] : t \in {0, 1, 15, 16}, w \in {14, 15}}
       \cup {[plain EXCEPT !.maximum_transmission_unit = m] : m \in MaximumTransmissionUnit}

\* Every code is a cause: those without a name are kept as Other(code).
ActivationRejectCause == 0..255
ActivateReject == [nsapi |-> U(8), cause |-> U(8)]
ActivateRejectRead ==
    <<Fixed(4, SnPduType.ActivatePdpContextReject), Code("nsapi", 4, Nsapi),
      Code("cause", 8, ActivationRejectCause)>> \o ReadNoOptionalTail
ActivateRejectWrite ==
    <<Fixed(4, SnPduType.ActivatePdpContextReject), Field("nsapi", 4), Field("cause", 8)>>
    \o WriteNoOptionalElements
ActivateRejectValid == <<Is("nsapi", Nsapi)>>

Deactivation == [deactivation_type |-> Enum({0, 1}), nsapi |-> Option(U(8))]
DeactivationRead(type) ==
    <<Fixed(4, type), Code("deactivation_type", 8, {0, 1}),
      When("deactivation_type", {1}, <<Code("nsapi", 4, Nsapi)>>)>> \o ReadNoOptionalTail
DeactivationWrite(type) ==
    <<Fixed(4, type), Field("deactivation_type", 8), Some("nsapi", <<Field("nsapi", 4)>>)>>
    \o WriteNoOptionalElements
DeactivationValid == <<Is("nsapi", Nsapi)>>
Deactivations ==
    {[deactivation_type |-> 0]} \cup {[deactivation_type |-> 1, nsapi |-> n] : n \in TriedNsapi}
DeactivationCodec(type) ==
    Only(Pdu(Deactivation, DeactivationRead(type), DeactivationWrite(type), DeactivationValid),
         Deactivations)

-----------------------------------------------------------------------------
(* Transfer control.                                                       *)

\* The resources asked for: how many timeslots, or the default (unspecified).
Slots == {"uplink_timeslots", "downlink_timeslots", "full_capability_timeslots"}
ResourceRequest ==
    [uplink_timeslots |-> U(8), downlink_timeslots |-> U(8),
     full_capability_timeslots |-> U(8), unspecified |-> Bool]
UnspecifiedThroughput == 6
ResourceRequestRead ==
    <<Differ("asymmetric", "uplink_timeslots", "downlink_timeslots"),
      Coded("unspecified", 3, UnspecifiedThroughput), Shifted("uplink_timeslots", 2, 1),
      When("asymmetric", {1}, <<Shifted("downlink_timeslots", 2, 1)>>),
      When("asymmetric", {0}, <<Copied("downlink_timeslots", "uplink_timeslots")>>),
      Shifted("full_capability_timeslots", 2, 1), Fixed(2, 3),
      When("unspecified", {1}, <<Must(Is("asymmetric", {0}))>>)>>
ResourceRequestWrite ==
    <<Differ("asymmetric", "uplink_timeslots", "downlink_timeslots"),
      Coded("unspecified", 3, UnspecifiedThroughput), Shifted("uplink_timeslots", 2, 1),
      If(<<AllSame("unspecified", {0, 1}, {"uplink_timeslots", "downlink_timeslots"})>>,
         <<>>, <<Shifted("downlink_timeslots", 2, 1)>>),
      Shifted("full_capability_timeslots", 2, 1), Fixed(2, 3)>>
ResourceRequestValid ==
    <<Is("uplink_timeslots", 1..4), Is("downlink_timeslots", 1..4),
      Is("full_capability_timeslots", 1..4),
      AtMost("uplink_timeslots", "full_capability_timeslots"),
      AtMost("downlink_timeslots", "full_capability_timeslots"),
      AllSame("unspecified", {1}, Slots)>>
ResourceRequestCodec ==
    Checked(Only(Pdu(ResourceRequest, ResourceRequestRead, ResourceRequestWrite,
                     ResourceRequestValid),
                 {[uplink_timeslots |-> up, downlink_timeslots |-> down,
                   full_capability_timeslots |-> full, unspecified |-> any]
                  : up \in {0, 1, 2, 4}, down \in {1, 2, 5}, full \in {1, 2, 4}, any \in {0, 1}}))
ResourceRequestLen(v) ==
    IF ~Has(v, "resource_request") THEN 0
    ELSE IF v.resource_request.uplink_timeslots = v.resource_request.downlink_timeslots
         THEN 10 ELSE 12
Resources == Flagged("resource_request", <<Sub("resource_request", ResourceRequestCodec)>>)

DataTransmitRequest ==
    [nsapi |-> U(8), logical_link_status |-> Bool,
     resource_request |-> Option(Struct(ResourceRequestCodec))]
DataTransmitRequestRead ==
    <<Fixed(4, SnPduType.DataTransmitRequest), Code("nsapi", 4, Nsapi),
      Flag("logical_link_status"), Resources>> \o ReadNoOptionalTail
DataTransmitRequestWrite ==
    <<Fixed(4, SnPduType.DataTransmitRequest), Field("nsapi", 4), Flag("logical_link_status"),
      Resources>> \o WriteNoOptionalElements
DataTransmitRequestValid ==
    <<Is("nsapi", Nsapi), Inner("resource_request", ResourceRequestValid)>>
DataTransmitRequests ==
    {[nsapi |-> n, logical_link_status |-> l] : n \in TriedNsapi, l \in {0, 1}}
    \cup {[nsapi |-> 14, logical_link_status |-> 0, resource_request |-> r]
          : r \in Values(ResourceRequestCodec)}

TransferRejectCause == {0, 1, 2, 23, 25, 34}
DataTransmitResponse ==
    [nsapi |-> U(8), accept |-> Bool, cause |-> Option(Enum(TransferRejectCause))]
DataTransmitResponseRead ==
    <<Fixed(4, SnPduType.DataTransmitResponse), Code("nsapi", 4, Nsapi), Flag("accept"),
      When("accept", {0}, <<Code("cause", 8, TransferRejectCause)>>)>> \o ReadNoOptionalTail
DataTransmitResponseWrite ==
    <<Fixed(4, SnPduType.DataTransmitResponse), Field("nsapi", 4), Flag("accept"),
      Some("cause", <<Field("cause", 8)>>)>> \o WriteNoOptionalElements
DataTransmitResponseValid == <<Is("nsapi", Nsapi)>>
DataTransmitResponses ==
    {[nsapi |-> n, accept |-> 1] : n \in TriedNsapi}
    \cup {[nsapi |-> n, accept |-> 0, cause |-> c] : n \in {1, 15}, c \in TransferRejectCause}

EndOfData == [immediate_service_change |-> Bool]
EndOfDataRead ==
    <<Fixed(4, SnPduType.EndOfData), Flag("immediate_service_change")>> \o ReadNoOptionalTail
EndOfDataWrite ==
    <<Fixed(4, SnPduType.EndOfData), Flag("immediate_service_change")>>
    \o WriteNoOptionalElements

\* The NSAPI is there when there is data to send.
Reconnect ==
    [nsapi |-> Option(U(8)), resource_request |-> Option(Struct(ResourceRequestCodec))]
ReconnectRead ==
    <<Fixed(4, SnPduType.Reconnect), Flagged("nsapi", <<Code("nsapi", 4, Nsapi)>>), Resources>>
    \o ReadNoOptionalTail
ReconnectWrite ==
    <<Fixed(4, SnPduType.Reconnect), Flagged("nsapi", <<Field("nsapi", 4)>>), Resources>>
    \o WriteNoOptionalElements
ReconnectValid == <<Is("nsapi", Nsapi), Inner("resource_request", ResourceRequestValid)>>

NotSupportedTypes == 0..10 \cup {12, 13}
NotSupported == [not_supported_pdu_type |-> U(8)]
NotSupportedRead ==
    <<Fixed(4, SnPduType.NotSupported), Code("not_supported_pdu_type", 4, NotSupportedTypes),
      End(FALSE)>>
NotSupportedWrite == <<Fixed(4, SnPduType.NotSupported), Field("not_supported_pdu_type", 4)>>
NotSupportedValid == <<Is("not_supported_pdu_type", NotSupportedTypes)>>

-----------------------------------------------------------------------------
(* User data: the N-PDU takes the rest and may not be empty.               *)

UserData == [nsapi |-> U(8), pcomp |-> U(8), dcomp |-> U(8), n_pdu |-> Bits(20)]
UserDataRead(type) ==
    <<Fixed(4, type), Code("nsapi", 4, Nsapi), Code("pcomp", 4, {0}), Code("dcomp", 4, {0}),
      Body("n_pdu"), Must(NonEmpty("n_pdu"))>>
UserDataWrite(type) ==
    <<Fixed(4, type), Field("nsapi", 4), Field("pcomp", 4), Field("dcomp", 4), Body("n_pdu")>>
UserDataValid ==
    <<Is("nsapi", Nsapi), Is("pcomp", {0}), Is("dcomp", {0}), NonEmpty("n_pdu")>>
UserDatas ==
    {[nsapi |-> n, pcomp |-> p, dcomp |-> d, n_pdu |-> x]
     : n \in TriedNsapi, p \in {0, 1}, d \in {0, 1}, x \in {<<>>, <<1>>, BitsOf(96, 0)}}
UserDataCodec(type) ==
    Only(Pdu(UserData, UserDataRead(type), UserDataWrite(type), UserDataValid), UserDatas)

-----------------------------------------------------------------------------
\* The size of the buffer that each encoder asks for.
SndcpBufferLen(name, v) ==
    CASE name = "SnActivateDemand" ->
            28 + (IF Has(v, "ipv4") THEN 32 ELSE 0) + (IF Has(v, "primary_nsapi") THEN 4 ELSE 0)
      [] name = "SnActivateAccept" -> 38 + (IF v.type_identifier \in WithAddress THEN 32 ELSE 0)
      [] name = "SnActivateReject" -> 17
      [] name \in {"SnDeactivateDemand", "SnDeactivateAccept"} ->
            13 + (IF Has(v, "nsapi") THEN 4 ELSE 0)
      [] name = "SnDataTransmitRequest" -> 11 + ResourceRequestLen(v)
      [] name = "SnDataTransmitResponse" -> 10 + (IF Has(v, "cause") THEN 8 ELSE 0)
      [] name = "SnEndOfData" -> 6
      [] name = "SnReconnect" -> 7 + (IF Has(v, "nsapi") THEN 4 ELSE 0) + ResourceRequestLen(v)
      [] name = "SnNotSupported" -> 8
      [] name \in {"SnUnitdata", "SnData"} -> 16 + Len(v.n_pdu)

\* Every PDU of the SNDCP.
SndcpPdus ==
    [SnActivateDemand |-> Only(Pdu(ActivateDemand, ActivateDemandRead, ActivateDemandWrite,
                                   ActivateDemandValid), ActivateDemands),
     SnActivateAccept |-> Only(Pdu(ActivateAccept, ActivateAcceptRead, ActivateAcceptWrite,
                                   ActivateAcceptValid), ActivateAccepts),
     SnActivateReject |-> Pdu(ActivateReject, ActivateRejectRead, ActivateRejectWrite,
                              ActivateRejectValid),
     SnDeactivateDemand |-> DeactivationCodec(SnPduType.DeactivatePdpContextDemand),
     SnDeactivateAccept |-> DeactivationCodec(SnPduType.DeactivatePdpContextAccept),
     SnDataTransmitRequest |-> Only(Pdu(DataTransmitRequest, DataTransmitRequestRead,
                                        DataTransmitRequestWrite, DataTransmitRequestValid),
                                    DataTransmitRequests),
     SnDataTransmitResponse |-> Only(Pdu(DataTransmitResponse, DataTransmitResponseRead,
                                         DataTransmitResponseWrite, DataTransmitResponseValid),
                                     DataTransmitResponses),
     SnEndOfData |-> Pdu(EndOfData, EndOfDataRead, EndOfDataWrite, <<>>),
     SnReconnect |-> Pdu(Reconnect, ReconnectRead, ReconnectWrite, ReconnectValid),
     SnNotSupported |-> Pdu(NotSupported, NotSupportedRead, NotSupportedWrite,
                            NotSupportedValid),
     SnUnitdata |-> UserDataCodec(SnPduType.Unitdata),
     SnData |-> UserDataCodec(SnPduType.Data)]
=============================================================================

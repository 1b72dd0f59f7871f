------------------------------ MODULE CmceCodec ------------------------------
(***************************************************************************)
(* The PDUs of the circuit mode control entity: call set-up and clearing,   *)
(* floor control, status and short data (tetra-pdus/src/cmce).  X, XRead,   *)
(* XWrite and XValid are the struct, its from_bitbuf, its to_bitbuf and its *)
(* validation.                                                              *)
(***************************************************************************)
EXTENDS PduCodec

CallStatus == 0..4
CallTimeout == 0..15
CallTimeoutSetupPhase == 0..7
DisconnectCause == 0..23
PartyTypeIdentifier == 0..3
TransmissionGrant == 0..3
CircuitModeType == 0..7
CommunicationType == 0..3

CmcePduTypeDl ==
    [DAlert |-> 0, DCallProceeding |-> 1, DConnect |-> 2, DConnectAcknowledge |-> 3,
     DDisconnect |-> 4, DInfo |-> 5, DRelease |-> 6, DSetup |-> 7, DStatus |-> 8,
     DTxCeased |-> 9, DTxContinue |-> 10, DTxGranted |-> 11, DTxWait |-> 12,
     DTxInterrupt |-> 13, DCallRestore |-> 14, DSdsData |-> 15, DFacility |-> 16,
     CmceFunctionNotSupported |-> 31]
CmcePduTypeUl ==
    [UAlert |-> 0, UConnect |-> 2, UDisconnect |-> 4, UInfo |-> 5, URelease |-> 6,
     USetup |-> 7, UStatus |-> 8, UTxCeased |-> 9, UTxDemand |-> 10, UCallRestore |-> 14,
     USdsData |-> 15, UFacility |-> 16, CmceFunctionNotSupported |-> 31]
CmceType3ElemId ==
    [Dtmf |-> 1, ExtSubscriberNum |-> 2, Facility |-> 3, PollResponseAddr |-> 4,
     TempAddr |-> 5, DmMsAddr |-> 6, Proprietary |-> 15]

\* The elements that most PDUs end with.
ExternalSubscriberNumber ==
    Type3("external_subscriber_number", CmceType3ElemId.ExtSubscriberNum)
Facility == Type3("facility", CmceType3ElemId.Facility)
DmMsAddress == Type3("dm_ms_address", CmceType3ElemId.DmMsAddr)
Proprietary == Type3("proprietary", CmceType3ElemId.Proprietary)

-----------------------------------------------------------------------------
(* Fields with a layout of their own.                                       *)

BasicServiceInformation ==
    [circuit_mode_type |-> Enum(CircuitModeType), encryption_flag |-> Bool,
     communication_type |-> Enum(CommunicationType),
     slots_per_frame |-> Option(U(8)), speech_service |-> Option(U(8))]
BasicServiceInformationRead ==
    <<Code("circuit_mode_type", 3, CircuitModeType), Flag("encryption_flag"),
      Code("communication_type", 2, CommunicationType),
      When("circuit_mode_type", {0}, <<Field("speech_service", 2)>>),
      When("circuit_mode_type", 1..7, <<Field("slots_per_frame", 2)>>)>>
BasicServiceInformationWrite ==
    <<Field("circuit_mode_type", 3), Flag("encryption_flag"),
      Field("communication_type", 2),
      Some("slots_per_frame", <<Field("slots_per_frame", 2)>>),
      Some("speech_service", <<Field("speech_service", 2)>>)>>
BasicServiceInformationValid ==
    <<Iff("circuit_mode_type", {0}, "speech_service"),
      Iff("circuit_mode_type", 1..7, "slots_per_frame"),
      Fits([speech_service |-> 2, slots_per_frame |-> 2])>>
BsiCodec ==
    Based(Pdu(BasicServiceInformation, BasicServiceInformationRead,
              BasicServiceInformationWrite, BasicServiceInformationValid),
          <<{"slots_per_frame"}, {"speech_service"}>>)

\* Short data of 16, 32 or 64 bits, or of a length that it states itself.
SdsUserData ==
    [type1 |-> Option(U(16)), type2 |-> Option(Bits(32)), type3 |-> Option(Bits(64)),
     type4 |-> Option(Block({7, 8, 2047, 2048}))]
ShortDataType ==
    Select("short_data_type_identifier", 2,
           <<<<{"type1"}, 0>>, <<{"type2"}, 1>>, <<{"type3"}, 2>>, <<{"type4"}, 3>>>>)
SdsUserDataRead ==
    <<ShortDataType,
      When("short_data_type_identifier", {0}, <<Field("type1", 16)>>),
      When("short_data_type_identifier", {1}, <<Raw("type2", 32)>>),
      When("short_data_type_identifier", {2}, <<Raw("type3", 64)>>),
      When("short_data_type_identifier", {3}, <<Counted("type4", 11, 8..2047)>>)>>
\* The payload is checked when the type has already been written.
SdsUserDataWrite ==
    <<ShortDataType,
      Some("type1", <<Field("type1", 16)>>), Some("type2", <<Raw("type2", 32)>>),
      Some("type3", <<Raw("type3", 64)>>),
      Some("type4", <<Must(Length("type4", 8..2047, FALSE)),
                      Counted("type4", 11, 8..2047)>>)>>
SdsUserDataCodec ==
    Variant(Pdu(SdsUserData, SdsUserDataRead, SdsUserDataWrite, <<>>),
            <<{"type1"}, {"type2"}, {"type3"}, {"type4"}>>)

\* Which address fields go with which party type.
CallingPartyType ==
    Select("calling_party_type_identifier", 2,
           <<<<{"calling_party_extension"}, 2>>, <<{}, 1>>>>)
CallingPartyShape ==
    (1 :> {"calling_party_address_ssi"}) @@
    (2 :> {"calling_party_address_ssi", "calling_party_extension"})
CallingParty ==
    <<{}, {"calling_party_address_ssi"},
      {"calling_party_address_ssi", "calling_party_extension"}>>
CalledPartyShape ==
    (0 :> {"called_party_short_number_address"}) @@ (1 :> {"called_party_ssi"}) @@
    (2 :> {"called_party_ssi", "called_party_extension"})
CalledParty ==
    <<{"called_party_short_number_address"}, {"called_party_ssi"},
      {"called_party_ssi", "called_party_extension"}>>
OtherPartyShape ==
    (0 :> {"other_party_short_number_address"}) @@ (1 :> {"other_party_ssi"}) @@
    (2 :> {"other_party_ssi", "other_party_extension"})
OtherParty ==
    <<{"basic_service_information", "other_party_short_number_address"},
      {"basic_service_information", "other_party_ssi"},
      {"basic_service_information", "other_party_ssi", "other_party_extension"}>>
TransmittingPartyShape ==
    (-1 :> {}) @@ (1 :> {"transmitting_party_address_ssi"}) @@
    (2 :> {"transmitting_party_address_ssi", "transmitting_party_extension"})
TransmittingPartyBase ==
    <<{}, {"transmitting_party_type_identifier", "transmitting_party_address_ssi"},
      {"transmitting_party_type_identifier", "transmitting_party_address_ssi",
       "transmitting_party_extension"}>>

-----------------------------------------------------------------------------
(* The PDUs.                                                                *)

DAlert ==
    [call_identifier |-> U(16), call_time_out_set_up_phase |-> U(8),
     reserved |-> Bool, simplex_duplex_selection |-> Bool, call_queued |-> Bool,
     basic_service_information |-> Option(Struct(BsiCodec)),
     notification_indicator |-> Option(U(64)), facility |-> Option(T3),
     proprietary |-> Option(T3)]
DAlertRead ==
    <<Fixed(5, CmcePduTypeDl.DAlert), Field("call_identifier", 14),
      Field("call_time_out_set_up_phase", 3), Flag("reserved"),
      Flag("simplex_duplex_selection"), Flag("call_queued"), ReadObit,
      OptSub("basic_service_information", BsiCodec),
      Type2("notification_indicator", 6), Facility, Proprietary, Trailing>>
DAlertWrite ==
    <<Fixed(5, CmcePduTypeDl.DAlert), Field("call_identifier", 14),
      Field("call_time_out_set_up_phase", 3), Flag("reserved"),
      Flag("simplex_duplex_selection"), Flag("call_queued"), Obit(Optional(DAlert)),
      OptSub("basic_service_information", BsiCodec),
      Type2("notification_indicator", 6), Facility, Proprietary, Trailing>>
DAlertValid ==
    <<Fits([call_identifier |-> 14, call_time_out_set_up_phase |-> 3,
            notification_indicator |-> 6]),
      Is("reserved", {1}),
      Inner("basic_service_information", BasicServiceInformationValid)>>

DCallProceeding ==
    [call_identifier |-> U(16),
     call_time_out_set_up_phase |-> Enum(CallTimeoutSetupPhase),
     hook_method_selection |-> Bool, simplex_duplex_selection |-> Bool,
     basic_service_information |-> Option(Struct(BsiCodec)),
     call_status |-> Option(Enum(CallStatus)),
     notification_indicator |-> Option(U(64)), facility |-> Option(T3),
     proprietary |-> Option(T3)]
DCallProceedingRead ==
    <<Fixed(5, CmcePduTypeDl.DCallProceeding), Field("call_identifier", 14),
      Code("call_time_out_set_up_phase", 3, CallTimeoutSetupPhase),
      Flag("hook_method_selection"), Flag("simplex_duplex_selection"), ReadObit,
      OptSub("basic_service_information", BsiCodec),
      Opt("call_status", <<Code("call_status", 3, CallStatus)>>),
      Type2("notification_indicator", 6), Facility, Proprietary, Trailing>>
DCallProceedingWrite ==
    <<Fixed(5, CmcePduTypeDl.DCallProceeding), Field("call_identifier", 14),
      Field("call_time_out_set_up_phase", 3), Flag("hook_method_selection"),
      Flag("simplex_duplex_selection"), Obit(Optional(DCallProceeding)),
      OptSub("basic_service_information", BsiCodec), Type2("call_status", 3),
      Type2("notification_indicator", 6), Facility, Proprietary, Trailing>>
DCallProceedingValid ==
    <<Fits([call_identifier |-> 14, notification_indicator |-> 6])>>

DCallRestore ==
    [call_identifier |-> U(16), transmission_grant |-> U(8),
     transmission_request_permission |-> Bool,
     reset_call_time_out_timer_t310_ |-> Bool,
     new_call_identifier |-> Option(U(64)), call_time_out |-> Option(U(64)),
     call_status |-> Option(U(64)), modify |-> Option(U(64)),
     notification_indicator |-> Option(U(64)), facility |-> Option(T3),
     temporary_address |-> Option(T3), dm_ms_address |-> Option(T3),
     proprietary |-> Option(T3)]
DCallRestoreRead ==
    <<Fixed(5, CmcePduTypeDl.DCallRestore), Field("call_identifier", 14),
      Field("transmission_grant", 2), Flag("transmission_request_permission"),
      Flag("reset_call_time_out_timer_t310_"), ReadObit,
      Type2("new_call_identifier", 14), Type2("call_time_out", 4),
      Type2("call_status", 3), Type2("modify", 9),
      Type2("notification_indicator", 6), Facility,
      Type3("temporary_address", CmceType3ElemId.TempAddr), DmMsAddress,
      Proprietary, Trailing>>
DCallRestoreWrite ==
    <<Fixed(5, CmcePduTypeDl.DCallRestore), Field("call_identifier", 14),
      Field("transmission_grant", 2), Flag("transmission_request_permission"),
      Flag("reset_call_time_out_timer_t310_"), Obit(Optional(DCallRestore)),
      Type2("new_call_identifier", 14), Type2("call_time_out", 4),
      Type2("call_status", 3), Type2("modify", 9),
      Type2("notification_indicator", 6), Facility,
      Type3("temporary_address", CmceType3ElemId.TempAddr), DmMsAddress,
      Proprietary, Trailing>>
DCallRestoreValid ==
    <<Fits([call_identifier |-> 14, transmission_grant |-> 2,
            new_call_identifier |-> 14, call_time_out |-> 4, call_status |-> 3,
            modify |-> 9, notification_indicator |-> 6])>>

DConnect ==
    [call_identifier |-> U(16), call_time_out |-> Enum(CallTimeout),
     hook_method_selection |-> Bool, simplex_duplex_selection |-> Bool,
     transmission_grant |-> Enum(TransmissionGrant),
     transmission_request_permission |-> Bool, call_ownership |-> Bool,
     call_priority |-> Option(U(64)),
     basic_service_information |-> Option(Struct(BsiCodec)),
     temporary_address |-> Option(U(64)), notification_indicator |-> Option(U(64)),
     facility |-> Option(T3), proprietary |-> Option(T3)]
DConnectRead ==
    <<Fixed(5, CmcePduTypeDl.DConnect), Field("call_identifier", 14),
      Code("call_time_out", 4, CallTimeout), Flag("hook_method_selection"),
      Flag("simplex_duplex_selection"),
      Code("transmission_grant", 2, TransmissionGrant),
      Flag("transmission_request_permission"), Flag("call_ownership"), ReadObit,
      Type2("call_priority", 4), OptSub("basic_service_information", BsiCodec),
      Type2("temporary_address", 24), Type2("notification_indicator", 6), Facility,
      Proprietary, Trailing>>
DConnectWrite ==
    <<Fixed(5, CmcePduTypeDl.DConnect), Field("call_identifier", 14),
      Field("call_time_out", 4), Flag("hook_method_selection"),
      Flag("simplex_duplex_selection"), Field("transmission_grant", 2),
      Flag("transmission_request_permission"), Flag("call_ownership"),
      Obit(Optional(DConnect)), Type2("call_priority", 4),
      OptSub("basic_service_information", BsiCodec), Type2("temporary_address", 24),
      Type2("notification_indicator", 6), Facility, Proprietary, Trailing>>
DConnectValid ==
    <<Fits([call_identifier |-> 14, call_priority |-> 4, temporary_address |-> 24,
            notification_indicator |-> 6])>>

DConnectAcknowledge ==
    [call_identifier |-> U(16), call_time_out |-> Enum(CallTimeout),
     transmission_grant |-> Enum(TransmissionGrant),
     transmission_request_permission |-> Bool,
     notification_indicator |-> Option(U(64)), facility |-> Option(T3),
     proprietary |-> Option(T3)]
DConnectAcknowledgeRead ==
    <<Fixed(5, CmcePduTypeDl.DConnectAcknowledge), Field("call_identifier", 14),
      Field("call_time_out", 4), Field("transmission_grant", 2),
      Flag("transmission_request_permission"), ReadObit,
      Type2("notification_indicator", 6), Facility, Proprietary, Trailing>>
DConnectAcknowledgeWrite ==
    <<Fixed(5, CmcePduTypeDl.DConnectAcknowledge), Field("call_identifier", 14),
      Field("call_time_out", 4), Field("transmission_grant", 2),
      Flag("transmission_request_permission"), Obit(Optional(DConnectAcknowledge)),
      Type2("notification_indicator", 6), Facility, Proprietary, Trailing>>
DConnectAcknowledgeValid ==
    <<Fits([call_identifier |-> 14, notification_indicator |-> 6])>>

DDisconnect ==
    [call_identifier |-> U(16), disconnect_cause |-> Enum(DisconnectCause),
     notification_indicator |-> Option(U(64)), facility |-> Option(T3),
     proprietary |-> Option(T3)]
DDisconnectRead ==
    <<Fixed(5, CmcePduTypeDl.DDisconnect), Field("call_identifier", 14),
      Code("disconnect_cause", 5, DisconnectCause), ReadObit,
      Type2("notification_indicator", 6), Facility, Proprietary, Trailing>>
DDisconnectWrite ==
    <<Fixed(5, CmcePduTypeDl.DDisconnect), Field("call_identifier", 14),
      Field("disconnect_cause", 5), Obit(Optional(DDisconnect)),
      Type2("notification_indicator", 6), Facility, Proprietary, Trailing>>
DDisconnectValid == <<Fits([call_identifier |-> 14, notification_indicator |-> 6])>>

DInfo ==
    [call_identifier |-> U(16), reset_call_time_out_timer_t310_ |-> Bool,
     poll_request |-> Bool, new_call_identifier |-> Option(U(64)),
     call_time_out |-> Option(U(64)),
     call_time_out_set_up_phase_t301_t302_ |-> Option(U(64)),
     call_ownership |-> Option(U(64)), modify |-> Option(U(64)),
     call_status |-> Option(U(64)), temporary_address |-> Option(U(64)),
     notification_indicator |-> Option(U(64)),
     poll_response_percentage |-> Option(U(64)),
     poll_response_number |-> Option(U(64)), dtmf |-> Option(T3),
     facility |-> Option(T3), poll_response_addresses |-> Option(T3),
     proprietary |-> Option(T3)]
DInfoRead ==
    <<Fixed(5, CmcePduTypeDl.DInfo), Field("call_identifier", 14),
      Flag("reset_call_time_out_timer_t310_"), Flag("poll_request"), ReadObit,
      Type2("new_call_identifier", 14), Type2("call_time_out", 4),
      Type2("call_time_out_set_up_phase_t301_t302_", 3), Type2("call_ownership", 1),
      Type2("modify", 9), Type2("call_status", 3), Type2("temporary_address", 24),
      Type2("notification_indicator", 6), Type2("poll_response_percentage", 6),
      Type2("poll_response_number", 6), Type3("dtmf", CmceType3ElemId.Dtmf),
      Facility, Type3("poll_response_addresses", CmceType3ElemId.PollResponseAddr),
      Proprietary, Trailing>>
DInfoWrite ==
    <<Fixed(5, CmcePduTypeDl.DInfo), Field("call_identifier", 14),
      Flag("reset_call_time_out_timer_t310_"), Flag("poll_request"),
      Obit(Optional(DInfo)), Type2("new_call_identifier", 14),
      Type2("call_time_out", 4), Type2("call_time_out_set_up_phase_t301_t302_", 3),
      Type2("call_ownership", 1), Type2("modify", 9), Type2("call_status", 3),
      Type2("temporary_address", 24), Type2("notification_indicator", 6),
      Type2("poll_response_percentage", 6), Type2("poll_response_number", 6),
      Type3("dtmf", CmceType3ElemId.Dtmf), Facility,
      Type3("poll_response_addresses", CmceType3ElemId.PollResponseAddr),
      Proprietary, Trailing>>
DInfoValid ==
    <<Fits([call_identifier |-> 14, new_call_identifier |-> 14, call_time_out |-> 4,
            call_time_out_set_up_phase_t301_t302_ |-> 3, call_ownership |-> 1,
            modify |-> 9, call_status |-> 3, temporary_address |-> 24,
            notification_indicator |-> 6, poll_response_percentage |-> 6,
            poll_response_number |-> 6])>>

DRelease ==
    [call_identifier |-> U(16), disconnect_cause |-> Enum(DisconnectCause),
     notification_indicator |-> Option(U(64)), facility |-> Option(T3),
     proprietary |-> Option(T3)]
DReleaseRead ==
    <<Fixed(5, CmcePduTypeDl.DRelease), Field("call_identifier", 14),
      Code("disconnect_cause", 5, DisconnectCause), ReadObit,
      Type2("notification_indicator", 6), Facility, Proprietary, Trailing>>
DReleaseWrite ==
    <<Fixed(5, CmcePduTypeDl.DRelease), Field("call_identifier", 14),
      Field("disconnect_cause", 5), Obit(Optional(DRelease)),
      Type2("notification_indicator", 6), Facility, Proprietary, Trailing>>
DReleaseValid == <<Fits([call_identifier |-> 14, notification_indicator |-> 6])>>

DSetup ==
    [call_identifier |-> U(16), call_time_out |-> Enum(CallTimeout),
     hook_method_selection |-> Bool, simplex_duplex_selection |-> Bool,
     basic_service_information |-> Struct(BsiCodec),
     transmission_grant |-> Enum(TransmissionGrant),
     transmission_request_permission |-> Bool, call_priority |-> U(8),
     notification_indicator |-> Option(U(64)), temporary_address |-> Option(U(64)),
     calling_party_address_ssi |-> Option(U(32)),
     calling_party_extension |-> Option(U(32)),
     external_subscriber_number |-> Option(T3), facility |-> Option(T3),
     dm_ms_address |-> Option(T3), proprietary |-> Option(T3)]
DSetupRead ==
    <<Fixed(5, CmcePduTypeDl.DSetup), Field("call_identifier", 14),
      Code("call_time_out", 4, CallTimeout), Flag("hook_method_selection"),
      Flag("simplex_duplex_selection"), Sub("basic_service_information", BsiCodec),
      Code("transmission_grant", 2, TransmissionGrant),
      Flag("transmission_request_permission"), Field("call_priority", 4), ReadObit,
      Type2("notification_indicator", 6), Type2("temporary_address", 24),
      Type2("calling_party_type_identifier", 2),
      When("calling_party_type_identifier", {1, 2}, <<Field("calling_party_address_ssi", 24)>>),
      When("calling_party_type_identifier", {2}, <<Field("calling_party_extension", 24)>>),
      ExternalSubscriberNumber, Facility, DmMsAddress, Proprietary, Trailing>>
DSetupWrite ==
    <<Fixed(5, CmcePduTypeDl.DSetup), Field("call_identifier", 14),
      Field("call_time_out", 4), Flag("hook_method_selection"),
      Flag("simplex_duplex_selection"), Sub("basic_service_information", BsiCodec),
      Field("transmission_grant", 2), Flag("transmission_request_permission"),
      Field("call_priority", 4), Obit(Optional(DSetup)),
      Type2("notification_indicator", 6), Type2("temporary_address", 24),
      Opt("calling_party_address_ssi", <<CallingPartyType>>),
      Some("calling_party_address_ssi", <<Field("calling_party_address_ssi", 24)>>),
      Some("calling_party_extension", <<Field("calling_party_extension", 24)>>),
      ExternalSubscriberNumber, Facility, DmMsAddress, Proprietary, Trailing>>
DSetupValid ==
    <<Fits([call_identifier |-> 14, call_priority |-> 4,
            notification_indicator |-> 6, temporary_address |-> 24,
            calling_party_address_ssi |-> 24, calling_party_extension |-> 24]),
      Inner("basic_service_information", BasicServiceInformationValid),
      Needs("calling_party_extension", "calling_party_address_ssi")>>

DTxCeased ==
    [call_identifier |-> U(16), transmission_request_permission |-> Bool,
     notification_indicator |-> Option(U(64)), facility |-> Option(T3),
     dm_ms_address |-> Option(T3), proprietary |-> Option(T3)]
DTxCeasedRead ==
    <<Fixed(5, CmcePduTypeDl.DTxCeased), Field("call_identifier", 14),
      Flag("transmission_request_permission"), ReadObit,
      Type2("notification_indicator", 6), Facility, DmMsAddress, Proprietary,
      Trailing>>
DTxCeasedWrite ==
    <<Fixed(5, CmcePduTypeDl.DTxCeased), Field("call_identifier", 14),
      Flag("transmission_request_permission"), Obit(Optional(DTxCeased)),
      Type2("notification_indicator", 6), Facility, DmMsAddress, Proprietary,
      Trailing>>
DTxCeasedValid == <<Fits([call_identifier |-> 14, notification_indicator |-> 6])>>

DTxContinue ==
    [call_identifier |-> U(16), do_continue |-> Bool,
     transmission_request_permission |-> Bool,
     notification_indicator |-> Option(U(64)), facility |-> Option(T3),
     dm_ms_address |-> Option(T3), proprietary |-> Option(T3)]
DTxContinueRead ==
    <<Fixed(5, CmcePduTypeDl.DTxContinue), Field("call_identifier", 14),
      Flag("do_continue"), Flag("transmission_request_permission"), ReadObit,
      Type2("notification_indicator", 6), Facility, DmMsAddress, Proprietary,
      Trailing>>
DTxContinueWrite ==
    <<Fixed(5, CmcePduTypeDl.DTxContinue), Field("call_identifier", 14),
      Flag("do_continue"), Flag("transmission_request_permission"),
      Obit(Optional(DTxContinue)), Type2("notification_indicator", 6), Facility,
      DmMsAddress, Proprietary, Trailing>>
DTxContinueValid == <<Fits([call_identifier |-> 14, notification_indicator |-> 6])>>

DTxGranted ==
    [call_identifier |-> U(16), transmission_grant |-> U(8),
     transmission_request_permission |-> Bool, encryption_control |-> Bool,
     reserved |-> Bool, notification_indicator |-> Option(U(64)),
     transmitting_party_type_identifier |-> Option(U(64)),
     transmitting_party_address_ssi |-> Option(U(64)),
     transmitting_party_extension |-> Option(U(64)),
     external_subscriber_number |-> Option(T3), facility |-> Option(T3),
     dm_ms_address |-> Option(T3), proprietary |-> Option(T3)]
DTxGrantedRead ==
    <<Fixed(5, CmcePduTypeDl.DTxGranted), Field("call_identifier", 14),
      Field("transmission_grant", 2), Flag("transmission_request_permission"),
      Flag("encryption_control"), Code("reserved", 1, {0}), ReadObit,
      Type2("notification_indicator", 6),
      Opt("transmitting_party_type_identifier", <<Code("transmitting_party_type_identifier", 2, {1, 2})>>),
      When("transmitting_party_type_identifier", {1, 2}, <<Field("transmitting_party_address_ssi", 24)>>),
      When("transmitting_party_type_identifier", {2}, <<Field("transmitting_party_extension", 24)>>),
      ExternalSubscriberNumber, Facility, DmMsAddress, Proprietary, Trailing>>
DTxGrantedWrite ==
    <<Fixed(5, CmcePduTypeDl.DTxGranted), Field("call_identifier", 14),
      Field("transmission_grant", 2), Flag("transmission_request_permission"),
      Flag("encryption_control"), Flag("reserved"),
      Obit(Optional(DTxGranted) \ {"transmitting_party_address_ssi", "transmitting_party_extension"}),
      Type2("notification_indicator", 6),
      Type2("transmitting_party_type_identifier", 2),
      Some("transmitting_party_address_ssi", <<Field("transmitting_party_address_ssi", 24)>>),
      Some("transmitting_party_extension", <<Field("transmitting_party_extension", 24)>>),
      ExternalSubscriberNumber, Facility, DmMsAddress, Proprietary, Trailing>>
DTxGrantedValid ==
    <<Fits([call_identifier |-> 14, transmission_grant |-> 2,
            notification_indicator |-> 6, transmitting_party_address_ssi |-> 24,
            transmitting_party_extension |-> 24]),
      Is("reserved", {0}),
      Shape("transmitting_party_type_identifier", TransmittingPartyShape)>>

DTxInterrupt ==
    [call_identifier |-> U(16), transmission_grant |-> U(8),
     transmission_request_permission |-> Bool, encryption_control |-> Bool,
     reserved |-> Bool, notification_indicator |-> Option(U(64)),
     transmitting_party_type_identifier |-> Option(U(64)),
     transmitting_party_address_ssi |-> Option(U(64)),
     transmitting_party_extension |-> Option(U(64)),
     external_subscriber_number |-> Option(T3), facility |-> Option(T3),
     dm_ms_address |-> Option(T3), proprietary |-> Option(T3)]
DTxInterruptRead ==
    <<Fixed(5, CmcePduTypeDl.DTxInterrupt), Field("call_identifier", 14),
      Field("transmission_grant", 2), Flag("transmission_request_permission"),
      Flag("encryption_control"), Code("reserved", 1, {0}), ReadObit,
      Type2("notification_indicator", 6),
      Opt("transmitting_party_type_identifier", <<Code("transmitting_party_type_identifier", 2, {1, 2})>>),
      When("transmitting_party_type_identifier", {1, 2}, <<Field("transmitting_party_address_ssi", 24)>>),
      When("transmitting_party_type_identifier", {2}, <<Field("transmitting_party_extension", 24)>>),
      ExternalSubscriberNumber, Facility, DmMsAddress, Proprietary, Trailing>>
DTxInterruptWrite ==
    <<Fixed(5, CmcePduTypeDl.DTxInterrupt), Field("call_identifier", 14),
      Field("transmission_grant", 2), Flag("transmission_request_permission"),
      Flag("encryption_control"), Flag("reserved"),
      Obit(Optional(DTxInterrupt) \ {"transmitting_party_address_ssi", "transmitting_party_extension"}),
      Type2("notification_indicator", 6),
      Type2("transmitting_party_type_identifier", 2),
      Some("transmitting_party_address_ssi", <<Field("transmitting_party_address_ssi", 24)>>),
      Some("transmitting_party_extension", <<Field("transmitting_party_extension", 24)>>),
      ExternalSubscriberNumber, Facility, DmMsAddress, Proprietary, Trailing>>
DTxInterruptValid ==
    <<Fits([call_identifier |-> 14, transmission_grant |-> 2,
            notification_indicator |-> 6, transmitting_party_address_ssi |-> 24,
            transmitting_party_extension |-> 24]),
      Is("reserved", {0}),
      Shape("transmitting_party_type_identifier", TransmittingPartyShape)>>

DTxWait ==
    [call_identifier |-> U(16), transmission_request_permission |-> Bool,
     notification_indicator |-> Option(U(64)), facility |-> Option(T3),
     dm_ms_address |-> Option(T3), proprietary |-> Option(T3)]
DTxWaitRead ==
    <<Fixed(5, CmcePduTypeDl.DTxWait), Field("call_identifier", 14),
      Flag("transmission_request_permission"), ReadObit,
      Type2("notification_indicator", 6), Facility, DmMsAddress, Proprietary,
      Trailing>>
DTxWaitWrite ==
    <<Fixed(5, CmcePduTypeDl.DTxWait), Field("call_identifier", 14),
      Flag("transmission_request_permission"), Obit(Optional(DTxWait)),
      Type2("notification_indicator", 6), Facility, DmMsAddress, Proprietary,
      Trailing>>
DTxWaitValid == <<Fits([call_identifier |-> 14, notification_indicator |-> 6])>>

DFacility == Nothing
DFacilityRead == <<Fixed(5, CmcePduTypeDl.DFacility), ReadObit, Trailing>>
DFacilityWrite == <<Fixed(5, CmcePduTypeDl.DFacility), Fixed(1, 0)>>

DStatus ==
    [calling_party_type_identifier |-> Enum(PartyTypeIdentifier),
     calling_party_address_ssi |-> Option(U(64)),
     calling_party_extension |-> Option(U(64)), pre_coded_status |-> U(16),
     external_subscriber_number |-> Option(T3), dm_ms_address |-> Option(T3)]
DStatusRead ==
    <<Fixed(5, CmcePduTypeDl.DStatus),
      Code("calling_party_type_identifier", 2, {1, 2}),
      When("calling_party_type_identifier", {1, 2}, <<Field("calling_party_address_ssi", 24)>>),
      When("calling_party_type_identifier", {2}, <<Field("calling_party_extension", 24)>>),
      Field("pre_coded_status", 16), ReadObit, ExternalSubscriberNumber,
      DmMsAddress, Trailing>>
DStatusWrite ==
    <<Fixed(5, CmcePduTypeDl.DStatus), Field("calling_party_type_identifier", 2),
      Some("calling_party_address_ssi", <<Field("calling_party_address_ssi", 24)>>),
      Some("calling_party_extension", <<Field("calling_party_extension", 24)>>),
      Field("pre_coded_status", 16),
      Obit({"external_subscriber_number", "dm_ms_address"}),
      ExternalSubscriberNumber, DmMsAddress, Trailing>>
DStatusValid ==
    <<Shape("calling_party_type_identifier", CallingPartyShape),
      Fits([calling_party_address_ssi |-> 24, calling_party_extension |-> 24])>>

DSdsData ==
    [calling_party_type_identifier |-> Enum(PartyTypeIdentifier),
     calling_party_address_ssi |-> Option(U(64)),
     calling_party_extension |-> Option(U(64)),
     user_defined_data |-> Struct(SdsUserDataCodec),
     external_subscriber_number |-> Option(T3), dm_ms_address |-> Option(T3)]
DSdsDataRead ==
    <<Fixed(5, CmcePduTypeDl.DSdsData),
      Code("calling_party_type_identifier", 2, {1, 2}),
      When("calling_party_type_identifier", {1, 2}, <<Field("calling_party_address_ssi", 24)>>),
      When("calling_party_type_identifier", {2}, <<Field("calling_party_extension", 24)>>),
      Sub("user_defined_data", SdsUserDataCodec), ReadObit,
      ExternalSubscriberNumber, DmMsAddress, Trailing>>
DSdsDataWrite ==
    <<Fixed(5, CmcePduTypeDl.DSdsData), Field("calling_party_type_identifier", 2),
      Some("calling_party_address_ssi", <<Field("calling_party_address_ssi", 24)>>),
      Some("calling_party_extension", <<Field("calling_party_extension", 24)>>),
      Sub("user_defined_data", SdsUserDataCodec),
      Obit({"external_subscriber_number", "dm_ms_address"}),
      ExternalSubscriberNumber, DmMsAddress, Trailing>>
DSdsDataValid ==
    <<Shape("calling_party_type_identifier", CallingPartyShape),
      Fits([calling_party_address_ssi |-> 24, calling_party_extension |-> 24])>>

UAlert ==
    [call_identifier |-> U(16), reserved |-> Bool,
     simplex_duplex_selection |-> Bool,
     basic_service_information |-> Option(Struct(BsiCodec)),
     facility |-> Option(T3), proprietary |-> Option(T3)]
UAlertRead ==
    <<Fixed(5, CmcePduTypeUl.UAlert), Field("call_identifier", 14),
      Flag("reserved"), Flag("simplex_duplex_selection"), ReadObit,
      OptSub("basic_service_information", BsiCodec), Facility, Proprietary,
      Trailing>>
UAlertWrite ==
    <<Fixed(5, CmcePduTypeUl.UAlert), Field("call_identifier", 14),
      Flag("reserved"), Flag("simplex_duplex_selection"), Obit(Optional(UAlert)),
      OptSub("basic_service_information", BsiCodec), Facility, Proprietary,
      Trailing>>
UAlertValid ==
    <<Fits([call_identifier |-> 14]), Is("reserved", {1}),
      Inner("basic_service_information", BasicServiceInformationValid)>>

UCallRestore ==
    [call_identifier |-> U(16), request_to_transmit_send_data |-> Bool,
     other_party_type_identifier |-> U(8),
     other_party_short_number_address |-> Option(U(64)),
     other_party_ssi |-> Option(U(64)), other_party_extension |-> Option(U(64)),
     basic_service_information |-> Option(Struct(BsiCodec)),
     facility |-> Option(T3), dm_ms_address |-> Option(T3),
     proprietary |-> Option(T3)]
UCallRestoreRead ==
    <<Fixed(5, CmcePduTypeUl.UCallRestore), Field("call_identifier", 14),
      Flag("request_to_transmit_send_data"),
      Field("other_party_type_identifier", 2),
      When("other_party_type_identifier", {0}, <<Field("other_party_short_number_address", 8)>>),
      When("other_party_type_identifier", {1, 2}, <<Field("other_party_ssi", 24)>>),
      When("other_party_type_identifier", {2}, <<Field("other_party_extension", 24)>>),
      ReadObit, OptSub("basic_service_information", BsiCodec), Facility,
      DmMsAddress, Proprietary, Trailing>>
UCallRestoreWrite ==
    <<Fixed(5, CmcePduTypeUl.UCallRestore), Field("call_identifier", 14),
      Flag("request_to_transmit_send_data"),
      Field("other_party_type_identifier", 2),
      Some("other_party_short_number_address", <<Field("other_party_short_number_address", 8)>>),
      Some("other_party_ssi", <<Field("other_party_ssi", 24)>>),
      Some("other_party_extension", <<Field("other_party_extension", 24)>>),
      Obit({"basic_service_information", "facility", "dm_ms_address", "proprietary"}),
      OptSub("basic_service_information", BsiCodec), Facility, DmMsAddress,
      Proprietary, Trailing>>
UCallRestoreValid ==
    <<Fits([call_identifier |-> 14, other_party_short_number_address |-> 8,
            other_party_ssi |-> 24, other_party_extension |-> 24]),
      Shape("other_party_type_identifier", OtherPartyShape),
      Required("basic_service_information"),
      Inner("basic_service_information", BasicServiceInformationValid)>>

UConnect ==
    [call_identifier |-> U(16), hook_method_selection |-> Bool,
     simplex_duplex_selection |-> Bool,
     basic_service_information |-> Option(Struct(BsiCodec)),
     facility |-> Option(T3), proprietary |-> Option(T3)]
UConnectRead ==
    <<Fixed(5, CmcePduTypeUl.UConnect), Field("call_identifier", 14),
      Flag("hook_method_selection"), Flag("simplex_duplex_selection"), ReadObit,
      OptSub("basic_service_information", BsiCodec), Facility, Proprietary,
      Trailing>>
UConnectWrite ==
    <<Fixed(5, CmcePduTypeUl.UConnect), Field("call_identifier", 14),
      Flag("hook_method_selection"), Flag("simplex_duplex_selection"),
      Obit(Optional(UConnect)), OptSub("basic_service_information", BsiCodec),
      Facility, Proprietary, Trailing>>
UConnectValid ==
    <<Fits([call_identifier |-> 14]),
      Inner("basic_service_information", BasicServiceInformationValid)>>

UDisconnect ==
    [call_identifier |-> U(16), disconnect_cause |-> Enum(DisconnectCause),
     facility |-> Option(T3), proprietary |-> Option(T3)]
UDisconnectRead ==
    <<Fixed(5, CmcePduTypeUl.UDisconnect), Field("call_identifier", 14),
      Code("disconnect_cause", 5, DisconnectCause), ReadObit, Facility, Proprietary,
      Trailing>>
UDisconnectWrite ==
    <<Fixed(5, CmcePduTypeUl.UDisconnect), Field("call_identifier", 14),
      Field("disconnect_cause", 5), Obit(Optional(UDisconnect)), Facility,
      Proprietary, Trailing>>
UDisconnectValid == <<Fits([call_identifier |-> 14])>>

UInfo ==
    [call_identifier |-> U(16), poll_response |-> Bool, modify |-> Option(U(64)),
     dtmf |-> Option(T3), facility |-> Option(T3), proprietary |-> Option(T3)]
UInfoRead ==
    <<Fixed(5, CmcePduTypeUl.UInfo), Field("call_identifier", 14),
      Flag("poll_response"), ReadObit, Type2("modify", 9),
      Type3("dtmf", CmceType3ElemId.Dtmf), Facility, Proprietary, Trailing>>
UInfoWrite ==
    <<Fixed(5, CmcePduTypeUl.UInfo), Field("call_identifier", 14),
      Flag("poll_response"), Obit(Optional(UInfo)), Type2("modify", 9),
      Type3("dtmf", CmceType3ElemId.Dtmf), Facility, Proprietary, Trailing>>
UInfoValid == <<Fits([call_identifier |-> 14, modify |-> 9])>>

URelease ==
    [call_identifier |-> U(16), disconnect_cause |-> Enum(DisconnectCause),
     facility |-> Option(T3), proprietary |-> Option(T3)]
UReleaseRead ==
    <<Fixed(5, CmcePduTypeUl.URelease), Field("call_identifier", 14),
      Code("disconnect_cause", 5, DisconnectCause), ReadObit, Facility, Proprietary,
      Trailing>>
UReleaseWrite ==
    <<Fixed(5, CmcePduTypeUl.URelease), Field("call_identifier", 14),
      Field("disconnect_cause", 5), Obit(Optional(URelease)), Facility, Proprietary,
      Trailing>>
UReleaseValid == <<Fits([call_identifier |-> 14])>>

USetup ==
    [area_selection |-> U(8), hook_method_selection |-> Bool,
     simplex_duplex_selection |-> Bool,
     basic_service_information |-> Struct(BsiCodec),
     request_to_transmit_send_data |-> Bool, call_priority |-> U(8),
     clir_control |-> U(8),
     called_party_type_identifier |-> Enum(PartyTypeIdentifier),
     called_party_short_number_address |-> Option(U(64)),
     called_party_ssi |-> Option(U(64)), called_party_extension |-> Option(U(64)),
     external_subscriber_number |-> Option(T3), facility |-> Option(T3),
     dm_ms_address |-> Option(T3), proprietary |-> Option(T3)]
USetupRead ==
    <<Fixed(5, CmcePduTypeUl.USetup), Field("area_selection", 4),
      Flag("hook_method_selection"), Flag("simplex_duplex_selection"),
      Sub("basic_service_information", BsiCodec),
      Flag("request_to_transmit_send_data"), Field("call_priority", 4),
      Field("clir_control", 2),
      Code("called_party_type_identifier", 2, PartyTypeIdentifier),
      When("called_party_type_identifier", {0}, <<Field("called_party_short_number_address", 8)>>),
      When("called_party_type_identifier", {1, 2}, <<Field("called_party_ssi", 24)>>),
      When("called_party_type_identifier", {2}, <<Field("called_party_extension", 24)>>),
      ReadObit, ExternalSubscriberNumber, Facility, DmMsAddress, Proprietary,
      Trailing>>
USetupWrite ==
    <<Fixed(5, CmcePduTypeUl.USetup), Field("area_selection", 4),
      Flag("hook_method_selection"), Flag("simplex_duplex_selection"),
      Sub("basic_service_information", BsiCodec),
      Flag("request_to_transmit_send_data"), Field("call_priority", 4),
      Field("clir_control", 2), Field("called_party_type_identifier", 2),
      Some("called_party_short_number_address", <<Field("called_party_short_number_address", 8)>>),
      Some("called_party_ssi", <<Field("called_party_ssi", 24)>>),
      Some("called_party_extension", <<Field("called_party_extension", 24)>>),
      Obit({"external_subscriber_number", "facility", "dm_ms_address", "proprietary"}),
      ExternalSubscriberNumber, Facility, DmMsAddress, Proprietary, Trailing>>
USetupValid ==
    <<Fits([area_selection |-> 4, call_priority |-> 4, clir_control |-> 2,
            called_party_short_number_address |-> 8, called_party_ssi |-> 24,
            called_party_extension |-> 24]),
      Inner("basic_service_information", BasicServiceInformationValid),
      Shape("called_party_type_identifier", CalledPartyShape)>>

UStatus ==
    [area_selection |-> U(8),
     called_party_type_identifier |-> Enum(PartyTypeIdentifier),
     called_party_short_number_address |-> Option(U(64)),
     called_party_ssi |-> Option(U(64)), called_party_extension |-> Option(U(64)),
     pre_coded_status |-> U(16), external_subscriber_number |-> Option(T3),
     dm_ms_address |-> Option(T3)]
UStatusRead ==
    <<Fixed(5, CmcePduTypeUl.UStatus), Field("area_selection", 4),
      Code("called_party_type_identifier", 2, {0, 1, 2}),
      When("called_party_type_identifier", {0}, <<Field("called_party_short_number_address", 8)>>),
      When("called_party_type_identifier", {1, 2}, <<Field("called_party_ssi", 24)>>),
      When("called_party_type_identifier", {2}, <<Field("called_party_extension", 24)>>),
      Field("pre_coded_status", 16), ReadObit, ExternalSubscriberNumber,
      DmMsAddress, Trailing>>
UStatusWrite ==
    <<Fixed(5, CmcePduTypeUl.UStatus), Field("area_selection", 4),
      Field("called_party_type_identifier", 2),
      Some("called_party_short_number_address", <<Field("called_party_short_number_address", 8)>>),
      Some("called_party_ssi", <<Field("called_party_ssi", 24)>>),
      Some("called_party_extension", <<Field("called_party_extension", 24)>>),
      Field("pre_coded_status", 16),
      Obit({"external_subscriber_number", "dm_ms_address"}),
      ExternalSubscriberNumber, DmMsAddress, Trailing>>
UStatusValid ==
    <<Fits([area_selection |-> 4, called_party_short_number_address |-> 8,
            called_party_ssi |-> 24, called_party_extension |-> 24]),
      Shape("called_party_type_identifier", CalledPartyShape)>>

USdsData ==
    [area_selection |-> U(8),
     called_party_type_identifier |-> Enum(PartyTypeIdentifier),
     called_party_short_number_address |-> Option(U(64)),
     called_party_ssi |-> Option(U(64)), called_party_extension |-> Option(U(64)),
     user_defined_data |-> Struct(SdsUserDataCodec),
     external_subscriber_number |-> Option(T3), dm_ms_address |-> Option(T3)]
USdsDataRead ==
    <<Fixed(5, CmcePduTypeUl.USdsData), Field("area_selection", 4),
      Code("called_party_type_identifier", 2, {0, 1, 2}),
      When("called_party_type_identifier", {0}, <<Field("called_party_short_number_address", 8)>>),
      When("called_party_type_identifier", {1, 2}, <<Field("called_party_ssi", 24)>>),
      When("called_party_type_identifier", {2}, <<Field("called_party_extension", 24)>>),
      Sub("user_defined_data", SdsUserDataCodec), ReadObit,
      ExternalSubscriberNumber, DmMsAddress, Trailing>>
USdsDataWrite ==
    <<Fixed(5, CmcePduTypeUl.USdsData), Field("area_selection", 4),
      Field("called_party_type_identifier", 2),
      Some("called_party_short_number_address", <<Field("called_party_short_number_address", 8)>>),
      Some("called_party_ssi", <<Field("called_party_ssi", 24)>>),
      Some("called_party_extension", <<Field("called_party_extension", 24)>>),
      Sub("user_defined_data", SdsUserDataCodec),
      Obit({"external_subscriber_number", "dm_ms_address"}),
      ExternalSubscriberNumber, DmMsAddress, Trailing>>
USdsDataValid ==
    <<Fits([area_selection |-> 4, called_party_short_number_address |-> 8,
            called_party_ssi |-> 24, called_party_extension |-> 24]),
      Shape("called_party_type_identifier", CalledPartyShape)>>

UTxCeased ==
    [call_identifier |-> U(16), facility |-> Option(T3),
     dm_ms_address |-> Option(T3), proprietary |-> Option(T3)]
UTxCeasedRead ==
    <<Fixed(5, CmcePduTypeUl.UTxCeased), Field("call_identifier", 14), ReadObit,
      Facility, DmMsAddress, Proprietary, Trailing>>
UTxCeasedWrite ==
    <<Fixed(5, CmcePduTypeUl.UTxCeased), Field("call_identifier", 14),
      Obit(Optional(UTxCeased)), Facility, DmMsAddress, Proprietary, Trailing>>
UTxCeasedValid == <<Fits([call_identifier |-> 14])>>

UTxDemand ==
    [call_identifier |-> U(16), tx_demand_priority |-> U(8),
     encryption_control |-> Bool, reserved |-> Bool, facility |-> Option(T3),
     dm_ms_address |-> Option(T3), proprietary |-> Option(T3)]
UTxDemandRead ==
    <<Fixed(5, CmcePduTypeUl.UTxDemand), Field("call_identifier", 14),
      Field("tx_demand_priority", 2), Flag("encryption_control"), Flag("reserved"),
      ReadObit, Facility, DmMsAddress, Proprietary, Trailing>>
UTxDemandWrite ==
    <<Fixed(5, CmcePduTypeUl.UTxDemand), Field("call_identifier", 14),
      Field("tx_demand_priority", 2), Flag("encryption_control"), Flag("reserved"),
      Obit(Optional(UTxDemand)), Facility, DmMsAddress, Proprietary, Trailing>>
UTxDemandValid ==
    <<Fits([call_identifier |-> 14, tx_demand_priority |-> 2]),
      Is("reserved", {0})>>

UFacility == Nothing
UFacilityRead == <<Fixed(5, CmcePduTypeUl.UFacility), ReadObit, Trailing>>
UFacilityWrite == <<Fixed(5, CmcePduTypeUl.UFacility), Fixed(1, 0)>>

CmceFunctionNotSupported ==
    [not_supported_pdu_type |-> Trusted(5), call_identifier_present |-> Bool,
     call_identifier |-> Option(Trusted(14)),
     function_not_supported_pointer |-> U(8),
     received_pdu_extract |-> Option(Block({0, 8, 255, 256}))]
CmceFunctionNotSupportedRead ==
    <<Fixed(5, CmcePduTypeDl.CmceFunctionNotSupported),
      Field("not_supported_pdu_type", 5), Flag("call_identifier_present"),
      When("call_identifier_present", {1}, <<Field("call_identifier", 14)>>),
      Field("function_not_supported_pointer", 8),
      When("function_not_supported_pointer", 1..255, <<Counted("received_pdu_extract", 8, 0..255)>>),
      ReadObit, Trailing>>
CmceFunctionNotSupportedWrite ==
    <<Fixed(5, CmcePduTypeDl.CmceFunctionNotSupported),
      Field("not_supported_pdu_type", 5), Flag("call_identifier_present"),
      Some("call_identifier", <<Field("call_identifier", 14)>>),
      Field("function_not_supported_pointer", 8),
      When("function_not_supported_pointer", 1..255, <<Counted("received_pdu_extract", 8, 0..255)>>),
      Fixed(1, 0)>>
CmceFunctionNotSupportedValid ==
    <<Iff("call_identifier_present", {1}, "call_identifier"),
      Iff("function_not_supported_pointer", 1..255, "received_pdu_extract"),
      Length("received_pdu_extract", 0..255, TRUE)>>
-----------------------------------------------------------------------------
\* Every PDU of the CMCE.
CmcePdus ==
    [DAlert |-> Pdu(DAlert, DAlertRead, DAlertWrite, DAlertValid),
     DCallProceeding |->
        Pdu(DCallProceeding, DCallProceedingRead, DCallProceedingWrite,
            DCallProceedingValid),
     DCallRestore |->
        Checked(Pdu(DCallRestore, DCallRestoreRead, DCallRestoreWrite,
            DCallRestoreValid)),
     DConnect |-> Pdu(DConnect, DConnectRead, DConnectWrite, DConnectValid),
     DConnectAcknowledge |->
        Pdu(DConnectAcknowledge, DConnectAcknowledgeRead, DConnectAcknowledgeWrite,
            DConnectAcknowledgeValid),
     DDisconnect |->
        Pdu(DDisconnect, DDisconnectRead, DDisconnectWrite, DDisconnectValid),
     DInfo |-> Pdu(DInfo, DInfoRead, DInfoWrite, DInfoValid),
     DRelease |-> Pdu(DRelease, DReleaseRead, DReleaseWrite, DReleaseValid),
     DSetup |-> Based(Pdu(DSetup, DSetupRead, DSetupWrite, DSetupValid), CallingParty),
     DTxCeased |-> Pdu(DTxCeased, DTxCeasedRead, DTxCeasedWrite, DTxCeasedValid),
     DTxContinue |->
        Pdu(DTxContinue, DTxContinueRead, DTxContinueWrite, DTxContinueValid),
     DTxGranted |->
        Based(Pdu(DTxGranted, DTxGrantedRead, DTxGrantedWrite, DTxGrantedValid),
            TransmittingPartyBase),
     DTxInterrupt |->
        Based(Pdu(DTxInterrupt, DTxInterruptRead, DTxInterruptWrite,
            DTxInterruptValid), TransmittingPartyBase),
     DTxWait |-> Pdu(DTxWait, DTxWaitRead, DTxWaitWrite, DTxWaitValid),
     DFacility |-> Pdu(DFacility, DFacilityRead, DFacilityWrite, <<>>),
     DStatus |->
        Based(Pdu(DStatus, DStatusRead, DStatusWrite, DStatusValid), CallingParty),
     DSdsData |->
        Based(Pdu(DSdsData, DSdsDataRead, DSdsDataWrite, DSdsDataValid), CallingParty),
     UAlert |-> Pdu(UAlert, UAlertRead, UAlertWrite, UAlertValid),
     UCallRestore |->
        Based(Checked(Pdu(UCallRestore, UCallRestoreRead, UCallRestoreWrite,
            UCallRestoreValid)), OtherParty),
     UConnect |-> Pdu(UConnect, UConnectRead, UConnectWrite, UConnectValid),
     UDisconnect |->
        Pdu(UDisconnect, UDisconnectRead, UDisconnectWrite, UDisconnectValid),
     UInfo |-> Pdu(UInfo, UInfoRead, UInfoWrite, UInfoValid),
     URelease |-> Pdu(URelease, UReleaseRead, UReleaseWrite, UReleaseValid),
     USetup |-> Based(Pdu(USetup, USetupRead, USetupWrite, USetupValid), CalledParty),
     UStatus |->
        Based(Pdu(UStatus, UStatusRead, UStatusWrite, UStatusValid), CalledParty),
     USdsData |->
        Based(Pdu(USdsData, USdsDataRead, USdsDataWrite, USdsDataValid), CalledParty),
     UTxCeased |-> Pdu(UTxCeased, UTxCeasedRead, UTxCeasedWrite, UTxCeasedValid),
     UTxDemand |-> Pdu(UTxDemand, UTxDemandRead, UTxDemandWrite, UTxDemandValid),
     UFacility |-> Pdu(UFacility, UFacilityRead, UFacilityWrite, <<>>),
     CmceFunctionNotSupported |->
        Based(Pdu(CmceFunctionNotSupported, CmceFunctionNotSupportedRead,
            CmceFunctionNotSupportedWrite, CmceFunctionNotSupportedValid),
            <<{"received_pdu_extract"}, {"call_identifier", "received_pdu_extract"}>>)]
=============================================================================

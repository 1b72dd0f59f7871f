------------------------------ MODULE MmCodec -------------------------------
(***************************************************************************)
(* The PDUs of mobility management: registration, energy saving and the     *)
(* attachment of group identities (tetra-pdus/src/mm).  As in CmceCodec, X, *)
(* XRead, XWrite and XValid are the struct, its from_bitbuf, its to_bitbuf  *)
(* and its validation.                                                      *)
(***************************************************************************)
EXTENDS PduCodec

EnergySavingMode == 0..7
LocationUpdateAcceptType == 0..7
LocationUpdateType == 0..7
StatusDownlink == (1..5) \cup {7, 8} \cup (16..24) \cup (32..63)
StatusUplink == (1..7) \cup (16..24) \cup (32..63)
\* The only downlink statuses whose information is implemented.
EnergySavingStatus == {1, 2}

MmPduTypeDl ==
    [DLocationUpdateAccept |-> 5, DLocationUpdateCommand |-> 6,
     DLocationUpdateReject |-> 7, DLocationUpdateProceeding |-> 9,
     DAttachDetachGroupIdentity |-> 10,
     DAttachDetachGroupIdentityAcknowledgement |-> 11, DMmStatus |-> 12,
     MmPduFunctionNotSupported |-> 15]
MmPduTypeUl ==
    [UItsiDetach |-> 1, ULocationUpdateDemand |-> 2, UMmStatus |-> 3,
     UAttachDetachGroupIdentity |-> 7,
     UAttachDetachGroupIdentityAcknowledgement |-> 8, UTeiProvide |-> 9]
MmType34ElemIdDl ==
    [DefaultGroupAttachLifetime |-> 1, NewRegisteredArea |-> 2, SecurityDownlink |-> 3,
     GroupReportResponse |-> 4, GroupIdentityLocationAccept |-> 5,
     GroupIdentityDownlink |-> 7, AuthenticationDownlink |-> 10,
     GroupIdentitySecurityRelatedInformation |-> 12, CellTypeControl |-> 13,
     Proprietary |-> 15]
MmType34ElemIdUl ==
    [GroupIdentityLocationDemand |-> 3, GroupReportResponse |-> 4,
     GroupIdentityUplink |-> 8, AuthenticationUplink |-> 9,
     ExtendedCapabilities |-> 11, Proprietary |-> 15]

ProprietaryDl == Type3("proprietary", MmType34ElemIdDl.Proprietary)
ProprietaryUl == Type3("proprietary", MmType34ElemIdUl.Proprietary)
CellTypeControl == Type3("cell_type_control", MmType34ElemIdDl.CellTypeControl)
SecurityRelatedInformation ==
    Type4("group_identity_security_related_information",
          MmType34ElemIdDl.GroupIdentitySecurityRelatedInformation)

\* validate_type3_generic_field, validate_group_report_response.
ValidProprietary == Element({"proprietary"}, 1, 128)
ValidGroupReport == Element({"group_report_response"}, 1, 1)
\* The 10 ciphering parameters are there when cipher control says so.
CipherConsistent == Iff("cipher_control", {1}, "ciphering_parameters")
CipherRead == When("cipher_control", {1}, <<Field("ciphering_parameters", 10)>>)
CipherWrite ==
    Some("ciphering_parameters", <<Must(Fits([ciphering_parameters |-> 10])),
                                   Field("ciphering_parameters", 10)>>)

-----------------------------------------------------------------------------
(* Fields with a layout of their own.                                       *)

\* A mode other than to stay alive (0) has a frame and multiframe to start at.
EnergySavingInformation ==
    [energy_saving_mode |-> Enum(EnergySavingMode), frame_number |-> Option(U(8)),
     multiframe_number |-> Option(U(8))]
EnergySavingInformationRead ==
    <<Code("energy_saving_mode", 3, EnergySavingMode),
      When("energy_saving_mode", {0}, <<Fixed(5, 0), Fixed(6, 0)>>),
      When("energy_saving_mode", 1..7,
           <<Code("frame_number", 5, 1..18), Code("multiframe_number", 6, 1..60)>>)>>
EnergySavingInformationWrite ==
    <<Field("energy_saving_mode", 3),
      When("energy_saving_mode", {0},
           <<Must(Absent({"frame_number", "multiframe_number"})), Fixed(11, 0)>>),
      When("energy_saving_mode", 1..7,
           <<Must(Required("frame_number")), Must(Is("frame_number", 1..18)),
             Field("frame_number", 5),
             Must(Required("multiframe_number")), Must(Is("multiframe_number", 1..60)),
             Field("multiframe_number", 6)>>)>>
EsiCodec ==
    Based(Pdu(EnergySavingInformation, EnergySavingInformationRead,
              EnergySavingInformationWrite, <<>>),
          <<{"frame_number", "multiframe_number"}, {}>>)

Flags(ns) == [i \in DOMAIN ns |-> Flag(ns[i])]
Capabilities ==
    <<"freq_simplex_duplex", "multislot_phase_mod", "concurrent_multicarrier", "voice",
      "e2e_encryption_not_supported", "circuit_mode_data", "tetra_packet_data",
      "fast_switching", "dck_encryption", "clch_needed", "concurrent_circuit_mode",
      "original_advanced_link", "minimum_mode", "carrier_specific_signalling",
      "authentication", "sck_encryption">>
MoreCapabilities ==
    <<"common_scch", "reserved_21", "mac_d_blck", "extended_advanced_link", "d8psk">>
ClassOfMs ==
    [n \in {Capabilities[i] : i \in 1..16} \cup {MoreCapabilities[i] : i \in 1..5} |-> Bool]
    @@ [air_interface_version |-> Trusted(3)]
ClassOfMsRead ==
    Flags(Capabilities) \o <<Field("air_interface_version", 3)>> \o Flags(MoreCapabilities)
ClassOfMsWrite ==
    Flags(Capabilities) \o <<Field("air_interface_version", 3)>> \o Flags(MoreCapabilities)
ClassOfMsCodec == Pdu(ClassOfMs, ClassOfMsRead, ClassOfMsWrite, <<>>)

GroupIdentityAttachment ==
    [group_identity_attachment_lifetime |-> U(8), class_of_usage |-> U(8)]
GroupIdentityAttachmentRead ==
    <<Field("group_identity_attachment_lifetime", 2), Field("class_of_usage", 3)>>
GroupIdentityAttachmentWrite ==
    <<Field("group_identity_attachment_lifetime", 2), Field("class_of_usage", 3)>>
AttachmentCodec ==
    Pdu(GroupIdentityAttachment, GroupIdentityAttachmentRead,
        GroupIdentityAttachmentWrite, <<>>)

\* A group by GSSI, GTSI, V(GSSI) or all of them, attached or detached.
GroupAddress == {"gssi", "address_extension", "vgssi"}
AddressTypeDl ==
    Select("address_type", 2,
           <<<<GroupAddress, 3>>, <<{"gssi", "address_extension"}, 1>>, <<{"gssi"}, 0>>,
             <<{}, 2>>>>)
AttachDetachDl ==
    Select("attach_detach_type_identifier", 1,
           <<<<{"group_identity_attachment"}, 0>>, <<{}, 1>>>>)
GroupIdentityDownlink ==
    [group_identity_attachment |-> Option(Struct(AttachmentCodec)),
     group_identity_detachment_uplink |-> Option(U(8)), gssi |-> Option(U(32)),
     address_extension |-> Option(U(32)), vgssi |-> Option(U(32))]
GroupIdentityDownlinkRead ==
    <<AttachDetachDl,
      When("attach_detach_type_identifier", {0},
           <<Sub("group_identity_attachment", AttachmentCodec)>>),
      When("attach_detach_type_identifier", {1},
           <<Field("group_identity_detachment_uplink", 2)>>),
      AddressTypeDl,
      When("address_type", {0, 1, 3}, <<Field("gssi", 24)>>),
      When("address_type", {1, 3}, <<Field("address_extension", 24)>>),
      When("address_type", {2, 3}, <<Field("vgssi", 24)>>)>>
GroupIdentityDownlinkWrite ==
    <<AttachDetachDl,
      Some("group_identity_attachment", <<Sub("group_identity_attachment", AttachmentCodec)>>),
      Some("group_identity_detachment_uplink",
           <<Field("group_identity_detachment_uplink", 2)>>),
      AddressTypeDl,
      Some("gssi", <<Field("gssi", 24)>>),
      Some("address_extension", <<Field("address_extension", 24)>>),
      Some("vgssi", <<Field("vgssi", 24)>>)>>
GroupIdentityDownlinkValid ==
    <<OneOf({"group_identity_attachment", "group_identity_detachment_uplink"}),
      Inner("group_identity_attachment",
            <<Fits([group_identity_attachment_lifetime |-> 2, class_of_usage |-> 3])>>),
      Fits([group_identity_detachment_uplink |-> 2, gssi |-> 24,
            address_extension |-> 24, vgssi |-> 24]),
      Among(GroupAddress, {{"gssi"}, {"gssi", "address_extension"}, {"vgssi"}, GroupAddress})>>
GidCodec ==
    Checked(Based(Pdu(GroupIdentityDownlink, GroupIdentityDownlinkRead,
                      GroupIdentityDownlinkWrite, GroupIdentityDownlinkValid),
                  <<{"group_identity_attachment", "gssi"},
                    {"group_identity_attachment", "gssi", "address_extension"},
                    {"group_identity_detachment_uplink", "vgssi"},
                    GroupAddress \cup {"group_identity_detachment_uplink"}>>))

AddressTypeUl ==
    Select("address_type", 2,
           <<<<{"gssi", "address_extension"}, 1>>, <<{"gssi"}, 0>>, <<{}, 2>>>>)
AttachDetachUl ==
    Select("attach_detach_type_identifier", 1, <<<<{"class_of_usage"}, 0>>, <<{}, 1>>>>)
GroupIdentityUplink ==
    [class_of_usage |-> Option(U(8)), group_identity_detachment_uplink |-> Option(U(8)),
     gssi |-> Option(U(32)), address_extension |-> Option(U(32)), vgssi |-> Option(U(32))]
GroupIdentityUplinkRead ==
    <<AttachDetachUl,
      When("attach_detach_type_identifier", {0}, <<Field("class_of_usage", 3)>>),
      When("attach_detach_type_identifier", {1},
           <<Field("group_identity_detachment_uplink", 2)>>),
      AddressTypeUl,
      When("address_type", {0, 1}, <<Field("gssi", 24)>>),
      When("address_type", {1}, <<Field("address_extension", 24)>>),
      When("address_type", {2}, <<Field("vgssi", 24)>>)>>
GroupIdentityUplinkWrite ==
    <<AttachDetachUl,
      Some("class_of_usage", <<Field("class_of_usage", 3)>>),
      Some("group_identity_detachment_uplink",
           <<Field("group_identity_detachment_uplink", 2)>>),
      AddressTypeUl,
      Some("gssi", <<Field("gssi", 24)>>),
      Some("address_extension", <<Field("address_extension", 24)>>),
      Some("vgssi", <<Field("vgssi", 24)>>)>>
GroupIdentityUplinkValid ==
    <<OneOf({"class_of_usage", "group_identity_detachment_uplink"}),
      Fits([class_of_usage |-> 3, group_identity_detachment_uplink |-> 2, gssi |-> 24,
            address_extension |-> 24, vgssi |-> 24]),
      Among(GroupAddress, {{"gssi"}, {"gssi", "address_extension"}, {"vgssi"}})>>
GiuCodec ==
    Checked(Based(Pdu(GroupIdentityUplink, GroupIdentityUplinkRead,
                      GroupIdentityUplinkWrite, GroupIdentityUplinkValid),
                  <<{"class_of_usage", "gssi"},
                    {"class_of_usage", "gssi", "address_extension"},
                    {"group_identity_detachment_uplink", "vgssi"}>>))

\* validate_group_identity_downlink_collection and its uplink twin: a list that
\* is not empty and each element of which can be serialised.
ValidDownlinkCollection ==
    <<NonEmpty("group_identity_downlink"),
      Each("group_identity_downlink", GroupIdentityDownlinkValid)>>
ValidUplinkCollection ==
    <<NonEmpty("group_identity_uplink"),
      Each("group_identity_uplink", GroupIdentityUplinkValid)>>
DownlinkGroups ==
    Type4Sub("group_identity_downlink", MmType34ElemIdDl.GroupIdentityDownlink, GidCodec)
UplinkGroups ==
    Type4Sub("group_identity_uplink", MmType34ElemIdUl.GroupIdentityUplink, GiuCodec)

GroupIdentityLocationAccept ==
    [group_identity_accept_reject |-> U(8),
     group_identity_downlink |-> Option(List(GidCodec))]
GroupIdentityLocationAcceptRead ==
    <<Field("group_identity_accept_reject", 1), Fixed(1, 0), ReadObit,
      DownlinkGroups, Trailing>>
GroupIdentityLocationAcceptWrite ==
    <<Field("group_identity_accept_reject", 1), Fixed(1, 0),
      Obit({"group_identity_downlink"}), DownlinkGroups, Trailing>>
GroupIdentityLocationAcceptValid ==
    <<Fits([group_identity_accept_reject |-> 1]),
      NonEmpty("group_identity_downlink")>>
GilaCodec ==
    Checked(Pdu(GroupIdentityLocationAccept, GroupIdentityLocationAcceptRead,
                GroupIdentityLocationAcceptWrite, GroupIdentityLocationAcceptValid))

GroupIdentityLocationDemand ==
    [group_identity_attach_detach_mode |-> U(8),
     group_identity_uplink |-> Option(List(GiuCodec))]
GroupIdentityLocationDemandRead ==
    <<Fixed(1, 0), Field("group_identity_attach_detach_mode", 1), ReadObit,
      UplinkGroups, Trailing>>
GroupIdentityLocationDemandWrite ==
    <<Fixed(1, 0), Field("group_identity_attach_detach_mode", 1),
      Obit({"group_identity_uplink"}), UplinkGroups, Trailing>>
GroupIdentityLocationDemandValid ==
    <<Fits([group_identity_attach_detach_mode |-> 1]),
      NonEmpty("group_identity_uplink")>>
GildCodec ==
    Checked(Pdu(GroupIdentityLocationDemand, GroupIdentityLocationDemandRead,
                GroupIdentityLocationDemandWrite, GroupIdentityLocationDemandValid))

-----------------------------------------------------------------------------
(* The PDUs.                                                                *)

\* parse_d_attach_detach_group_identity_options and its acknowledgement twin.
AcknowledgementOptions ==
    AnyOrder(<<DownlinkGroups, SecurityRelatedInformation, ProprietaryDl>>)
AttachDetachOptions ==
    AnyOrder(<<Type3("group_report_response", MmType34ElemIdDl.GroupReportResponse),
               DownlinkGroups, SecurityRelatedInformation, ProprietaryDl>>)

DAttachDetachGroupIdentity ==
    [group_identity_report |-> Bool,
     group_identity_acknowledgement_request |-> Bool,
     group_identity_attach_detach_mode |-> Bool, proprietary |-> Option(T3any),
     group_report_response |-> Option(T3any),
     group_identity_downlink |-> Option(List(GidCodec)),
     group_identity_security_related_information |-> Option(T4any)]
DAttachDetachGroupIdentityRead ==
    <<Fixed(4, MmPduTypeDl.DAttachDetachGroupIdentity),
      Flag("group_identity_report"), Flag("group_identity_acknowledgement_request"),
      Flag("group_identity_attach_detach_mode"), ReadObit, AttachDetachOptions>>
DAttachDetachGroupIdentityWrite ==
    <<Fixed(4, MmPduTypeDl.DAttachDetachGroupIdentity),
      Flag("group_identity_report"), Flag("group_identity_acknowledgement_request"),
      Flag("group_identity_attach_detach_mode"),
      Obit(Optional(DAttachDetachGroupIdentity)),
      Type3("group_report_response", MmType34ElemIdDl.GroupReportResponse),
      DownlinkGroups, SecurityRelatedInformation, ProprietaryDl, Trailing>>
DAttachDetachGroupIdentityValid ==
    <<ValidProprietary, ValidGroupReport,
      Elements("group_identity_security_related_information")>>
    \o ValidDownlinkCollection

DAttachDetachGroupIdentityAcknowledgement ==
    [group_identity_accept_reject |-> U(8), reserved |-> Bool,
     proprietary |-> Option(T3any),
     group_identity_downlink |-> Option(List(GidCodec)),
     group_identity_security_related_information |-> Option(T4any)]
DAttachDetachGroupIdentityAcknowledgementRead ==
    <<Fixed(4, MmPduTypeDl.DAttachDetachGroupIdentityAcknowledgement),
      Field("group_identity_accept_reject", 1), Flag("reserved"), ReadObit,
      AcknowledgementOptions>>
DAttachDetachGroupIdentityAcknowledgementWrite ==
    <<Fixed(4, MmPduTypeDl.DAttachDetachGroupIdentityAcknowledgement),
      Flag("group_identity_accept_reject"), Flag("reserved"),
      Obit(Optional(DAttachDetachGroupIdentityAcknowledgement)), DownlinkGroups,
      SecurityRelatedInformation, ProprietaryDl, Trailing>>
DAttachDetachGroupIdentityAcknowledgementValid ==
    <<Fits([group_identity_accept_reject |-> 1]), Is("reserved", {0}),
      ValidProprietary, Elements("group_identity_security_related_information")>>
    \o ValidDownlinkCollection

DLocationUpdateAccept ==
    [location_update_accept_type |-> Enum(LocationUpdateAcceptType),
     ssi |-> Option(U(64)), address_extension |-> Option(U(64)),
     subscriber_class |-> Option(U(64)),
     energy_saving_information |-> Option(Struct(EsiCodec)),
     scch_information_and_distribution_on_18th_frame |-> Option(U(64)),
     new_registered_area |-> Option(T4any), security_downlink |-> Option(T3),
     group_identity_location_accept |-> Option(Struct(GilaCodec)),
     default_group_attachment_lifetime |-> Option(T3),
     authentication_downlink |-> Option(T3),
     group_identity_security_related_information |-> Option(T4any),
     cell_type_control |-> Option(T3), proprietary |-> Option(T3)]
DLocationUpdateAcceptRead ==
    <<Fixed(4, MmPduTypeDl.DLocationUpdateAccept),
      Code("location_update_accept_type", 3, LocationUpdateAcceptType), ReadObit,
      Type2("ssi", 24), Type2("address_extension", 24),
      Type2("subscriber_class", 16), OptSub("energy_saving_information", EsiCodec),
      Type2("scch_information_and_distribution_on_18th_frame", 6),
      Type4("new_registered_area", MmType34ElemIdDl.NewRegisteredArea),
      Type3("security_downlink", MmType34ElemIdDl.SecurityDownlink),
      Type3Sub("group_identity_location_accept",
               MmType34ElemIdDl.GroupIdentityLocationAccept, GilaCodec),
      Type3("default_group_attachment_lifetime",
            MmType34ElemIdDl.DefaultGroupAttachLifetime),
      Type3("authentication_downlink", MmType34ElemIdDl.AuthenticationDownlink),
      SecurityRelatedInformation, CellTypeControl, ProprietaryDl, Trailing>>
DLocationUpdateAcceptWrite ==
    <<Fixed(4, MmPduTypeDl.DLocationUpdateAccept),
      Field("location_update_accept_type", 3),
      Obit(Optional(DLocationUpdateAccept)), Type2("ssi", 24),
      Type2("address_extension", 24), Type2("subscriber_class", 16),
      OptSub("energy_saving_information", EsiCodec),
      Type2("scch_information_and_distribution_on_18th_frame", 6),
      Type4("new_registered_area", MmType34ElemIdDl.NewRegisteredArea),
      Type3("security_downlink", MmType34ElemIdDl.SecurityDownlink),
      Type3Sub("group_identity_location_accept",
               MmType34ElemIdDl.GroupIdentityLocationAccept, GilaCodec),
      Type3("default_group_attachment_lifetime",
            MmType34ElemIdDl.DefaultGroupAttachLifetime),
      Type3("authentication_downlink", MmType34ElemIdDl.AuthenticationDownlink),
      SecurityRelatedInformation, CellTypeControl, ProprietaryDl, Trailing>>
DLocationUpdateAcceptValid ==
    <<Fits([ssi |-> 24, address_extension |-> 24, subscriber_class |-> 16,
            scch_information_and_distribution_on_18th_frame |-> 6])>>

DLocationUpdateCommand ==
    [group_identity_report |-> Bool, cipher_control |-> Bool,
     ciphering_parameters |-> Option(U(64)),
     address_extension |-> Option(Trusted(24)), cell_type_control |-> Option(T3),
     proprietary |-> Option(T3)]
DLocationUpdateCommandRead ==
    <<Fixed(4, MmPduTypeDl.DLocationUpdateCommand), Flag("group_identity_report"),
      Flag("cipher_control"), CipherRead, ReadObit, Type2("address_extension", 24),
      CellTypeControl, ProprietaryDl, Trailing>>
DLocationUpdateCommandWrite ==
    <<Fixed(4, MmPduTypeDl.DLocationUpdateCommand), Flag("group_identity_report"),
      Flag("cipher_control"), Must(CipherConsistent), CipherWrite,
      Obit(Optional(DLocationUpdateCommand) \ {"ciphering_parameters"}),
      Type2("address_extension", 24), CellTypeControl, ProprietaryDl, Trailing>>

DLocationUpdateReject ==
    [location_update_type |-> Enum(LocationUpdateType), reject_cause |-> Trusted(5),
     cipher_control |-> Bool, ciphering_parameters |-> Option(U(64)),
     address_extension |-> Option(Trusted(24)), cell_type_control |-> Option(T3),
     proprietary |-> Option(T3)]
DLocationUpdateRejectRead ==
    <<Fixed(4, MmPduTypeDl.DLocationUpdateReject),
      Code("location_update_type", 3, LocationUpdateType), Field("reject_cause", 5),
      Flag("cipher_control"), CipherRead, ReadObit, Type2("address_extension", 24),
      CellTypeControl, ProprietaryDl, Trailing>>
DLocationUpdateRejectWrite ==
    <<Fixed(4, MmPduTypeDl.DLocationUpdateReject), Field("location_update_type", 3),
      Field("reject_cause", 5), Flag("cipher_control"), Must(CipherConsistent),
      CipherWrite, Obit(Optional(DLocationUpdateReject) \ {"ciphering_parameters"}),
      Type2("address_extension", 24), CellTypeControl, ProprietaryDl, Trailing>>

DLocationUpdateProceeding ==
    [ssi |-> U(32), address_extension |-> U(32), proprietary |-> Option(T3any)]
DLocationUpdateProceedingRead ==
    <<Fixed(4, MmPduTypeDl.DLocationUpdateProceeding), Field("ssi", 24),
      Field("address_extension", 24), ReadObit, ProprietaryDl, Trailing>>
DLocationUpdateProceedingWrite ==
    <<Fixed(4, MmPduTypeDl.DLocationUpdateProceeding), Field("ssi", 24),
      Field("address_extension", 24), Obit(Optional(DLocationUpdateProceeding)),
      ProprietaryDl, Trailing>>
DLocationUpdateProceedingValid ==
    <<Fits([ssi |-> 24, address_extension |-> 24]), ValidProprietary>>

DMmStatus ==
    [status_downlink |-> Enum(StatusDownlink),
     energy_saving_information |-> Option(Struct(EsiCodec))]
DMmStatusRead ==
    <<Fixed(4, MmPduTypeDl.DMmStatus), Code("status_downlink", 6, StatusDownlink),
      Must(Is("status_downlink", EnergySavingStatus)),
      Sub("energy_saving_information", EsiCodec)>>
DMmStatusWrite ==
    <<Fixed(4, MmPduTypeDl.DMmStatus), Field("status_downlink", 6),
      Must(Is("status_downlink", EnergySavingStatus)),
      Must(Required("energy_saving_information")),
      Sub("energy_saving_information", EsiCodec)>>

MmPduFunctionNotSupported ==
    [not_supported_pdu_type |-> Trusted(4),
     not_supported_sub_pdu_type |-> Option(Tail64)]
MmPduFunctionNotSupportedRead ==
    <<Fixed(4, MmPduTypeDl.MmPduFunctionNotSupported),
      Field("not_supported_pdu_type", 4), ReadObit,
      Opt("not_supported_sub_pdu_type", <<Rest("not_supported_sub_pdu_type", 1)>>),
      Trailing, End(TRUE)>>
MmPduFunctionNotSupportedWrite ==
    <<Fixed(4, MmPduTypeDl.MmPduFunctionNotSupported),
      Field("not_supported_pdu_type", 4), Obit({"not_supported_sub_pdu_type"}),
      Must(Element({"not_supported_sub_pdu_type"}, 0, 64)),
      Opt("not_supported_sub_pdu_type", <<Rest("not_supported_sub_pdu_type", 1)>>),
      Trailing>>

UAttachDetachGroupIdentity ==
    [group_identity_report |-> Bool, group_identity_attach_detach_mode |-> Bool,
     group_report_response |-> Option(T3any),
     group_identity_uplink |-> Option(List(GiuCodec)),
     proprietary |-> Option(T3any)]
UAttachDetachGroupIdentityRead ==
    <<Fixed(4, MmPduTypeUl.UAttachDetachGroupIdentity),
      Flag("group_identity_report"), Flag("group_identity_attach_detach_mode"),
      ReadObit,
      Type3("group_report_response", MmType34ElemIdUl.GroupReportResponse),
      UplinkGroups, ProprietaryUl, Trailing>>
UAttachDetachGroupIdentityWrite ==
    <<Fixed(4, MmPduTypeUl.UAttachDetachGroupIdentity),
      Flag("group_identity_report"), Flag("group_identity_attach_detach_mode"),
      Obit(Optional(UAttachDetachGroupIdentity)),
      Type3("group_report_response", MmType34ElemIdUl.GroupReportResponse),
      UplinkGroups, ProprietaryUl, Trailing>>
UAttachDetachGroupIdentityValid == <<ValidGroupReport, ValidProprietary>>
    \o ValidUplinkCollection

UAttachDetachGroupIdentityAcknowledgement ==
    [group_identity_acknowledgement_type |-> Bool,
     group_identity_uplink |-> Option(List(GiuCodec)),
     proprietary |-> Option(T3any)]
UAttachDetachGroupIdentityAcknowledgementRead ==
    <<Fixed(4, MmPduTypeUl.UAttachDetachGroupIdentityAcknowledgement),
      Flag("group_identity_acknowledgement_type"), ReadObit, UplinkGroups,
      ProprietaryUl, Trailing>>
UAttachDetachGroupIdentityAcknowledgementWrite ==
    <<Fixed(4, MmPduTypeUl.UAttachDetachGroupIdentityAcknowledgement),
      Flag("group_identity_acknowledgement_type"),
      Obit(Optional(UAttachDetachGroupIdentityAcknowledgement)), UplinkGroups,
      ProprietaryUl, Trailing>>
UAttachDetachGroupIdentityAcknowledgementValid == <<ValidProprietary>>
    \o ValidUplinkCollection

UItsiDetach == [address_extension |-> Option(U(64)), proprietary |-> Option(T3any)]
UItsiDetachRead ==
    <<Fixed(4, MmPduTypeUl.UItsiDetach), ReadObit, Type2("address_extension", 24),
      ProprietaryUl, Trailing>>
UItsiDetachWrite ==
    <<Fixed(4, MmPduTypeUl.UItsiDetach), Obit(Optional(UItsiDetach)),
      Type2("address_extension", 24), ProprietaryUl, Trailing>>
UItsiDetachValid == <<Fits([address_extension |-> 24]), ValidProprietary>>

ULocationUpdateDemand ==
    [location_update_type |-> Enum(LocationUpdateType),
     request_to_append_la |-> Bool, cipher_control |-> Bool,
     ciphering_parameters |-> Option(U(64)),
     class_of_ms |-> Option(Struct(ClassOfMsCodec)),
     energy_saving_mode |-> Option(Enum(EnergySavingMode)),
     la_information |-> Option(U(64)), ssi |-> Option(U(64)),
     address_extension |-> Option(U(64)),
     group_identity_location_demand |-> Option(Struct(GildCodec)),
     group_report_response |-> Option(T3), authentication_uplink |-> Option(T3),
     extended_capabilities |-> Option(T3), proprietary |-> Option(T3)]
ULocationUpdateDemandRead ==
    <<Fixed(4, MmPduTypeUl.ULocationUpdateDemand),
      Code("location_update_type", 3, LocationUpdateType),
      Flag("request_to_append_la"), Flag("cipher_control"), CipherRead, ReadObit,
      OptSub("class_of_ms", ClassOfMsCodec),
      Opt("energy_saving_mode", <<Code("energy_saving_mode", 3, EnergySavingMode)>>),
      Opt("la_information", <<Field("la_information", 14), Spare(1)>>),
      Type2("ssi", 24), Type2("address_extension", 24),
      Type3Sub("group_identity_location_demand",
               MmType34ElemIdUl.GroupIdentityLocationDemand, GildCodec),
      Type3("group_report_response", MmType34ElemIdUl.GroupReportResponse),
      Type3("authentication_uplink", MmType34ElemIdUl.AuthenticationUplink),
      Type3("extended_capabilities", MmType34ElemIdUl.ExtendedCapabilities),
      ProprietaryUl, Trailing>>
ULocationUpdateDemandWrite ==
    <<Fixed(4, MmPduTypeUl.ULocationUpdateDemand), Field("location_update_type", 3),
      Flag("request_to_append_la"), Flag("cipher_control"), CipherWrite,
      Obit(Optional(ULocationUpdateDemand) \ {"ciphering_parameters"}),
      OptSub("class_of_ms", ClassOfMsCodec), Type2("energy_saving_mode", 3),
      Opt("la_information", <<Field("la_information", 14), Spare(1)>>),
      Type2("ssi", 24), Type2("address_extension", 24),
      Type3Sub("group_identity_location_demand",
               MmType34ElemIdUl.GroupIdentityLocationDemand, GildCodec),
      Type3("group_report_response", MmType34ElemIdUl.GroupReportResponse),
      Type3("authentication_uplink", MmType34ElemIdUl.AuthenticationUplink),
      Type3("extended_capabilities", MmType34ElemIdUl.ExtendedCapabilities),
      ProprietaryUl, Trailing>>
ULocationUpdateDemandValid ==
    <<CipherConsistent,
      Fits([ciphering_parameters |-> 10, la_information |-> 14, ssi |-> 24,
            address_extension |-> 24])>>

UMmStatus ==
    [status_uplink |-> Enum(StatusUplink),
     status_uplink_dependent_information |-> Option(Tail64)]
UMmStatusRead ==
    <<Fixed(4, MmPduTypeUl.UMmStatus), Code("status_uplink", 6, StatusUplink),
      Rest("status_uplink_dependent_information", 0)>>
UMmStatusWrite ==
    <<Fixed(4, MmPduTypeUl.UMmStatus), Field("status_uplink", 6),
      Must(Element({"status_uplink_dependent_information"}, 0, 64)),
      Rest("status_uplink_dependent_information", 0)>>

UTeiProvide == [tei |-> Bits(60), proprietary |-> Option(T3)]
UTeiProvideRead ==
    <<Fixed(4, MmPduTypeUl.UTeiProvide), Raw("tei", 60), ReadObit, ProprietaryUl,
      Trailing>>
UTeiProvideWrite ==
    <<Fixed(4, MmPduTypeUl.UTeiProvide), Raw("tei", 60), Obit({"proprietary"}),
      ProprietaryUl, Trailing>>
-----------------------------------------------------------------------------
\* Every PDU of the MM.
MmPdus ==
    [DAttachDetachGroupIdentity |->
        Checked(Pdu(DAttachDetachGroupIdentity, DAttachDetachGroupIdentityRead,
            DAttachDetachGroupIdentityWrite, DAttachDetachGroupIdentityValid)),
     DAttachDetachGroupIdentityAcknowledgement |->
        Checked(Pdu(DAttachDetachGroupIdentityAcknowledgement,
            DAttachDetachGroupIdentityAcknowledgementRead,
            DAttachDetachGroupIdentityAcknowledgementWrite,
            DAttachDetachGroupIdentityAcknowledgementValid)),
     DLocationUpdateAccept |->
        Pdu(DLocationUpdateAccept, DLocationUpdateAcceptRead,
            DLocationUpdateAcceptWrite, DLocationUpdateAcceptValid),
     DLocationUpdateCommand |->
        Based(Pdu(DLocationUpdateCommand, DLocationUpdateCommandRead,
            DLocationUpdateCommandWrite, <<>>), <<{"ciphering_parameters"}, {}>>),
     DLocationUpdateReject |->
        Based(Pdu(DLocationUpdateReject, DLocationUpdateRejectRead,
            DLocationUpdateRejectWrite, <<>>), <<{"ciphering_parameters"}, {}>>),
     DLocationUpdateProceeding |->
        Checked(Pdu(DLocationUpdateProceeding, DLocationUpdateProceedingRead,
            DLocationUpdateProceedingWrite, DLocationUpdateProceedingValid)),
     DMmStatus |-> Based(Pdu(DMmStatus, DMmStatusRead, DMmStatusWrite, <<>>),
                        <<{"energy_saving_information"}>>),
     MmPduFunctionNotSupported |->
        Pdu(MmPduFunctionNotSupported, MmPduFunctionNotSupportedRead,
            MmPduFunctionNotSupportedWrite, <<>>),
     UAttachDetachGroupIdentity |->
        Checked(Pdu(UAttachDetachGroupIdentity, UAttachDetachGroupIdentityRead,
            UAttachDetachGroupIdentityWrite, UAttachDetachGroupIdentityValid)),
     UAttachDetachGroupIdentityAcknowledgement |->
        Checked(Pdu(UAttachDetachGroupIdentityAcknowledgement,
            UAttachDetachGroupIdentityAcknowledgementRead,
            UAttachDetachGroupIdentityAcknowledgementWrite,
            UAttachDetachGroupIdentityAcknowledgementValid)),
     UItsiDetach |->
        Checked(Pdu(UItsiDetach, UItsiDetachRead, UItsiDetachWrite, UItsiDetachValid)),
     ULocationUpdateDemand |->
        Checked(Based(Pdu(ULocationUpdateDemand, ULocationUpdateDemandRead,
            ULocationUpdateDemandWrite, ULocationUpdateDemandValid),
            <<{"ciphering_parameters"}, {}>>)),
     UMmStatus |-> Pdu(UMmStatus, UMmStatusRead, UMmStatusWrite, <<>>),
     UTeiProvide |-> Pdu(UTeiProvide, UTeiProvideRead, UTeiProvideWrite, <<>>)]
=============================================================================

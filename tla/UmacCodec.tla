------------------------------ MODULE UmacCodec -----------------------------
(***************************************************************************)
(* The PDUs of the upper MAC (tetra-pdus/src/umac).  A TetraAddress is the  *)
(* field of its type: ssi (also for an ISSI or a GSSI: the air interface    *)
(* does not tell them apart), ussi, smi, or esi for a type that cannot be   *)
(* sent.                                                                    *)
(***************************************************************************)
EXTENDS PduCodec

ReservationRequirement == 0..15
BasicSlotgrantCapAlloc == 0..15
BasicSlotgrantGrantingDelay == 0..15
ChanAllocType == 0..3
Augmented == 0
UlDlAssignment == 0..3

BasicSlotgrant ==
    [capacity_allocation |-> Enum(BasicSlotgrantCapAlloc),
     granting_delay |-> Enum(BasicSlotgrantGrantingDelay)]
BasicSlotgrantRead ==
    <<Code("capacity_allocation", 4, BasicSlotgrantCapAlloc),
      Code("granting_delay", 4, BasicSlotgrantGrantingDelay)>>
BasicSlotgrantWrite ==
    <<Field("capacity_allocation", 4), Field("granting_delay", 4)>>
SlotgrantCodec == Pdu(BasicSlotgrant, BasicSlotgrantRead, BasicSlotgrantWrite, <<>>)

\* A channel allocation; ts_assigned is the bitmap of the slots, ext stands for
\* an extended carrier numbering, which this stack does not support.
ChanAllocElement ==
    [alloc_type |-> Enum(ChanAllocType), ts_assigned |-> Trusted(4),
     ul_dl_assigned |-> Enum(UlDlAssignment), clch_permission |-> Bool,
     cell_change_flag |-> Bool, carrier_num |-> Trusted(12), ext |-> Option(Bool),
     mon_pattern |-> Trusted(2), frame18_mon_pattern |-> Option(Trusted(2))]
IsSupportedByThisStack(v) == ~Has(v, "ext") /\ v.ul_dl_assigned # Augmented
ChanAllocElementRead ==
    <<Code("alloc_type", 2, ChanAllocType), Field("ts_assigned", 4),
      Code("ul_dl_assigned", 2, UlDlAssignment \ {Augmented}), Flag("clch_permission"),
      Flag("cell_change_flag"), Field("carrier_num", 12), Fixed(1, 0),
      Field("mon_pattern", 2),
      When("mon_pattern", {0}, <<Field("frame18_mon_pattern", 2)>>)>>
ChanAllocElementWrite ==
    <<Field("alloc_type", 2), Field("ts_assigned", 4), Field("ul_dl_assigned", 2),
      Flag("clch_permission"), Flag("cell_change_flag"), Field("carrier_num", 12),
      Fixed(1, 0), Field("mon_pattern", 2),
      When("mon_pattern", {0}, <<Field("frame18_mon_pattern", 2)>>)>>
ComputeLen(v) ==
    IF ~IsSupportedByThisStack(v) THEN 0 ELSE IF v.mon_pattern = 0 THEN 27 ELSE 25
\* As the scheduler builds it, and one that is not supported.
ChanAllocs ==
    LET p == [Plain(ChanAllocElement, {}) EXCEPT !.ul_dl_assigned = 3, !.mon_pattern = 3]
    IN {p, [p EXCEPT !.alloc_type = 0, !.ts_assigned = 9, !.ul_dl_assigned = 1],
        [p EXCEPT !.mon_pattern = 0] @@ [frame18_mon_pattern |-> 2],
        [p EXCEPT !.ul_dl_assigned = Augmented], p @@ [ext |-> 1]}
ChanAllocCodec ==
    Only(Pdu(ChanAllocElement, ChanAllocElementRead, ChanAllocElementWrite, <<>>), ChanAllocs)
\* An unsupported channel allocation is left out.
WriteChanAlloc ==
    If(<<Required("chan_alloc_element"),
         Inner("chan_alloc_element", <<Is("ul_dl_assigned", 1..3), Absent({"ext"})>>)>>,
       <<Flagged("chan_alloc_element", <<Sub("chan_alloc_element", ChanAllocCodec)>>)>>,
       <<Fixed(1, 0)>>)
ReadSlotgrant ==
    Flagged("slot_granting_element", <<Sub("slot_granting_element", SlotgrantCodec)>>)
WriteSlotgrant ==
    Flagged("slot_granting_element", <<Sub("slot_granting_element", SlotgrantCodec)>>)
ReadChanAlloc ==
    Flagged("chan_alloc_element", <<Sub("chan_alloc_element", ChanAllocCodec)>>)

\* The address of an uplink PDU.
Addresses == {"ssi", "ussi", "smi", "esi"}
UplinkAddr ==
    [ssi |-> Option(U(32)), ussi |-> Option(U(32)), smi |-> Option(U(32)),
     esi |-> Option(U(32)), event_label |-> Option(U(16))]
EventLabels == 1..1022
ReadUplinkAddr ==
    <<Field("addr_type", 2),
      Switch("addr_type",
             0 :> <<Field("ssi", 24)>> @@ 1 :> <<Code("event_label", 10, EventLabels)>> @@
             2 :> <<Field("ussi", 24)>> @@ 3 :> <<Field("smi", 24)>>)>>
WriteUplinkAddr ==
    <<Some("ssi", <<Fixed(2, 0), Field("ssi", 24)>>),
      Some("ussi", <<Fixed(2, 2), Field("ussi", 24)>>),
      Some("smi", <<Fixed(2, 3), Field("smi", 24)>>),
      Some("event_label", <<Fixed(2, 1), Field("event_label", 10)>>)>>
ValidUplinkAddr ==
    <<OneOf(Addresses \cup {"event_label"}), Fits([ssi |-> 24, ussi |-> 24, smi |-> 24]),
      Absent({"esi"}), Forbids("encrypted", {1}, Addresses), Is("event_label", EventLabels)>>

MacAccess ==
    UplinkAddr @@
    [fill_bits |-> Bool, encrypted |-> Bool, length_ind |-> Option(U(8)),
     frag_flag |-> Option(Bool), reservation_req |-> Option(Enum(ReservationRequirement))]
CapacityRequest == {"frag_flag", "reservation_req"}
MacAccessRead ==
    <<Fixed(1, 0), Flag("fill_bits"), Flag("encrypted")>> \o ReadUplinkAddr \o
    <<Field("optional_field_flag", 1),
      When("optional_field_flag", {1},
           <<Field("length_ind_or_cap_req", 1),
             When("length_ind_or_cap_req", {0}, <<Field("length_ind", 5)>>),
             When("length_ind_or_cap_req", {1},
                  <<Flag("frag_flag"),
                    Code("reservation_req", 4, ReservationRequirement)>>)>>)>>
MacAccessWrite ==
    <<Fixed(1, 0), Flag("fill_bits"), Flag("encrypted")>> \o WriteUplinkAddr \o
    <<If(<<Absent({"length_ind"} \cup CapacityRequest)>>, <<Fixed(1, 0)>>,
         <<Fixed(1, 1),
           If(<<Required("length_ind")>>, <<Fixed(1, 0), Field("length_ind", 5)>>,
              <<Fixed(1, 1), Flag("frag_flag"), Field("reservation_req", 4)>>)>>)>>
MacAccessValid ==
    ValidUplinkAddr \o
    <<Fits([length_ind |-> 5]),
      Among({"length_ind"} \cup CapacityRequest, {{}, {"length_ind"}, CapacityRequest})>>

MacData == MacAccess
MacDataRead ==
    <<Fixed(2, 0), Flag("fill_bits"), Flag("encrypted")>> \o ReadUplinkAddr \o
    <<Field("length_ind_or_cap_req", 1),
      When("length_ind_or_cap_req", {0}, <<Field("length_ind", 6)>>),
      When("length_ind_or_cap_req", {1},
           <<Flag("frag_flag"), Code("reservation_req", 4, ReservationRequirement),
             Slack(1)>>)>>
MacDataWrite ==
    <<Fixed(2, 0), Flag("fill_bits"), Flag("encrypted")>> \o WriteUplinkAddr \o
    <<If(<<Required("length_ind")>>, <<Fixed(1, 0), Field("length_ind", 6)>>,
         <<Fixed(1, 1), Flag("frag_flag"), Field("reservation_req", 4), Slack(1)>>)>>
MacDataValid ==
    ValidUplinkAddr \o
    <<Fits([length_ind |-> 6]),
      Among({"length_ind"} \cup CapacityRequest, {{"length_ind"}, CapacityRequest})>>

MacDBlck ==
    [fill_bits |-> Bool, encryption_mode |-> U(8), event_label |-> U(16),
     imm_napping_permission |-> Bool,
     slot_granting_element |-> Option(Struct(SlotgrantCodec))]
MacDBlckRead ==
    <<Fixed(2, 3), Fixed(1, 0), Flag("fill_bits"), Field("encryption_mode", 2),
      Field("event_label", 10), Flag("imm_napping_permission"), ReadSlotgrant>>
\* Mutant: the slot grant is left out.
MacDBlckWriteUngranted ==
    <<Fixed(2, 3), Fixed(1, 0), Flag("fill_bits"), Field("encryption_mode", 2),
      Field("event_label", 10), Flag("imm_napping_permission"), Fixed(1, 0)>>
MacDBlckWrite ==
    <<Fixed(2, 3), Fixed(1, 0), Flag("fill_bits"), Field("encryption_mode", 2),
      Field("event_label", 10), Flag("imm_napping_permission"), WriteSlotgrant>>
\* Mutant: the encryption mode is not validated.
MacDBlckValidLax == <<Fits([event_label |-> 10])>>
MacDBlckValid == <<Fits([encryption_mode |-> 2, event_label |-> 10])>>

\* MAC-END of the downlink; the length is that of a fragment, never zero.
MacEndDl ==
    [fill_bits |-> Bool, pos_of_grant |-> Trusted(1), length_ind |-> Enum(1..63),
     slot_granting_element |-> Option(Struct(SlotgrantCodec)),
     chan_alloc_element |-> Option(Struct(ChanAllocCodec))]
MacEndDlRead ==
    <<Fixed(2, 1), Fixed(1, 1), Flag("fill_bits"), Field("pos_of_grant", 1),
      Code("length_ind", 6, 1..63), ReadSlotgrant, ReadChanAlloc>>
MacEndDlWrite ==
    <<Fixed(2, 1), Fixed(1, 1), Flag("fill_bits"), Field("pos_of_grant", 1),
      Field("length_ind", 6), WriteSlotgrant, WriteChanAlloc>>
ComputeHdrLen(v) ==
    13 + (IF Has(v, "slot_granting_element") THEN 8 ELSE 0)
       + (IF Has(v, "chan_alloc_element") THEN ComputeLen(v.chan_alloc_element) ELSE 0)

MacEndHu ==
    [fill_bits |-> Bool, length_ind |-> Option(U(8)),
     reservation_req |-> Option(Enum(ReservationRequirement))]
MacEndHuRead ==
    <<Fixed(1, 1), Flag("fill_bits"), Field("length_ind_or_cap_req", 1),
      When("length_ind_or_cap_req", {0}, <<Code("length_ind", 4, 1..15)>>),
      When("length_ind_or_cap_req", {1},
           <<Code("reservation_req", 4, ReservationRequirement)>>)>>
MacEndHuWrite ==
    <<Fixed(1, 1), Flag("fill_bits"),
      Some("length_ind", <<Fixed(1, 0), Field("length_ind", 4)>>),
      Some("reservation_req", <<Fixed(1, 1), Field("reservation_req", 4)>>)>>
MacEndHuValid ==
    <<OneOf({"length_ind", "reservation_req"}), Is("length_ind", 1..15)>>

\* MAC-END of the uplink: one code for a length or a request.
MacEndUl == MacEndHu
MacEndUlRead ==
    <<Fixed(2, 1), Fixed(1, 1), Flag("fill_bits"),
      Split("length_ind", 6, 1..46, "reservation_req", 48)>>
MacEndUlWrite ==
    <<Fixed(2, 1), Fixed(1, 1), Flag("fill_bits"),
      Some("length_ind", <<Field("length_ind", 6)>>),
      Some("reservation_req", <<Fixed(2, 3), Field("reservation_req", 4)>>)>>
MacEndUlValid ==
    <<OneOf({"length_ind", "reservation_req"}), Is("length_ind", 1..46)>>

MacFragDl == [fill_bits |-> Bool]
MacFragDlRead == <<Fixed(2, 1), Fixed(1, 0), Flag("fill_bits")>>
MacFragDlWrite == <<Fixed(2, 1), Fixed(1, 0), Flag("fill_bits")>>
MacFragUl == [fill_bits |-> Bool]
MacFragUlRead == <<Fixed(2, 1), Fixed(1, 0), Flag("fill_bits")>>
MacFragUlWrite == <<Fixed(2, 1), Fixed(1, 0), Flag("fill_bits")>>

\* MAC-RESOURCE; without an address it is the null PDU, which is its header only.
MacResource ==
    UplinkAddr @@
    [fill_bits |-> Bool, pos_of_grant |-> U(8), encryption_mode |-> U(8),
     random_access_flag |-> Bool, length_ind |-> U(8), usage_marker |-> Option(U(8)),
     power_control_element |-> Option(U(8)),
     slot_granting_element |-> Option(Struct(SlotgrantCodec)),
     chan_alloc_element |-> Option(Struct(ChanAllocCodec))]
MacResourceAddrType ==
    <<<<{"ssi", "event_label"}, 5>>, <<{"ssi", "usage_marker"}, 6>>,
      <<{"smi", "event_label"}, 7>>, <<{"ssi"}, 1>>, <<{"event_label"}, 2>>,
      <<{"ussi"}, 3>>, <<{"smi"}, 4>>, <<{}, 0>>>>
NullPdu == 0
MacResourceAddr ==
    0 :> <<Implied("fill_bits", 0), Implied("pos_of_grant", 0),
           Implied("encryption_mode", 0), Implied("random_access_flag", 0)>> @@
    1 :> <<Field("ssi", 24)>> @@ 2 :> <<Field("event_label", 10)>> @@
    3 :> <<Field("ussi", 24)>> @@ 4 :> <<Field("smi", 24)>> @@
    5 :> <<Field("ssi", 24), Field("event_label", 10)>> @@
    6 :> <<Field("ssi", 24), Field("usage_marker", 6)>> @@
    7 :> <<Field("smi", 24), Field("event_label", 10)>>
MacResourceIds == Addresses \cup {"event_label", "usage_marker"}
MacResourceRead ==
    <<Fixed(2, 0), Flag("fill_bits"), Field("pos_of_grant", 1),
      Field("encryption_mode", 2), Flag("random_access_flag"), Field("length_ind", 6),
      Select("addr_type", 3, MacResourceAddrType), Switch("addr_type", MacResourceAddr),
      When("addr_type", (0..7) \ {NullPdu},
           <<Flagged("power_control_element", <<Field("power_control_element", 4)>>),
             ReadSlotgrant, ReadChanAlloc>>)>>
MacResourceWrite ==
    <<Fixed(2, 0), Flag("fill_bits"), Field("pos_of_grant", 1),
      Field("encryption_mode", 2), Flag("random_access_flag"), Field("length_ind", 6),
      Select("addr_type", 3, MacResourceAddrType),
      Some("ssi", <<Field("ssi", 24)>>), Some("ussi", <<Field("ussi", 24)>>),
      Some("smi", <<Field("smi", 24)>>), Some("event_label", <<Field("event_label", 10)>>),
      Some("usage_marker", <<Field("usage_marker", 6)>>),
      If(<<Absent(MacResourceIds)>>, <<>>,
         <<Flagged("power_control_element", <<Field("power_control_element", 4)>>),
           WriteSlotgrant, WriteChanAlloc>>)>>
MacResourceValid ==
    <<Fits([pos_of_grant |-> 1, encryption_mode |-> 2, ssi |-> 24, ussi |-> 24, smi |-> 24,
            event_label |-> 10, usage_marker |-> 6, power_control_element |-> 4]),
      Is("length_ind", 1..63),
      Among(MacResourceIds, {MacResourceAddrType[i][1] : i \in DOMAIN MacResourceAddrType}),
      Forbids("encryption_mode", 1..255, MacResourceIds)>>
ComputeHeaderLen(v) ==
    IF DOMAIN v \cap MacResourceIds = {} THEN 16
    ELSE 19 + (IF Has(v, "event_label") THEN 10 ELSE 0)
            + (IF Has(v, "usage_marker") THEN 6 ELSE 0)
            + (IF DOMAIN v \cap Addresses # {} THEN 24 ELSE 0)
            + (IF Has(v, "power_control_element") THEN 4 ELSE 0)
            + (IF Has(v, "slot_granting_element") THEN 8 ELSE 0)
            + (IF Has(v, "chan_alloc_element") THEN ComputeLen(v.chan_alloc_element) ELSE 0)

\* The time's slot, frame and multiframe; the hyperframe goes with SYSINFO.
MacSync ==
    [system_code |-> Trusted(4), colour_code |-> Trusted(6), t |-> Enum(1..4),
     f |-> Trusted(5), m |-> Trusted(6), sharing_mode |-> Trusted(2),
     ts_reserved_frames |-> Trusted(3), u_plane_dtx |-> Bool, frame_18_ext |-> Bool]
MacSyncRead ==
    <<Field("system_code", 4), Field("colour_code", 6), Shifted("t", 2, 1), Field("f", 5),
      Field("m", 6), Field("sharing_mode", 2), Field("ts_reserved_frames", 3),
      Flag("u_plane_dtx"), Flag("frame_18_ext"), Spare(1)>>
MacSyncWrite ==
    <<Field("system_code", 4), Field("colour_code", 6), Shifted("t", 2, 1), Field("f", 5),
      Field("m", 6), Field("sharing_mode", 2), Field("ts_reserved_frames", 3),
      Flag("u_plane_dtx"), Flag("frame_18_ext"), Spare(1)>>

SysinfoDefaultDefForAccessCodeA ==
    [imm |-> Trusted(4), wt |-> Trusted(4), nu |-> Trusted(4), fl_factor |-> Bool,
     ts_ptr |-> Trusted(4), min_pdu_prio |-> Trusted(3)]
SysinfoDefaultDefForAccessCodeARead ==
    <<Field("imm", 4), Field("wt", 4), Field("nu", 4), Flag("fl_factor"),
      Field("ts_ptr", 4), Field("min_pdu_prio", 3)>>
SysinfoDefaultDefForAccessCodeAWrite ==
    <<Field("imm", 4), Field("wt", 4), Field("nu", 4), Flag("fl_factor"),
      Field("ts_ptr", 4), Field("min_pdu_prio", 3)>>
AccessCodeACodec ==
    Pdu(SysinfoDefaultDefForAccessCodeA, SysinfoDefaultDefForAccessCodeARead,
        SysinfoDefaultDefForAccessCodeAWrite, <<>>)

\* One bit tells class 3 from class 2; the reader is always told that the cell
\* has air interface encryption, so it takes no class at all for class 2.
Class3 ==
    {"dck_retrieval_during_cell_select", "dck_retrieval_during_cell_reselect",
     "linked_gck_crypto_periods", "short_gck_vn"}
SysinfoExtendedServices ==
    [auth_required |-> Bool, class1_supported |-> Bool, class2_supported |-> Bool,
     class3_supported |-> Bool, sck_n |-> Option(Trusted(5)),
     dck_retrieval_during_cell_select |-> Option(Bool),
     dck_retrieval_during_cell_reselect |-> Option(Bool),
     linked_gck_crypto_periods |-> Option(Bool), short_gck_vn |-> Option(Trusted(2)),
     sdstl_addressing_method |-> Trusted(2), gck_supported |-> Bool,
     section |-> Trusted(2), section_data |-> Trusted(7)]
Class3Elements ==
    <<Flag("dck_retrieval_during_cell_select"), Flag("dck_retrieval_during_cell_reselect"),
      Flag("linked_gck_crypto_periods"), Field("short_gck_vn", 2)>>
SysinfoExtendedServicesRead ==
    <<Flag("auth_required"), Flag("class1_supported"), Flag("class3_supported"),
      When("class3_supported", {0}, <<Implied("class2_supported", 1), Field("sck_n", 5)>>),
      When("class3_supported", {1}, <<Implied("class2_supported", 0)>> \o Class3Elements),
      Field("sdstl_addressing_method", 2), Flag("gck_supported"), Field("section", 2),
      Field("section_data", 7)>>
SysinfoExtendedServicesWrite ==
    <<Flag("auth_required"), Flag("class1_supported"), Flag("class3_supported"),
      If(<<Is("class2_supported", {1})>>, <<Field("sck_n", 5)>>,
         <<When("class3_supported", {1}, Class3Elements),
           When("class3_supported", {0}, <<Fixed(5, 0)>>)>>),
      Field("sdstl_addressing_method", 2), Flag("gck_supported"), Field("section", 2),
      Field("section_data", 7)>>
ExtServices ==
    LET p == Plain(SysinfoExtendedServices, {})
    IN {[p EXCEPT !.class2_supported = 0, !.class3_supported = 0],
        [Plain(SysinfoExtendedServices, {"sck_n"}) EXCEPT !.class3_supported = 0],
        [Plain(SysinfoExtendedServices, Class3) EXCEPT !.class2_supported = 0]}
ExtServicesCodec ==
    Only(Pdu(SysinfoExtendedServices, SysinfoExtendedServicesRead,
             SysinfoExtendedServicesWrite, <<>>), ExtServices)

\* SYSINFO with the two optional elements the base station broadcasts.
DefaultDefForAccCodeA == 2
ExtServicesBroadcast == 3
MacSysinfo ==
    [main_carrier |-> Trusted(12), freq_band |-> Trusted(4),
     freq_offset_index |-> Trusted(2), duplex_spacing |-> Trusted(3),
     reverse_operation |-> Bool, num_of_csch |-> Trusted(2),
     ms_txpwr_max_cell |-> Trusted(3), rxlev_access_min |-> Trusted(4),
     access_parameter |-> Trusted(4), radio_dl_timeout |-> Trusted(4),
     cck_id |-> Option(U(16)), hyperframe_number |-> Option(U(16)),
     option_field |-> Enum({DefaultDefForAccCodeA, ExtServicesBroadcast}),
     default_access_code |-> Option(Struct(AccessCodeACodec)),
     ext_services |-> Option(Struct(ExtServicesCodec))]
SysinfoCell ==
    <<Told(2, 2), Told(2, 0), Field("main_carrier", 12), Field("freq_band", 4),
      Field("freq_offset_index", 2), Field("duplex_spacing", 3), Flag("reverse_operation"),
      Field("num_of_csch", 2), Field("ms_txpwr_max_cell", 3),
      Field("rxlev_access_min", 4), Field("access_parameter", 4),
      Field("radio_dl_timeout", 4)>>
SysinfoOption ==
    <<Code("option_field", 2, {DefaultDefForAccCodeA, ExtServicesBroadcast}),
      When("option_field", {DefaultDefForAccCodeA},
           <<Sub("default_access_code", AccessCodeACodec)>>),
      When("option_field", {ExtServicesBroadcast},
           <<Sub("ext_services", ExtServicesCodec)>>)>>
MacSysinfoRead ==
    SysinfoCell \o
    <<Field("has_cck_field", 1),
      When("has_cck_field", {1}, <<Field("cck_id", 16)>>),
      When("has_cck_field", {0}, <<Field("hyperframe_number", 16)>>)>> \o SysinfoOption
MacSysinfoWrite ==
    SysinfoCell \o
    <<Some("cck_id", <<Fixed(1, 1), Field("cck_id", 16)>>),
      Some("hyperframe_number", <<Fixed(1, 0), Field("hyperframe_number", 16)>>)>>
    \o SysinfoOption
Sysinfos ==
    {[Plain(MacSysinfo, {id}) EXCEPT !.option_field = DefaultDefForAccCodeA]
        @@ [default_access_code |-> x]
     : id \in {"cck_id", "hyperframe_number"}, x \in Values(AccessCodeACodec)} \cup
    {[Plain(MacSysinfo, {id}) EXCEPT !.option_field = ExtServicesBroadcast]
        @@ [ext_services |-> x]
     : id \in {"cck_id", "hyperframe_number"}, x \in ExtServices}

MacUBlck ==
    [fill_bits |-> Bool, encrypted |-> Bool, event_label |-> U(16),
     reservation_req |-> U(8)]
MacUBlckRead ==
    <<Fixed(2, 3), Fixed(1, 0), Flag("fill_bits"), Flag("encrypted"),
      Field("event_label", 10), Field("reservation_req", 4)>>
MacUBlckWrite ==
    <<Fixed(2, 3), Fixed(1, 0), Flag("fill_bits"), Flag("encrypted"),
      Field("event_label", 10), Field("reservation_req", 4)>>
MacUBlckValid == <<Fits([event_label |-> 10, reservation_req |-> 4])>>

MacUSignal == [second_half_stolen |-> Bool]
MacUSignalRead == <<Fixed(2, 3), Flag("second_half_stolen")>>
MacUSignalWrite == <<Fixed(2, 3), Flag("second_half_stolen")>>

AccessDefine ==
    [common_or_assigned_control |-> Bool, access_code |-> U(8), imm |-> U(8), wt |-> U(8),
     nu |-> U(8), frame_len_factor |-> Bool, ts_pointer |-> U(8), min_pdu_prio |-> U(8),
     opt_field_flag |-> U(8), subscriber_class |-> Option(U(16)), gssi |-> Option(U(32))]
AccessDefineRead ==
    <<Fixed(2, 2), Fixed(2, 1), Flag("common_or_assigned_control"), Field("access_code", 2),
      Field("imm", 4), Field("wt", 4), Field("nu", 4), Flag("frame_len_factor"),
      Field("ts_pointer", 4), Field("min_pdu_prio", 3), Field("opt_field_flag", 2),
      When("opt_field_flag", {1}, <<Field("subscriber_class", 16)>>),
      When("opt_field_flag", {2}, <<Field("gssi", 24)>>), Fixed(3, 4)>>
AccessDefineWrite ==
    <<Fixed(2, 2), Fixed(2, 1), Flag("common_or_assigned_control"), Field("access_code", 2),
      Field("imm", 4), Field("wt", 4), Field("nu", 4), Flag("frame_len_factor"),
      Field("ts_pointer", 4), Field("min_pdu_prio", 3), Field("opt_field_flag", 2),
      Some("subscriber_class", <<Field("subscriber_class", 16)>>),
      Some("gssi", <<Field("gssi", 24)>>), Fixed(3, 4)>>
AccessDefineValid ==
    <<Fits([access_code |-> 2, imm |-> 4, wt |-> 4, nu |-> 4, ts_pointer |-> 4,
            min_pdu_prio |-> 3, opt_field_flag |-> 2, gssi |-> 24]),
      Shape("opt_field_flag",
            0 :> {} @@ 1 :> {"subscriber_class"} @@ 2 :> {"gssi"} @@ 3 :> {})>>

\* The usages of the ACCESS-ASSIGN: what has a usage marker is its marker
\* (unallocated is 0, traffic from 4 on), the others are negative.
CommonControl == 2
CommonOnly == -1
CommonAndAssigned == -2
AssignedOnly == -3
UlMarkers == {0} \cup 4..63
AccessField == [access_code |-> U(8), base_frame_len |-> U(8)]
AccessFieldRead == <<Field("access_code", 2), Field("base_frame_len", 4)>>
AccessFieldWrite == <<Field("access_code", 2), Field("base_frame_len", 4)>>
ValidateAccessField == <<Fits([access_code |-> 2, base_frame_len |-> 4])>>
AccessFieldCodec == Pdu(AccessField, AccessFieldRead, AccessFieldWrite, ValidateAccessField)
Field1And2 == <<Sub("f1_af1", AccessFieldCodec), Sub("f2_af2", AccessFieldCodec)>>
FieldShared == <<Sub("f2_af", AccessFieldCodec)>>
AccessFields ==
    [f1_af1 |-> Option(Struct(AccessFieldCodec)),
     f2_af2 |-> Option(Struct(AccessFieldCodec)),
     f2_af |-> Option(Struct(AccessFieldCodec))]

AccessAssign ==
    AccessFields @@
    [dl_usage |-> Enum({0, 1, 2, 3, 4, 63, 64, 255}),
     ul_usage |-> Enum({CommonOnly, CommonAndAssigned, AssignedOnly, 0, 4, 63, 64, 255})]
AccessAssignRead ==
    <<Field("header", 2),
      Switch("header",
             0 :> <<Implied("dl_usage", CommonControl), Implied("ul_usage", CommonOnly)>>
                  \o Field1And2 @@
             1 :> <<Field("dl_usage", 6), Implied("ul_usage", CommonAndAssigned)>>
                  \o FieldShared @@
             2 :> <<Field("dl_usage", 6), Implied("ul_usage", AssignedOnly)>>
                  \o FieldShared @@
             3 :> <<Field("dl_usage", 6), Code("ul_usage", 6, UlMarkers)>>)>>
AccessAssignWrite ==
    <<Must(Is("dl_usage", 0..63)),
      If(<<Is("dl_usage", {CommonControl}), Is("ul_usage", {CommonOnly})>>,
         <<Must(Among(DOMAIN AccessFields, {{"f1_af1", "f2_af2"}})), Fixed(2, 0)>>
         \o Field1And2,
         <<If(<<Is("ul_usage", {CommonAndAssigned, AssignedOnly})>>,
              <<Must(Required("f2_af")),
                When("ul_usage", {CommonAndAssigned}, <<Fixed(2, 1)>>),
                When("ul_usage", {AssignedOnly}, <<Fixed(2, 2)>>),
                Field("dl_usage", 6)>> \o FieldShared,
              <<Must(Is("ul_usage", 0..63)), Fixed(2, 3), Field("dl_usage", 6),
                Field("ul_usage", 6)>>)>>)>>

\* In frame 18; f1_traf_um is neither written nor read.
AccessAssignFr18 == [n \in DOMAIN AccessAssign \ {"dl_usage"} |-> AccessAssign[n]]
Traffic == 4..255
AccessAssignFr18Read ==
    <<Field("header", 2),
      Switch("header",
             0 :> <<Implied("ul_usage", CommonOnly)>> \o Field1And2 @@
             1 :> <<Implied("ul_usage", CommonAndAssigned)>> \o Field1And2 @@
             2 :> <<Implied("ul_usage", AssignedOnly)>> \o Field1And2 @@
             3 :> <<Code("ul_usage", 6, 4..63)>> \o FieldShared)>>
ValidateAccessFieldPair == Among(DOMAIN AccessFields, {{"f1_af1", "f2_af2"}})
AccessAssignFr18Write ==
    <<Must(Is("ul_usage", {CommonOnly, CommonAndAssigned, AssignedOnly} \cup Traffic)),
      If(<<Is("ul_usage", Traffic)>>,
         <<Must(Among(DOMAIN AccessFields, {{"f2_af"}})), Fixed(2, 3),
           Must(Is("ul_usage", 0..63)), Field("ul_usage", 6)>> \o FieldShared,
         <<Must(ValidateAccessFieldPair),
           When("ul_usage", {CommonOnly}, <<Fixed(2, 0)>>),
           When("ul_usage", {CommonAndAssigned}, <<Fixed(2, 1)>>),
           When("ul_usage", {AssignedOnly}, <<Fixed(2, 2)>>)>> \o Field1And2)>>
-----------------------------------------------------------------------------
\* What of the struct v a PDU carries.
CarriedAllocation(v) ==
    [n \in {m \in DOMAIN v : m = "chan_alloc_element" => IsSupportedByThisStack(v[m])}
       |-> v[n]]
UmacCarried(pdu, v) ==
    CASE pdu = "MacResource" /\ DOMAIN v \cap MacResourceIds = {} ->
            [n \in DOMAIN v \ Optional(MacResource) |-> IF n = "length_ind" THEN v[n] ELSE 0]
      [] pdu = "MacResource" /\ DOMAIN v \cap MacResourceIds # {} -> CarriedAllocation(v)
      [] pdu = "MacEndDl" -> CarriedAllocation(v)
      [] pdu = "MacSysinfo" /\ Has(v, "ext_services") ->
            IF v.ext_services.class3_supported = 1 \/ v.ext_services.class2_supported = 1
            THEN v
            ELSE [v EXCEPT !.ext_services =
                    [@ EXCEPT !.class2_supported = 1] @@ [sck_n |-> 0]]
      [] pdu = "AccessAssign" ->
            [n \in {m \in DOMAIN v :
                      CASE m = "f2_af" -> v.ul_usage \in {CommonAndAssigned, AssignedOnly}
                        [] m \in {"f1_af1", "f2_af2"} -> v.ul_usage = CommonOnly
                        [] OTHER -> TRUE} |-> v[n]]
      [] OTHER -> v

\* How long the sender of a PDU with an SDU behind it takes its header to be.
UmacHeaderLen(pdu, v) ==
    CASE pdu = "MacResource" -> ComputeHeaderLen(v)
      [] pdu = "MacEndDl" -> ComputeHdrLen(v)

\* Every PDU of the upper MAC.
UmacPdus ==
    [MacAccess |-> Based(Pdu(MacAccess, MacAccessRead, MacAccessWrite, MacAccessValid),
                         <<{"event_label"}, {"ssi"}, {"ussi"}, {"smi"}>>),
     MacData |-> Based(Pdu(MacData, MacDataRead, MacDataWrite, MacDataValid),
                       <<{"event_label", "length_ind"}, {"ssi", "length_ind"},
                         {"ussi", "frag_flag", "reservation_req"}, {"smi", "length_ind"}>>),
     MacDBlck |-> Pdu(MacDBlck, MacDBlckRead, MacDBlckWrite, MacDBlckValid),
     MacEndDl |-> Pdu(MacEndDl, MacEndDlRead, MacEndDlWrite, <<>>),
     MacEndHu |-> Pdu(MacEndHu, MacEndHuRead, MacEndHuWrite, MacEndHuValid),
     MacEndUl |-> Pdu(MacEndUl, MacEndUlRead, MacEndUlWrite, MacEndUlValid),
     MacFragDl |-> Pdu(MacFragDl, MacFragDlRead, MacFragDlWrite, <<>>),
     MacFragUl |-> Pdu(MacFragUl, MacFragUlRead, MacFragUlWrite, <<>>),
     MacResource |->
        With(Based(Pdu(MacResource, MacResourceRead, MacResourceWrite, MacResourceValid),
                   [i \in DOMAIN MacResourceAddrType |-> MacResourceAddrType[i][1]]),
             {[Plain(MacResource, {"ssi"} \cup N) EXCEPT !.encryption_mode = 0] @@ x
              : N \in SUBSET {"power_control_element", "slot_granting_element"},
                x \in {Nothing} \cup {[chan_alloc_element |-> c] : c \in ChanAllocs}} \cup
             {[Plain(MacResource, MacResourceAddrType[i][1]) EXCEPT !.encryption_mode = 0]
              : i \in DOMAIN MacResourceAddrType}),
     MacSync |-> Pdu(MacSync, MacSyncRead, MacSyncWrite, <<>>),
     MacSysinfo |-> Only(Pdu(MacSysinfo, MacSysinfoRead, MacSysinfoWrite, <<>>), Sysinfos),
     MacUBlck |-> Pdu(MacUBlck, MacUBlckRead, MacUBlckWrite, MacUBlckValid),
     MacUSignal |-> Pdu(MacUSignal, MacUSignalRead, MacUSignalWrite, <<>>),
     AccessDefine |->
        With(Pdu(AccessDefine, AccessDefineRead, AccessDefineWrite, AccessDefineValid),
             {[Plain(AccessDefine, {}) EXCEPT !.opt_field_flag = 0],
              [Plain(AccessDefine, {"gssi"}) EXCEPT !.opt_field_flag = 2]}),
     AccessAssign |->
        Based(Pdu(AccessAssign, AccessAssignRead, AccessAssignWrite, <<>>),
              <<{"f1_af1", "f2_af2"}, {"f2_af"}>>),
     AccessAssignFr18 |->
        Based(Pdu(AccessAssignFr18, AccessAssignFr18Read, AccessAssignFr18Write, <<>>),
              <<{"f1_af1", "f2_af2"}, {"f2_af"}>>)]
=============================================================================

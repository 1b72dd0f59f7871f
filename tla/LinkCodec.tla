----------------------------- MODULE LinkCodec -----------------------------
(***************************************************************************)
(* The PDUs of the two layers between the MAC and the services: the        *)
(* headers of logical link control, of the basic and of the advanced link  *)
(* (tetra-pdus/src/llc), and the PDUs of the mobile link entity            *)
(* (tetra-pdus/src/mle).  X, XRead, XWrite and XValid are the struct, its  *)
(* from_bitbuf, its to_bitbuf and its validation.                          *)
(***************************************************************************)
EXTENDS PduCodec

-----------------------------------------------------------------------------
(* Logical link control *)

LlcPduType == [AlSetup |-> 8, AlDataAlFinal |-> 9, AlAckAlRnr |-> 11]

\* The basic link: the link type, whether a frame check sequence follows, the
\* PDU type and the sequence numbers, 0 or 1 at every caller.
BlHeader(type) == <<Fixed(1, 0), Flag("has_fcs"), Fixed(2, type)>>

BlAdata == [has_fcs |-> Bool, nr |-> Bool, ns |-> Bool]
BlAdataRead == BlHeader(0) \o <<Field("nr", 1), Field("ns", 1)>>
BlAdataWrite == BlHeader(0) \o <<Field("nr", 1), Field("ns", 1)>>

BlData == [has_fcs |-> Bool, ns |-> Bool]
BlDataRead == BlHeader(1) \o <<Field("ns", 1)>>
BlDataWrite == BlHeader(1) \o <<Field("ns", 1)>>

BlUdata == [has_fcs |-> Bool]
BlUdataRead == BlHeader(2)
BlUdataWrite == BlHeader(2)

BlAck == [has_fcs |-> Bool, nr |-> Bool]
BlAckRead == BlHeader(3) \o <<Field("nr", 1)>>
BlAckWrite == BlHeader(3) \o <<Field("nr", 1)>>

AlData ==
    [final_segment |-> Bool, acknowledgement_requested |-> Bool, ns |-> Trusted(3),
     ss |-> U(8)]
AlDataRead ==
    <<Fixed(4, LlcPduType.AlDataAlFinal), Flag("final_segment"),
      Flag("acknowledgement_requested"), Field("ns", 3), Field("ss", 8)>>
AlDataWrite ==
    <<Fixed(4, LlcPduType.AlDataAlFinal), Flag("final_segment"),
      Flag("acknowledgement_requested"), Field("ns", 3), Field("ss", 8)>>

\* An acknowledgement of the TL-SDU N(R): of all of it, of none of it, or of
\* some segments, with a bitmap of those behind S(R).
AckLengthCompleteTlSdu == 0
AckLengthRepeatEntireTlSdu == 63
Selective == 1..62
AlAckBlock ==
    [nr |-> Trusted(3), acknowledgement_length |-> Trusted(6), sr |-> Option(U(8)),
     acknowledgement_bitmap |-> Option(Bits(1))]
AlAckBlockRead ==
    <<Field("nr", 3), Field("acknowledgement_length", 6),
      When("acknowledgement_length", Selective,
           <<Field("sr", 8), RawBy("acknowledgement_bitmap", "acknowledgement_length")>>)>>
AlAckBlockWrite ==
    <<Field("nr", 3), Field("acknowledgement_length", 6),
      When("acknowledgement_length", Selective,
           <<Field("sr", 8), RawBy("acknowledgement_bitmap", "acknowledgement_length")>>)>>
BlockCodec == Pdu(AlAckBlock, AlAckBlockRead, AlAckBlockWrite, <<>>)
Complete(nr) == [nr |-> nr, acknowledgement_length |-> AckLengthCompleteTlSdu]
RepeatEntire(nr) == [nr |-> nr, acknowledgement_length |-> AckLengthRepeatEntireTlSdu]
SelectiveAck(nr, sr, k) ==
    [nr |-> nr, acknowledgement_length |-> k, sr |-> sr,
     acknowledgement_bitmap |-> BitsOf(k - 1, 1)]

\* with_blocks repeats the first block in the PDU's own fields.
AlAck == [receiver_ready |-> Bool, acknowledgement_blocks |-> List(BlockCodec)]
AlAckRead ==
    <<Fixed(4, LlcPduType.AlAckAlRnr), Flag("receiver_ready"),
      Blocks("acknowledgement_blocks", 9, BlockCodec)>>
AlAckWrite ==
    <<Fixed(4, LlcPduType.AlAckAlRnr), Flag("receiver_ready"),
      Blocks("acknowledgement_blocks", 9, BlockCodec)>>
AlAcks ==
    LET blocks == {Complete(5), RepeatEntire(6), SelectiveAck(7, 250, 1),
                   SelectiveAck(1, 0, 2), SelectiveAck(2, 255, 62)}
    IN {[receiver_ready |-> rr, acknowledgement_blocks |-> bs]
        : rr \in {0, 1}, bs \in {<<b>> : b \in blocks} \cup (blocks \X blocks)}

\* AL-SETUP; the answer is a copy of the request, so the optional fields are
\* there exactly when the reader found them.
AlSetupAugmented ==
    [extended_advanced_link |-> Bool, original_window_size_code |-> Option(Trusted(2)),
     extended_window_size_code |-> Option(Trusted(4)), reserved |-> Trusted(3)]
AlSetupAugmentedRead ==
    <<Flag("extended_advanced_link"),
      When("extended_advanced_link", {1}, <<Field("extended_window_size_code", 4)>>),
      When("extended_advanced_link", {0}, <<Field("original_window_size_code", 2)>>),
      Field("reserved", 3)>>
AlSetupAugmentedWrite ==
    <<Flag("extended_advanced_link"),
      When("extended_advanced_link", {1}, <<Field("extended_window_size_code", 4)>>),
      When("extended_advanced_link", {0}, <<Field("original_window_size_code", 2)>>),
      Field("reserved", 3)>>
AugmentedCodec ==
    Only(Pdu(AlSetupAugmented, AlSetupAugmentedRead, AlSetupAugmentedWrite, <<>>),
         {[extended_advanced_link |-> 1, extended_window_size_code |-> 9, reserved |-> 5],
          [extended_advanced_link |-> 0, original_window_size_code |-> 2, reserved |-> 0]})
AlSetup ==
    [acknowledged_service |-> Bool, advanced_link_number |-> Trusted(2),
     max_tl_sdu_len_code |-> Trusted(3), connection_width |-> Bool,
     advanced_link_symmetry |-> Bool, uplink_timeslots |-> Option(Trusted(2)),
     downlink_timeslots |-> Option(Trusted(2)), throughput_code |-> Trusted(3),
     window_size_code |-> Trusted(2), max_tl_sdu_retransmissions |-> Trusted(3),
     max_segment_retransmissions |-> Trusted(4), setup_report |-> Trusted(3),
     ns |-> Option(U(8)), augmented |-> Option(Struct(AugmentedCodec))]
AlSetupRead ==
    <<Fixed(4, LlcPduType.AlSetup), Flag("acknowledged_service"),
      Field("advanced_link_number", 2), Field("max_tl_sdu_len_code", 3),
      Flag("connection_width"), Flag("advanced_link_symmetry"),
      When("connection_width", {1}, <<Field("uplink_timeslots", 2)>>),
      If(<<Is("connection_width", {1}), Is("advanced_link_symmetry", {1})>>,
         <<Field("downlink_timeslots", 2)>>, <<>>),
      Field("throughput_code", 3), Field("window_size_code", 2),
      Field("max_tl_sdu_retransmissions", 3), Field("max_segment_retransmissions", 4),
      Field("setup_report", 3),
      When("acknowledged_service", {0}, <<Field("ns", 8)>>),
      When("window_size_code", {0}, <<Sub("augmented", AugmentedCodec)>>)>>
AlSetupWrite ==
    <<Fixed(4, LlcPduType.AlSetup), Flag("acknowledged_service"),
      Field("advanced_link_number", 2), Field("max_tl_sdu_len_code", 3),
      Flag("connection_width"), Flag("advanced_link_symmetry"),
      When("connection_width", {1}, <<Field("uplink_timeslots", 2)>>),
      If(<<Is("connection_width", {1}), Is("advanced_link_symmetry", {1})>>,
         <<Field("downlink_timeslots", 2)>>, <<>>),
      Field("throughput_code", 3), Field("window_size_code", 2),
      Field("max_tl_sdu_retransmissions", 3), Field("max_segment_retransmissions", 4),
      Field("setup_report", 3),
      When("acknowledged_service", {0}, <<Field("ns", 8)>>),
      Some("augmented", <<Sub("augmented", AugmentedCodec)>>)>>
AlSetups ==
    {LET there == (IF width = 1 THEN {"uplink_timeslots"} ELSE {})
                  \cup (IF width = 1 /\ sym = 1 THEN {"downlink_timeslots"} ELSE {})
                  \cup (IF ack = 0 THEN {"ns"} ELSE {})
                  \cup (IF window = 0 THEN {"augmented"} ELSE {})
     IN [Plain(AlSetup, there \ {"augmented"}) EXCEPT !.acknowledged_service = ack,
            !.connection_width = width, !.advanced_link_symmetry = sym,
            !.window_size_code = window]
        @@ (IF window = 0 THEN [augmented |-> aug] ELSE Nothing)
     : ack \in {0, 1}, width \in {0, 1}, sym \in {0, 1}, window \in {0, 3},
       aug \in Usual(AugmentedCodec)}
-----------------------------------------------------------------------------
\* Every PDU of the LLC.
LlcPdus ==
    [BlAdata |-> Pdu(BlAdata, BlAdataRead, BlAdataWrite, <<>>),
     BlData |-> Pdu(BlData, BlDataRead, BlDataWrite, <<>>),
     BlUdata |-> Pdu(BlUdata, BlUdataRead, BlUdataWrite, <<>>),
     BlAck |-> Pdu(BlAck, BlAckRead, BlAckWrite, <<>>),
     AlData |-> Pdu(AlData, AlDataRead, AlDataWrite, <<>>),
     AlAck |-> Only(Pdu(AlAck, AlAckRead, AlAckWrite, <<>>), AlAcks),
     AlSetup |-> Only(Pdu(AlSetup, AlSetupRead, AlSetupWrite, <<>>), AlSetups)]

-----------------------------------------------------------------------------
(* The mobile link entity: the cell's broadcast and cell reselection *)

MlePduTypeDl ==
    [DNewCell |-> 0, DPrepareFail |-> 1, DNwrkBroadcast |-> 2, DRestoreAck |-> 4,
     DRestoreFail |-> 5, DChannelResponse |-> 6, ExtPdu |-> 7]
MlePduTypeUl == [UPrepare |-> 0, UChannelClassAdvice |-> 3, URestore |-> 4]

\* read_remaining_u64 and reject_write_if_present: an SDU of up to 64 bits is
\* read, and refused when it should be written.
ReadSdu == Rest("sdu", 0)
NoSdu == Absent({"sdu"})

BsServiceDetails ==
    [registration |-> Bool, deregistration |-> Bool, priority_cell |-> Bool,
     no_minimum_mode |-> Bool, migration |-> Bool, system_wide_services |-> Bool,
     voice_service |-> Bool, circuit_mode_data_service |-> Bool,
     sndcp_service |-> Bool, aie_service |-> Bool, advanced_link |-> Bool]
BsServiceDetailsRead ==
    <<Flag("registration"), Flag("deregistration"), Flag("priority_cell"),
      Flag("no_minimum_mode"), Flag("migration"), Flag("system_wide_services"),
      Flag("voice_service"), Flag("circuit_mode_data_service"), Spare(1),
      Flag("sndcp_service"), Flag("aie_service"), Flag("advanced_link")>>
BsServiceDetailsWrite ==
    <<Flag("registration"), Flag("deregistration"), Flag("priority_cell"),
      Flag("no_minimum_mode"), Flag("migration"), Flag("system_wide_services"),
      Flag("voice_service"), Flag("circuit_mode_data_service"), Spare(1),
      Flag("sndcp_service"), Flag("aie_service"), Flag("advanced_link")>>
BsdCodec == Pdu(BsServiceDetails, BsServiceDetailsRead, BsServiceDetailsWrite, <<>>)

NeighbourCellInformationForCa ==
    [cell_identifier_ca |-> U(8), cell_reselection_types_supported |-> U(8),
     neighbour_cell_synchronized |-> Bool, cell_load_ca |-> U(8),
     main_carrier_number |-> U(16), main_carrier_number_extension |-> Option(U(16)),
     mcc |-> Option(U(16)), mnc |-> Option(U(16)), location_area |-> Option(U(16)),
     maximum_ms_transmit_power |-> Option(U(8)),
     minimum_rx_access_level |-> Option(U(8)), subscriber_class |-> Option(U(16)),
     bs_service_details |-> Option(Struct(BsdCodec)),
     timeshare_cell_information_or_security_parameters |-> Option(U(8)),
     tdma_frame_offset |-> Option(U(8))]
NeighbourCellInformationForCaRead ==
    <<Field("cell_identifier_ca", 5), Field("cell_reselection_types_supported", 2),
      Flag("neighbour_cell_synchronized"), Field("cell_load_ca", 2),
      Field("main_carrier_number", 12), ReadObit,
      Type2("main_carrier_number_extension", 10), Type2("mcc", 10),
      Type2("mnc", 14), Type2("location_area", 14),
      Type2("maximum_ms_transmit_power", 3), Type2("minimum_rx_access_level", 4),
      Type2("subscriber_class", 16), OptSub("bs_service_details", BsdCodec),
      Type2("timeshare_cell_information_or_security_parameters", 5),
      Type2("tdma_frame_offset", 6)>>
NeighbourCellInformationForCaWrite ==
    <<Field("cell_identifier_ca", 5), Field("cell_reselection_types_supported", 2),
      Flag("neighbour_cell_synchronized"), Field("cell_load_ca", 2),
      Field("main_carrier_number", 12),
      Obit(Optional(NeighbourCellInformationForCa)),
      Type2("main_carrier_number_extension", 10), Type2("mcc", 10),
      Type2("mnc", 14), Type2("location_area", 14),
      Type2("maximum_ms_transmit_power", 3), Type2("minimum_rx_access_level", 4),
      Type2("subscriber_class", 16), OptSub("bs_service_details", BsdCodec),
      Type2("timeshare_cell_information_or_security_parameters", 5),
      Type2("tdma_frame_offset", 6)>>
NeighbourCellInformationForCaValid ==
    <<Fits([cell_identifier_ca |-> 5, cell_reselection_types_supported |-> 2,
            cell_load_ca |-> 2, main_carrier_number |-> 12,
            main_carrier_number_extension |-> 10, mcc |-> 10, mnc |-> 14,
            location_area |-> 14, maximum_ms_transmit_power |-> 3,
            minimum_rx_access_level |-> 4,
            timeshare_cell_information_or_security_parameters |-> 5,
            tdma_frame_offset |-> 6])>>
NeighbourCodec ==
    Pdu(NeighbourCellInformationForCa, NeighbourCellInformationForCaRead,
        NeighbourCellInformationForCaWrite, NeighbourCellInformationForCaValid)

DMleSync ==
    [mcc |-> Trusted(10), mnc |-> Trusted(14),
     neighbor_cell_broadcast |-> Trusted(2), cell_load_ca |-> Trusted(2),
     late_entry_supported |-> Bool]
DMleSyncRead ==
    <<Field("mcc", 10), Field("mnc", 14), Field("neighbor_cell_broadcast", 2),
      Field("cell_load_ca", 2), Flag("late_entry_supported")>>
DMleSyncWrite ==
    <<Field("mcc", 10), Field("mnc", 14), Field("neighbor_cell_broadcast", 2),
      Field("cell_load_ca", 2), Flag("late_entry_supported")>>

DMleSysinfo ==
    [location_area |-> Trusted(14), subscriber_class |-> U(16),
     bs_service_details |-> Struct(BsdCodec)]
DMleSysinfoRead ==
    <<Field("location_area", 14), Field("subscriber_class", 16),
      Sub("bs_service_details", BsdCodec)>>
DMleSysinfoWrite ==
    <<Field("location_area", 14), Field("subscriber_class", 16),
      Sub("bs_service_details", BsdCodec)>>

DNewCell == [channel_command_valid |-> Trusted(2), sdu |-> Option(Tail64)]
DNewCellRead ==
    <<Fixed(3, MlePduTypeDl.DNewCell), Field("channel_command_valid", 2), ReadSdu>>
DNewCellWrite ==
    <<Fixed(3, MlePduTypeDl.DNewCell), Field("channel_command_valid", 2),
      Must(NoSdu)>>

DPrepareFail == [fail_cause |-> Trusted(2), sdu |-> Option(Tail64)]
DPrepareFailRead ==
    <<Fixed(3, MlePduTypeDl.DPrepareFail), Field("fail_cause", 2), ReadSdu>>
DPrepareFailWrite ==
    <<Fixed(3, MlePduTypeDl.DPrepareFail), Field("fail_cause", 2), Must(NoSdu)>>

DRestoreAck == [sdu |-> Option(Tail64)]
DRestoreAckRead == <<Fixed(3, MlePduTypeDl.DRestoreAck), ReadSdu>>
DRestoreAckWrite == <<Fixed(3, MlePduTypeDl.DRestoreAck), Must(NoSdu)>>

DRestoreFail == [fail_cause |-> U(8)]
DRestoreFailRead ==
    <<Fixed(3, MlePduTypeDl.DRestoreFail), Field("fail_cause", 2), Fixed(1, 0)>>
DRestoreFailWrite ==
    <<Fixed(3, MlePduTypeDl.DRestoreFail), Field("fail_cause", 2), Fixed(1, 0)>>
DRestoreFailValid == <<Fits([fail_cause |-> 2])>>

DChannelResponse ==
    [channel_response_type |-> Bool, reason_for_the_channel_request |-> U(8),
     channel_request_retry_delay |-> U(8), reserved1 |-> Option(U(64)),
     reserved2 |-> Option(U(64))]
DChannelResponseRead ==
    <<Fixed(3, MlePduTypeDl.DChannelResponse), Flag("channel_response_type"),
      Field("reason_for_the_channel_request", 3),
      Field("channel_request_retry_delay", 4), ReadObit, Type2("reserved1", 8),
      Type2("reserved2", 8), Trailing>>
DChannelResponseWrite ==
    <<Fixed(3, MlePduTypeDl.DChannelResponse), Flag("channel_response_type"),
      Field("reason_for_the_channel_request", 3),
      Field("channel_request_retry_delay", 4), Obit(Optional(DChannelResponse)),
      Type2("reserved1", 8), Type2("reserved2", 8), Trailing>>
DChannelResponseValid ==
    <<Is("reason_for_the_channel_request", 0..3),
      Is("channel_request_retry_delay", (0..12) \cup {15}),
      Absent({"reserved1", "reserved2"})>>

DNwrkBroadcast ==
    [cell_re_select_parameters |-> U(16), cell_load_ca |-> Trusted(2),
     tetra_network_time |-> Option(Bits(48)),
     number_of_ca_neighbour_cells |-> Option(U(8)),
     neighbour_cell_information_for_ca |-> List(NeighbourCodec)]
DNwrkBroadcastRead ==
    <<Fixed(3, MlePduTypeDl.DNwrkBroadcast), Field("cell_re_select_parameters", 16),
      Field("cell_load_ca", 2), ReadObit,
      Opt("tetra_network_time", <<Raw("tetra_network_time", 48)>>),
      Type2("number_of_ca_neighbour_cells", 3),
      Repeat("neighbour_cell_information_for_ca", "number_of_ca_neighbour_cells",
             NeighbourCodec)>>
DNwrkBroadcastWrite ==
    <<Fixed(3, MlePduTypeDl.DNwrkBroadcast), Field("cell_re_select_parameters", 16),
      Field("cell_load_ca", 2), Obit(Optional(DNwrkBroadcast)),
      Opt("tetra_network_time", <<Raw("tetra_network_time", 48)>>),
      Type2("number_of_ca_neighbour_cells", 3),
      Repeat("neighbour_cell_information_for_ca", "number_of_ca_neighbour_cells",
             NeighbourCodec)>>
DNwrkBroadcastValid ==
    <<Counts("number_of_ca_neighbour_cells", "neighbour_cell_information_for_ca"),
      Is("number_of_ca_neighbour_cells", 0..7)>>
DNwrkBroadcastTypical == Plain(DNwrkBroadcast, {"number_of_ca_neighbour_cells"})
\* Any one neighbour, none, two, seven, and eight, which are too many.
Neighbours ==
    {[DNwrkBroadcastTypical EXCEPT !.neighbour_cell_information_for_ca = <<x>>]
     : x \in Values(NeighbourCodec)} \cup
    {[DNwrkBroadcastTypical EXCEPT !.number_of_ca_neighbour_cells = k,
        !.neighbour_cell_information_for_ca =
            [i \in 1..k |-> Typical(Struct(NeighbourCodec))]] : k \in {0, 2, 7, 8}}

RemovalData ==
    {"removal_data_for_ca_cell", "removal_data_for_da_cell", "removal_data_for_serving_cell"}
DNwrkBroadcastRemove ==
    [pdu_type_extension |-> U(8), number_of_ca_cells_for_removal |-> Option(U(64)),
     removal_data_for_ca_cell |-> Option(U(64)),
     number_of_da_cells_for_removal |-> Option(U(64)),
     removal_data_for_da_cell |-> Option(U(64)),
     removal_data_for_serving_cell |-> Option(U(64)),
     reserved1 |-> Option(Trusted(8)), reserved2 |-> Option(Trusted(8)),
     reserved3 |-> Option(Trusted(16)), reserved4 |-> Option(Bits(32))]
DNwrkBroadcastRemoveRead ==
    <<Fixed(3, MlePduTypeDl.ExtPdu), Code("pdu_type_extension", 4, {1}), ReadObit,
      Opt("number_of_ca_cells_for_removal",
          <<Code("number_of_ca_cells_for_removal", 5, {0})>>),
      Opt("number_of_da_cells_for_removal",
          <<Code("number_of_da_cells_for_removal", 8, {0})>>),
      Type2("reserved1", 8), Type2("reserved2", 8), Type2("reserved3", 16),
      Opt("reserved4", <<Raw("reserved4", 32)>>), End(FALSE)>>
DNwrkBroadcastRemoveWrite ==
    <<Fixed(3, MlePduTypeDl.ExtPdu), Field("pdu_type_extension", 4),
      Obit({"number_of_ca_cells_for_removal", "number_of_da_cells_for_removal", "reserved1", "reserved2", "reserved3", "reserved4"}),
      Type2("number_of_ca_cells_for_removal", 5),
      Type2("number_of_da_cells_for_removal", 8), Type2("reserved1", 8),
      Type2("reserved2", 8), Type2("reserved3", 16),
      Opt("reserved4", <<Raw("reserved4", 32)>>)>>
DNwrkBroadcastRemoveValid ==
    <<Is("pdu_type_extension", {1}), Is("number_of_ca_cells_for_removal", {0}),
      Is("number_of_da_cells_for_removal", {0}), Absent(RemovalData)>>
NothingRemoved ==
    {[n \in Optional(DNwrkBroadcastRemove) \ (RemovalData \cup N) |->
        IF n \in {"number_of_ca_cells_for_removal", "number_of_da_cells_for_removal"} THEN 0
        ELSE Typical(Bare(DNwrkBroadcastRemove[n]))] @@ [pdu_type_extension |-> 1]
     : N \in {{}, {"reserved4"}, {"number_of_ca_cells_for_removal"}}}

ChannelClassLen == [n \in 0..3 |-> 4 * (n + 1)]
ChannelClassIdentifier ==
    Switch("number_of_channel_class_identifiers",
           [n \in 0..3 |-> <<Field("channel_class_identifier", ChannelClassLen[n])>>])
UChannelClassAdvice ==
    [number_of_channel_class_identifiers |-> U(8),
     channel_class_identifier |-> Option(U(64)),
     discriminator_for_sdu_protocol_present |-> Bool,
     protocol_discriminator |-> Option(U(64)), data_priority |-> Option(U(64)),
     sdu |-> Option(Tail64)]
UChannelClassAdviceRead ==
    <<Fixed(3, MlePduTypeUl.UChannelClassAdvice),
      Field("number_of_channel_class_identifiers", 2), ChannelClassIdentifier,
      Flag("discriminator_for_sdu_protocol_present"),
      When("discriminator_for_sdu_protocol_present", {1},
           <<Field("protocol_discriminator", 3)>>),
      ReadObit, Type2("data_priority", 3), ReadSdu>>
UChannelClassAdviceWrite ==
    <<Fixed(3, MlePduTypeUl.UChannelClassAdvice),
      Field("number_of_channel_class_identifiers", 2), ChannelClassIdentifier,
      Flag("discriminator_for_sdu_protocol_present"),
      Some("protocol_discriminator", <<Field("protocol_discriminator", 3)>>),
      Obit({"data_priority"}), Type2("data_priority", 3)>>
UChannelClassAdviceValid ==
    <<NoSdu, Is("number_of_channel_class_identifiers", 0..3),
      Required("channel_class_identifier"),
      FitsBy("channel_class_identifier", "number_of_channel_class_identifiers",
             ChannelClassLen),
      Iff("discriminator_for_sdu_protocol_present", {1}, "protocol_discriminator"),
      Fits([protocol_discriminator |-> 3, data_priority |-> 3])>>

UPrepare == [cell_identifier_ca |-> Option(Trusted(5)), sdu |-> Option(Tail64)]
UPrepareRead ==
    <<Fixed(3, MlePduTypeUl.UPrepare), ReadObit, Type2("cell_identifier_ca", 5),
      ReadSdu>>
UPrepareWrite ==
    <<Fixed(3, MlePduTypeUl.UPrepare), Must(NoSdu), Obit({"cell_identifier_ca"}),
      Type2("cell_identifier_ca", 5)>>

URestore ==
    [mcc |-> Option(Trusted(10)), mnc |-> Option(Trusted(14)),
     la |-> Option(Trusted(14)), sdu |-> Option(Tail64)]
URestoreRead ==
    <<Fixed(3, MlePduTypeUl.URestore), ReadObit, Type2("mcc", 10), Type2("mnc", 14),
      Type2("la", 14), ReadSdu>>
URestoreWrite ==
    <<Fixed(3, MlePduTypeUl.URestore), Must(NoSdu), Obit({"mcc", "mnc", "la"}),
      Type2("mcc", 10), Type2("mnc", 14), Type2("la", 14)>>
-----------------------------------------------------------------------------
\* Every PDU of the MLE.
MlePdus ==
    [DMleSync |-> Pdu(DMleSync, DMleSyncRead, DMleSyncWrite, <<>>),
     DMleSysinfo |-> Pdu(DMleSysinfo, DMleSysinfoRead, DMleSysinfoWrite, <<>>),
     DNewCell |-> Pdu(DNewCell, DNewCellRead, DNewCellWrite, <<>>),
     DPrepareFail |-> Pdu(DPrepareFail, DPrepareFailRead, DPrepareFailWrite, <<>>),
     DRestoreAck |-> Pdu(DRestoreAck, DRestoreAckRead, DRestoreAckWrite, <<>>),
     DRestoreFail |->
        Checked(Pdu(DRestoreFail, DRestoreFailRead, DRestoreFailWrite,
            DRestoreFailValid)),
     DChannelResponse |->
        Checked(Pdu(DChannelResponse, DChannelResponseRead, DChannelResponseWrite,
            DChannelResponseValid)),
     DNwrkBroadcast |->
        With(Based(Pdu(DNwrkBroadcast, DNwrkBroadcastRead, DNwrkBroadcastWrite,
            DNwrkBroadcastValid), <<{"number_of_ca_neighbour_cells"}, {}>>),
            Neighbours),
     DNwrkBroadcastRemove |->
        With(Pdu(DNwrkBroadcastRemove, DNwrkBroadcastRemoveRead,
            DNwrkBroadcastRemoveWrite, DNwrkBroadcastRemoveValid), NothingRemoved),
     UChannelClassAdvice |->
        Based(Pdu(UChannelClassAdvice, UChannelClassAdviceRead,
            UChannelClassAdviceWrite, UChannelClassAdviceValid),
            <<{"channel_class_identifier", "protocol_discriminator"}>>),
     UPrepare |-> Pdu(UPrepare, UPrepareRead, UPrepareWrite, <<>>),
     URestore |-> Pdu(URestore, URestoreRead, URestoreWrite, <<>>)]
=============================================================================

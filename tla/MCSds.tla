------------------------------- MODULE MCSds -------------------------------
(***************************************************************************)
(* Short data on small instances: two terminals, a group, a peer of the    *)
(* network (50) that is not of this cell.                                  *)
(***************************************************************************)
EXTENDS SdsSystem

CONSTANT OtherMni

Peer == 50
OtherPid == 137
Text(ref, req) == Transfer(TextPid, ref, req)

Called(dst) == [party |-> "Ssi", mni |-> None, dst |-> dst, other |-> FALSE]
USds(dst, data) == [k |-> "USdsData", data |-> data, wx |-> FALSE] @@ Called(dst)
UStatusTo(dst, status) ==
    [k |-> "UStatus", status |-> status, kind |-> Received, ref |-> 0] @@ Called(dst)
ShortReport(dst, kind, ref) ==
    [k |-> "UStatus", status |-> "ShortReport", kind |-> kind, ref |-> ref] @@ Called(dst)
Net(uuid, dst, data) ==
    [uuid |-> uuid, src |-> Peer, dst |-> dst, data |-> data, fits |-> TRUE]
Send(k, dst, group, data) ==
    [k |-> k, src |-> Peer, dst |-> dst, group |-> group, aligned |-> TRUE, long |-> FALSE, data |-> data]
Live(repeat) == [k |-> "AddLiveSds", repeat |-> repeat]

Work(pdus, from, net, cmds, may, n) ==
    [registered |-> Issis, member |-> {<<1, 10>>}, pdus |-> pdus, from |-> from, net |-> net,
     cmds |-> cmds, may |-> may, hmd |-> FALSE, connected |-> {TRUE} \cup {c \in BOOLEAN : net = {}},
     left |-> [pdu |-> n[1], net |-> Cardinality({x.uuid : x \in net}), ctl |-> n[2], env |-> n[3]]]

\* Reports of every kind, and more contexts than there is room for.
ReportWork ==
    Work({ShortReport(Peer, Received, 1), ShortReport(Peer, Consumed, 1),
          ShortReport(Peer, "DestMemFull", 1)}, {1},
         {Net("u1", 1, Text(1, {Received, Consumed})), Net("u3", 1, Text(2, {Received}))},
         {Send("SendSds", 2, FALSE, None)}, {}, <<2, 1, 0>>)
\* A reference used again, while messages wait for a call.
ReusedWork ==
    Work({ShortReport(Peer, Received, 1), ShortReport(Peer, Consumed, 1)}, {1},
         {Net("u1", 1, Text(1, {Received, Consumed})), Net("u2", 1, Transfer(OtherPid, 1, {Consumed}))},
         {}, {<<"call", 1>>}, <<2, 0, 1>>)
\* Messages that wait for calls, one more than there is room for, and a terminal that leaves.
CallWork ==
    Work({USds(2, Text(1, {Received}))}, {1},
         {Net("u1", 1, Text(1, {})), Net("u2", 2, Text(2, {})), Net("u3", 1, Plain)},
         {}, {<<"call", 1>>, <<"call", 2>>, <<"leave", 1>>}, <<1, 0, 3>>)
\* Groups, everybody and destinations that are not known or do not fit.
GroupWork ==
    Work({USds(10, Text(1, {Received})), USds(Broadcast, Text(1, {Received})), UStatusTo(10, "Code")}, {1},
         {Net("u1", 10, Text(1, {Received})), Net("u2", Broadcast, Text(2, {Received})),
          [Net("u3", 1, Plain) EXCEPT !.fits = FALSE], Net("u3", 77, Plain)},
         {}, {<<"leave", 1>>, <<"join", 2>>}, <<1, 0, 2>>)
\* What operators send.
OperatorWork ==
    Work({ShortReport(Peer, Consumed, 1)}, {1}, {Net("u2", Broadcast, Text(2, {Received}))},
         {Send("SendSds", Broadcast, FALSE, None), Send("SendRawSds", Broadcast, TRUE, Text(1, {Received})),
          Send("SendRawSds", 10, TRUE, Plain), Send("SendStatus", 10, TRUE, None),
          Send("SendRawSds", 1, FALSE, Text(1, {Consumed})), Send("KickMs", 2, FALSE, None),
          Send("SendStatus", 2, FALSE, None), [Send("SendSds", 1, FALSE, None) EXCEPT !.long = TRUE]},
         {<<"leave", 1>>}, <<1, 2, 1>>)
\* The weather service, commands by status, and what is not supported.
ServiceWork ==
    Work({[USds(WxIssi, Text(1, {})) EXCEPT !.wx = TRUE], USds(WxIssi, Report(TextPid, 1, "Ok")),
          ShortReport(WxIssi, Received, 1), UStatusTo(CommandIssi, "KickAll"), UStatusTo(2, "Code"),
          UStatusTo(Peer, "Code"), USds(Peer, Plain),
          [USds(2, Plain) EXCEPT !.party = "Tsi", !.mni = OtherMni],
          [USds(2, Plain) EXCEPT !.party = "Tsi", !.mni = LocalMni],
          [UStatusTo(2, "Code") EXCEPT !.other = TRUE], [k |-> "UFacility"]}, {1, 2},
         {}, {}, {<<"call", 1>>}, <<2, 0, 1>>)
\* Live messages, beside a configured display.
LiveWork ==
    [Work({}, {}, {}, {Live(0), Live(1), Live(2), [k |-> "DeleteLiveSds", id |-> 1], [k |-> "ClearLiveSds"]},
          {}, <<0, 4, 0>>) EXCEPT !.hmd = TRUE]

MCWorkloads == {ReportWork, ReusedWork, CallWork, GroupWork, OperatorWork, ServiceWork, LiveWork}
MCOperators == {2}
MCGroups == {10}
MCIssis == {1, 2}
MCUuids == {"u1", "u2", "u3"}
=============================================================================

------------------------------ MODULE MCBrewLink ------------------------------
(***************************************************************************)
(* The link on small instances: terminal 1 is routable, terminal 2 is not, *)
(* group 11 is local, 7 is a terminal of another cell.                     *)
(***************************************************************************)
EXTENDS BrewLink

MCIssis == {1, 2}
MCExternals == {7}
MCGroups == {10, 11}
MCRoutable == {1}
MCRoutableGroups == {10}
MCUuids == {"u1", "u2"}
MCLates == {0, 1}

Update(k, i) == [k |-> k, of |-> i, groups |-> {}]
Groupwise(k, i, gs) == [k |-> k, of |-> i, groups |-> gs]
Ext(what, x, gs) == [k |-> "SubscriberEvent", of |-> x, what |-> what, groups |-> gs]
Call(k, u) == [k |-> k, of |-> u]
Sds(u, fits) == [k |-> "SDS_TRANSFER", of |-> u, fits |-> fits]
Voice(u) == [k |-> "VoiceFrame", of |-> u, n |-> 0]

None == [mm |-> 0, cc |-> 0, media |-> 0, stop |-> 0, fail |-> 0, expire |-> 0, break |-> 0, net |-> 0]
Work(updates, signals, msgs, n) ==
    [updates |-> updates, calls |-> {"u1"}, signals |-> signals, msgs |-> msgs, left |-> n]

Moves(i) ==
    {Update("Register", i), Update("Deregister", i), Groupwise("Affiliate", i, {10, 11}),
     Groupwise("Deaffiliate", i, {10})}

\* Terminals come and go while the connection breaks.
MoveWork ==
    Work(Moves(1) \cup {Update("Register", 2), Groupwise("Affiliate", 2, {10})}, {}, {},
         [None EXCEPT !.mm = 4, !.break = 1, !.fail = 1, !.media = 1])
\* Terminals of other cells.
ExternalWork ==
    Work({Update("Register", 1)}, {},
         {Ext("Affiliate", 7, {10, 11}), Ext("Deaffiliate", 7, {10}), Ext("Deregister", 7, {}),
          Ext("Affiliate", 1, {10})},
         [None EXCEPT !.mm = 1, !.break = 1, !.net = 3])
\* A call from the network.
IncomingWork ==
    Work({}, {"SendCallAlert", "SendConnectRequest", "SendCallRelease"},
         {Call("NetworkCircuitSetupRequest", "u1"), Call("NetworkCircuitConnectConfirm", "u1"),
          Call("NetworkCircuitRelease", "u1")},
         [None EXCEPT !.cc = 2, !.break = 1, !.net = 3])
\* A call of a terminal.
OutgoingWork ==
    Work({}, {"SendSetupRequest", "SendCallRelease"},
         {Call("NetworkCircuitConnectRequest", "u1"), Call("NetworkCircuitSetupReject", "u1"),
          Call("NetworkCircuitRelease", "u1")},
         [None EXCEPT !.cc = 2, !.break = 1, !.net = 2, !.media = 1])
\* Speech.
VoiceWork ==
    Work({}, {"SendSetupRequest"}, {Call("NetworkCircuitConnectRequest", "u1"), Voice("u1")},
         [None EXCEPT !.cc = 1, !.net = 6, !.break = 1])
\* Messages.
MessageWork ==
    Work({}, {}, {Call("SHORT_TRANSFER", "u2"), Sds("u2", TRUE), Sds("u2", FALSE)},
         [None EXCEPT !.net = 4, !.break = 1, !.expire = 1])
\* The base station stops.
StopWork ==
    Work({Update("Register", 1), Groupwise("Affiliate", 1, {10}), Update("Register", 2)},
         {}, {Ext("Affiliate", 7, {10})},
         [None EXCEPT !.mm = 3, !.break = 1, !.fail = 1, !.net = 2, !.stop = 1])

MCWorkloads == {MoveWork, ExternalWork, IncomingWork, OutgoingWork, VoiceWork, MessageWork, StopWork}
=============================================================================

------------------------------ MODULE MCUmacBs ------------------------------
(***************************************************************************)
(* Workloads for UmacBs: terminals ma, mb and mc, a group grp, and the     *)
(* queues cut to a few places.  Slots are counted from the start of a      *)
(* workload; At(n) begins in multiframe 2, whose frame 18 keeps timeslot 1 *)
(* for linearisation.                                                      *)
(***************************************************************************)
EXTENDS UmacBs

CONSTANTS ma, mb, mc, grp, everyone

MCIssiNumber == [m \in Issis |-> CASE m = ma -> 1 [] m = mb -> 2 [] OTHER -> 3]

Sdu(id, bits, kind) == [id |-> id, bits |-> bits, kind |-> kind, call |-> 7]
Req(h, addr, bits, kind, ca, steal) ==
    [h |-> h, addr |-> addr, sdu |-> Sdu(h, bits, kind), ca |-> ca, steal |-> steal, rep |-> TRUE]
Ca(ts, dir) == [type |-> "Replace", ts |-> {ts}, dir |-> dir]

Ask(r, lo, hi) == [op |-> "Request", r |-> r, lo |-> lo, hi |-> hi]
Withdraw(h, lo, hi) == [op |-> "Cancel", h |-> h, lo |-> lo, hi |-> hi]
Try(m, t, res, total, lo, hi) ==
    [op |-> "Access", m |-> m, t |-> t, res |-> res, total |-> total, lo |-> lo, hi |-> hi]
Save(m, mode) == [op |-> "Economize", m |-> m, mode |-> mode, lo |-> 0, hi |-> 0]
SaveAt(m, mode, lo, hi) == [op |-> "Economize", m |-> m, mode |-> mode, lo |-> lo, hi |-> hi]
Join(m, gr, lo, hi) == [op |-> "Attach", m |-> m, g |-> gr, lo |-> lo, hi |-> hi]
Leave(m, gr, lo, hi) == [op |-> "Detach", m |-> m, g |-> gr, lo |-> lo, hi |-> hi]
Take(t, lo, hi) == [op |-> "Claim", t |-> t, lo |-> lo, hi |-> hi]
Give(t, lo, hi) == [op |-> "Free", t |-> t, lo |-> lo, hi |-> hi]
Circ(addr, others, peer, src) == [addr |-> addr, others |-> others, peer |-> peer, src |-> src]
Up(t, dir, circ, lo, hi) == [op |-> "Open", t |-> t, dir |-> dir, c |-> circ, lo |-> lo, hi |-> hi]
Down(t, dir, lo, hi) == [op |-> "Close", t |-> t, dir |-> dir, lo |-> lo, hi |-> hi]
Talk(what, t, who, lo, hi) ==
    [op |-> "Floor", what |-> what, t |-> t, who |-> who, g |-> grp, lo |-> lo, hi |-> hi]
From(t, src, lo, hi) == [op |-> "Source", t |-> t, src |-> src, lo |-> lo, hi |-> hi]
Say(t, who, lo, hi) == [op |-> "Voice", t |-> t, voice |-> who, lo |-> lo, hi |-> hi]
Net(t, lo, hi) == [op |-> "NetworkVoice", t |-> t, voice |-> None, lo |-> lo, hi |-> hi]
Sign(t, ack, lo, hi) == [op |-> "Signal", t |-> t, ack |-> ack, lo |-> lo, hi |-> hi]

Work(start, slots, members, losses, spare, events) ==
    [start |-> start, slots |-> slots, members |-> [x \in Gssis |-> IF x = grp THEN members ELSE {}],
     losses |-> losses, spare |-> spare, events |-> events]
At(n) == 72 + n

\* Random access and reserved access around the linearisation slot of frame 18.
AccessWork ==
    Work(At(56), 44, {}, 1, {},
         <<Try(ma, 1, 2, 3, 4, 16), Try(mb, 1, 1, 2, 4, 16), Try(mc, 1, 0, 2, 8, 16),
           Ask(Req(1, ma, 120, "Setup", None, FALSE), 4, 9)>>)

\* The same across the end of hyperframe 65535, with a spare slot and a withdrawn
\* request that may be carrying an acknowledgement.
WrapWork ==
    Work(TIME_INT_WRAP - 24, 44, {}, 0, {"MacData", "MacUBlck"},
         <<Try(ma, 1, 4, 5, 4, 12), Try(mb, 1, 3, 1, 4, 16),
           Ask(Req(1, mb, 300, "BlData", None, FALSE), 3, 9), Withdraw(1, 4, 30)>>)

\* Packet data on timeslot 2, which a call claims, opens and gives back.
PacketWork ==
    Work(At(0), 76, {}, 0, {"MacUBlck"},
         <<Ask(Req(1, ma, 80, "Sndcp", Ca(4, "Both"), FALSE), 0, 2),
           Ask(Req(2, ma, 500, "Sndcp", None, FALSE), 5, 8),
           Try(ma, 2, 2, 2, 6, 22),
           Take(2, 8, 22), Up(2, "Both", Circ(mb, {mc}, None, "LocalLoopback"), 10, 24),
           Down(2, "Both", 26, 28), Give(2, 27, 30),
           Ask(Req(3, ma, 80, "Sndcp", Ca(2, "Both"), FALSE), 20, 32)>>)
ExpiryWork ==
    Work(At(0), 80, {}, 0, {},
         <<Ask(Req(1, ma, 80, "Sndcp", Ca(4, "Both"), FALSE), 0, 2),
           Ask(Req(2, mb, 80, "Sndcp", Ca(4, "Both"), FALSE), 4, 66),
           Try(ma, 2, 3, 2, 52, 66)>>)

\* A group message, in one block or in fragments, to members that sleep.
GroupWork(bits) ==
    Work(At(0), 236, {ma, mb}, 0, {},
         <<Save(ma, 1), Save(mb, 2), Save(mc, 4), Join(mc, grp, 146, 200),
           Ask(Req(1, grp, bits, "Other", None, FALSE), 160, 176), Leave(mb, grp, 165, 185),
           Ask(Req(2, everyone, 100, "Other", None, FALSE), 176, 178)>>)

\* More requests than there is room for.
CrowdWork ==
    Work(At(20), 90, {}, 0, {},
         <<Ask(Req(1, ma, 120, "Other", None, FALSE), 0, 1), Ask(Req(2, mb, 600, "Other", None, FALSE), 0, 1),
           Ask(Req(3, mc, 200, "Other", None, FALSE), 0, 2), Ask(Req(4, ma, 120, "Setup", None, FALSE), 1, 3),
           Ask(Req(5, mb, 140, "Setup", Ca(3, "Both"), FALSE), 1, 4),
           Ask(Req(6, mc, 140, "Setup", Ca(4, "Both"), FALSE), 1, 6), Try(mb, 1, 1, 2, 2, 12)>>)

\* A group call on timeslot 3 with two speakers.
GroupCallWork ==
    Work(At(4), 40, {ma, mb, mc}, 0, {},
         <<Take(3, 0, 0), Up(3, "Both", Circ(grp, {ma}, None, "LocalLoopback"), 1, 1), Say(3, ma, 4, 8),
           Talk("Released", 3, None, 9, 13), Say(3, mb, 10, 18), Try(mb, 3, -1, 1, 12, 16),
           Ask(Req(1, mb, 60, "TxGranted", Ca(3, "Both"), TRUE), 14, 19),
           Talk("Granted", 3, mb, 14, 21), Say(3, mb, 20, 26), Net(3, 24, 26),
           Talk("Ended", 3, None, 30, 31), Down(3, "Both", 31, 33)>>)

\* A private simplex call on one timeslot, and one on two.
PrivateWork ==
    Work(At(4), 44, {}, 0, {},
         <<Take(3, 0, 0), Up(3, "Both", Circ(ma, {mb}, None, "LocalLoopback"), 1, 1), Say(3, ma, 3, 8),
           Sign(3, TRUE, 4, 6), Talk("Granted", 3, ma, 6, 12), Say(3, ma, 10, 14),
           Talk("Granted", 3, mb, 14, 18), Say(3, mb, 16, 20),
           From(3, "SwMI", 20, 22), Talk("Granted", 3, mc, 21, 24), Down(3, "Both", 36, 40)>>)
PairWork ==
    Work(At(4), 44, {}, 0, {},
         <<Save(mb, 1), Take(3, 0, 0), Take(4, 0, 0),
           Up(3, "Both", Circ(ma, {}, 4, "LocalLoopback"), 1, 2), Up(4, "Both", Circ(mb, {}, 3, "LocalLoopback"), 1, 2),
           Say(3, ma, 4, 10), Talk("Released", 3, None, 9, 13), Talk("Granted", 4, mb, 13, 15),
           Say(4, mb, 14, 18), Say(3, ma, 14, 20), Up(4, "Dl", Circ(mc, {}, 3, "LocalLoopback"), 18, 22),
           Down(3, "Both", 24, 26), Down(4, "Both", 26, 28)>>)

\* Terminals that save energy, in the circuits of two groups and of a private call.
HeldAwakeWork ==
    Work(At(4), 24, {ma, mb}, 0, {},
         <<Save(ma, 1), Save(mb, 3), SaveAt(mc, 2, 2, 12), Take(2, 0, 0), Take(3, 0, 0), Take(4, 0, 0),
           Up(2, "Both", Circ(grp, {ma}, None, "LocalLoopback"), 1, 3), Up(3, "Both", Circ(everyone, {}, None, "LocalParrot"), 2, 4),
           Leave(mb, grp, 2, 8), SaveAt(ma, 5, 4, 8), Up(2, "Ul", Circ(ma, {mb}, None, "LocalParrot"), 5, 9),
           Down(2, "Ul", 8, 12), Down(2, "Both", 10, 14), Down(3, "Both", 10, 14)>>)

MCWorkloads ==
    {AccessWork, WrapWork, PacketWork, ExpiryWork, GroupWork(100), GroupWork(500), CrowdWork,
     GroupCallWork, PrivateWork, PairWork, HeldAwakeWork}
=============================================================================

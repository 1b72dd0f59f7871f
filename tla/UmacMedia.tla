----------------------------- MODULE UmacMedia -----------------------------
(***************************************************************************)
(* The handlers of the upper MAC (umac_bs.rs), each from a state record s  *)
(* to the next: received signalling; circuits and speech; the requests of  *)
(* the LLC.                                                                *)
(*                                                                         *)
(* What the upper MAC does with a burst received in a signalling slot      *)
(* (rx_tmv_sch and the handlers it calls, umac_bs.rs), and the link        *)
(* contexts it keeps for packet data.                                      *)
(*                                                                         *)
(* A burst u is [kind, addr, res, frag, msg, part, len, blk]: the MAC PDU, *)
(* the address it carries (None for the PDUs that have none), the reserved *)
(* access it asks for (NoRequest if none, 0 for half a slot), whether it   *)
(* starts a fragmented TM-SDU, and its piece of that TM-SDU.  Handlers see *)
(* it two slots after it was sent.  s.out collects what goes to the other  *)
(* entities; ctx and lost are the endpoints known for packet data.         *)
(***************************************************************************)
EXTENDS BsSched

NoRequest == -1

Send(s, m) == [s EXCEPT !.out = Append(@, m)]
MsgTime(s) == Add(s.now, -2)
MarkMsActivity(s, addr) == MarkAddrActivity(s, addr, MsgTime(s))

\* scheduled_or_packet_data_uplink_context
UplinkContext(s, blk) ==
    LET owner == SlotOwner(s.ul, MsgTime(s), blk)
        pdata == PdUplinkOwner(s, MsgTime(s), blk)
    IN  CASE owner # None -> [addr |-> owner, pd |-> FALSE]
          [] owner = None /\ pdata # None -> [addr |-> pdata, pd |-> TRUE]
          [] OTHER -> None

EnqueueReservation(s, t, addr, res, origin) ==
    IF res = NoRequest THEN s ELSE Push(s, t, Pending(addr, NewDebt(res), origin))
ReserveForContext(s, c, res) ==
    IF c.pd THEN EnqueueReservation(s, PdSlot, c.addr, res, PdSlot)
    ELSE EnqueueReservation(s, Slot(MsgTime(s)), c.addr, res, CommonControl)
ReserveForAddr(s, addr, blk, res, redirect) ==
    ReserveForContext(s, [addr |-> addr,
                          pd |-> \/ PdUplinkOwner(s, MsgTime(s), blk) = addr
                                 \/ redirect /\ ActivePdUplink(s, addr, FALSE)], res)

EnqueueRandomAccessAck(s, t, addr) == PushWithCap(s, t, Ack(addr), MAX_PENDING_RA_ACKS)

Indicate(s, addr, frags) == Send(s, [to |-> "Llc", kind |-> "Ind", addr |-> addr, frags |-> frags])
Piece(u) == [msg |-> u.msg, part |-> u.part, len |-> u.len]

------------------------------------------------------------------------------
(* MAC-DATA and MAC-ACCESS start a fragmented TM-SDU or carry a whole one; *)
(* a whole one drops what the terminal had left unfinished on the slot.    *)
FirstOrWhole(s, u) ==
    LET key == <<Slot(MsgTime(s)), u.addr>>
    IN  IF u.frag THEN [s EXCEPT !.defrag = InsertFirst(@, key, Piece(u), MsgTime(s))]
        ELSE LET d == [s EXCEPT !.defrag = DiscardIncomplete(@, key)]
             IN  IF u.len = 0 THEN d ELSE Indicate(d, u.addr, <<Piece(u)>>)

RxMacData(s, u) ==
    FirstOrWhole(ReserveForAddr(MarkMsActivity(s, u.addr), u.addr, u.blk, u.res, TRUE), u)

RxMacAccess(s, u) ==
    LET a == EnqueueRandomAccessAck(MarkMsActivity(s, u.addr), Slot(MsgTime(s)), u.addr)
    IN  FirstOrWhole(ReserveForAddr(a, u.addr, u.blk, u.res, ~ u.frag), u)

------------------------------------------------------------------------------
(* The PDUs without an address belong to whoever the slot was reserved for.*)
RxMacFragUl(s, u) ==
    LET c == UplinkContext(s, u.blk)
    IN  IF c = None THEN s
        ELSE [MarkMsActivity(s, c.addr) EXCEPT
                !.defrag = InsertNext(@, <<Slot(MsgTime(s)), c.addr>>, Piece(u), MsgTime(s))]

LastFragment(s, u, c) ==
    LET a == MarkMsActivity(s, c.addr)
        l == InsertLast(a.defrag, <<Slot(MsgTime(s)), c.addr>>, Piece(u), MsgTime(s))
        d == [a EXCEPT !.defrag = l.d]
    IN  IF l.frags = None THEN d ELSE Indicate(ReserveForContext(d, c, u.res), c.addr, l.frags)

RxMacEndUl(s, u) ==
    LET c == UplinkContext(s, u.blk) IN IF c = None THEN s ELSE LastFragment(s, u, c)

RxMacEndHu(s, u) ==
    LET owner == SlotOwner(s.ul, MsgTime(s), u.blk)
    IN  IF owner = None THEN s ELSE LastFragment(s, u, [addr |-> owner, pd |-> FALSE])

RxUlMacUBlck(s, u) ==
    LET c == UplinkContext(s, u.blk)
        d == [s EXCEPT !.defrag = DiscardIncomplete(@, <<Slot(MsgTime(s)), c.addr>>)]
        r == ReserveForContext(MarkMsActivity(d, c.addr), c, u.res)
    IN  IF c = None THEN s ELSE IF u.len = 0 THEN r ELSE Indicate(r, c.addr, <<Piece(u)>>)

RxTmvSch(s, u) == CASE u.kind = "MacData" -> RxMacData(s, u)
                    [] u.kind = "MacAccess" -> RxMacAccess(s, u)
                    [] u.kind = "MacFrag" -> RxMacFragUl(s, u)
                    [] u.kind = "MacEnd" -> RxMacEndUl(s, u)
                    [] u.kind = "MacEndHu" -> RxMacEndHu(s, u)
                    [] u.kind = "MacUBlck" -> RxUlMacUBlck(s, u)

------------------------------------------------------------------------------
(* Packet-data contexts: which terminals SNDCP has put on the channel, and *)
(* which of them it has been told have lost it.                            *)
RememberLinkContext(s, r) ==
    IF r.ca = None \/ ~ IsIssi(r.addr) \/ ~ IsPacketData(r.sdu) THEN s
    ELSE IF r.ca.type = "QuitAndGo" \/ r.ca.ts = {} THEN [s EXCEPT !.ctx = @ \ {r.addr}]
    ELSE [s EXCEPT !.ctx = @ \cup {r.addr}, !.lost = @ \ {r.addr}]

NotifyLoss(s, addr) ==
    IF addr \notin s.ctx \/ addr \in s.lost THEN s
    ELSE Send([s EXCEPT !.lost = @ \cup {addr}], [to |-> "Sndcp", kind |-> "Loss", addr |-> addr])

RecoverIfTs2Free(s) ==
    LET who == SetToSeq(s.lost)
        told[n \in 0 .. Len(who)] == IF n = 0 THEN [s EXCEPT !.lost = {}]
            ELSE Send(told[n - 1], [to |-> "Sndcp", kind |-> "Recovery", addr |-> who[n]])
    IN  IF s.alloc[PdSlot] = None /\ ~ VoiceOn(s, PdSlot) THEN told[Len(who)] ELSE s

DrainLossEvents(s) ==
    LET who == SetToSeq(s.losses)
        told[n \in 0 .. Len(who)] == IF n = 0 THEN [s EXCEPT !.losses = {}] ELSE NotifyLoss(told[n - 1], who[n])
    IN  told[Len(who)]

------------------------------------------------------------------------------
(***************************************************************************)
(* Circuits, the floor and speech in the upper MAC (umac_bs.rs): what a    *)
(* change of circuit or of speaker does to the speech under way, and the   *)
(* energy-economy terminals that must stay awake while a circuit is open   *)
(* for them.                                                               *)
(*                                                                         *)
(* Fields of s: speaker[t] (current_ul_speaker), lastVoice[t], held[t]     *)
(* (pending_private_ul_media: speech put aside until its speaker has the   *)
(* floor), susp (active_energy_saving_suspensions: <<slot, addr>> to the   *)
(* terminals held awake).  A block of speech is [from, who, voice]; voice  *)
(* names the terminal that really spoke, which the code does not see.      *)
(***************************************************************************)

-----------------------------------------------------------------------------
(***************************************************************************)
(* TMA-UNITDATA and TMA-CANCEL requests of the LLC (umac_bs.rs): admission *)
(* under a bound on the reports owed, the choice between a stolen half     *)
(* slot and a signalling slot, and the one report each request is owed.    *)
(*                                                                         *)
(* A request r is [h, addr, sdu, ca, steal, rep]: its handle, ca the       *)
(* channel allocation asked for, rep whether the LLC gave a TxReporter.    *)
(* The receipt of a request is s.rcpt[r.h].  s.reports is                  *)
(* pending_tma_reports: [h, at, prio].                                     *)
(***************************************************************************)

CONSTANTS MAX_PENDING_TMA_REPORTS, TMA_REPORT_PENDING_TIMEOUT

Report(s, h, what) == Send(s, [to |-> "Llc", kind |-> "Report", h |-> h, what |-> what])

------------------------------------------------------------------------------
(* classify_tma_admission_priority: Ordinary 0 < CallControl 1 <           *)
(* ChannelAllocation 2 < ListenerFloorGrant 3 < PositiveFloorGrant 4 <     *)
(* FloorWithdraw 5.                                                        *)
AdmissionPriority(r) ==
    LET alloc == IF r.ca = None THEN 0 ELSE 2
        kind == r.sdu.kind
    IN  CASE ~ r.steal -> IF r.ca = None /\ kind \in SetupKinds THEN 1 ELSE alloc
          [] r.steal /\ kind \in {"TxInterrupt", "TxCeased"} -> 5
          [] r.steal /\ kind = "TxGranted" /\ Uplink(r.ca) -> 4
          [] r.steal /\ kind = "TxGrantedOther" /\ r.ca # None -> 3
          [] OTHER -> alloc

\* Mutant: the report is kept after it was sent.
EmitReportAgain(s, p) ==
    LET kept == [s EXCEPT !.reports = Append(@, p)]
    IN  CASE s.rcpt[p.h] = "Transmitted" -> Report(kept, p.h, "Success")
          [] s.rcpt[p.h] = "Discarded" -> Report(kept, p.h, "Failure")
          [] OTHER -> kept
\* emit_completed_tma_reports: each report owed is sent, or kept, or given up.
EmitReport(s, p) ==
    LET kept == [s EXCEPT !.reports = Append(@, p)]
        late == Diff(s.now, Add(p.at, TMA_REPORT_PENDING_TIMEOUT)) >= 0
    IN  CASE s.rcpt[p.h] = "Transmitted" -> Report(s, p.h, "Success")
          [] s.rcpt[p.h] = "Discarded" -> Report(s, p.h, "Failure")
          [] s.rcpt[p.h] = "Pending" /\ late ->
               Report(MarkDiscarded(CancelByReporter(s, p.h), p.h), p.h, "Failure")
          [] OTHER -> kept
EmitCompletedReports(s) ==
    LET owed == s.reports
        done[n \in 0 .. Len(owed)] ==
            IF n = 0 THEN [s EXCEPT !.reports = <<>>] ELSE EmitReport(done[n - 1], owed[n])
    IN  done[Len(owed)]

\* evict_lower_priority_tma_report: the first of the least urgent goes.
Evictable(s, prio) == {n \in DOMAIN s.reports : /\ s.reports[n].prio < prio
                                               /\ s.rcpt[s.reports[n].h] = "Pending"}
Evict(s, prio) ==
    LET n == CHOOSE n \in Evictable(s, prio) : \A m \in Evictable(s, prio) :
                 \/ s.reports[n].prio < s.reports[m].prio
                 \/ s.reports[n].prio = s.reports[m].prio /\ n <= m
        h == s.reports[n].h
        c == CancelByReporter([s EXCEPT !.reports = RemoveAt(@, n)], h)
    IN  Report(MarkDiscarded(c, h), h, "Failure")

RetainsReport(r) == r.rep \/ r.sdu.kind # "BlAck"

\* track_tma_request.  The request is refused if no room can be made for its report.
Admits(s, r) ==
    LET e == EmitCompletedReports(s)
    IN  \/ ~ RetainsReport(r) \/ Len(e.reports) < MAX_PENDING_TMA_REPORTS
        \/ Evictable(e, AdmissionPriority(r)) # {}
Track(s, r) ==
    LET e == EmitCompletedReports(IF RetainsReport(r) THEN [s EXCEPT !.rcpt[r.h] = "Pending"] ELSE s)
        full == Len(e.reports) >= MAX_PENDING_TMA_REPORTS
        room == IF full THEN Evict(e, AdmissionPriority(r)) ELSE e
    IN  CASE ~ RetainsReport(r) -> e
          [] RetainsReport(r) /\ ~ Admits(s, r) -> Report(MarkDiscarded(e, r.h), r.h, "Failure")
          [] OTHER -> [room EXCEPT !.reports =
                          Append(@, [h |-> r.h, at |-> s.now, prio |-> AdmissionPriority(r)])]

------------------------------------------------------------------------------
(* Stealing: the slot named by the channel allocation, or the first with a *)
(* circuit.  Some channel allocations are left out of the stolen message:  *)
(* they tell the terminal nothing new, or there is no room for them.       *)
CircuitSlots(s) == {t \in 2..4 : s.dl[t] # None}
TrafficSlotFor(s, r) ==
    IF r.ca # None /\ r.ca.ts # {} THEN Min(r.ca.ts)
    ELSE IF CircuitSlots(s) = {} THEN None ELSE Min(CircuitSlots(s))

ActiveAddrs(c) == IF c = None THEN {} ELSE {c.addr} \cup c.others
PrivateScoped(s, t) == s.upl[t] # None /\ IsIssi(s.upl[t].addr)

RedundantPrivateAlloc(s, r, t) ==
    /\ IsIssi(r.addr) /\ r.sdu.kind \in {"TxGranted", "TxGrantedOther"} /\ PrivateScoped(s, t)
    /\ r.addr \in ActiveAddrs(s.dl[t]) \cup ActiveAddrs(s.upl[t])
GroupTimerInfo(r) == IsGssi(r.addr) /\ r.ca # None /\ r.ca.dir = "Dl" /\ r.sdu.kind = "Info"
CanOmitListenerAlloc(s, r, t) ==
    /\ IsGssi(r.addr) /\ r.sdu.kind = "TxGrantedOther" /\ r.ca # None
    /\ r.ca.dir \in {"Dl", "Both"} /\ t \in r.ca.ts /\ r.addr \in ActiveAddrs(s.dl[t])

Usage(r) == IF r.ca = None \/ r.ca.ts = {} \/ IsPacketData(r.sdu) THEN None ELSE Min(r.ca.ts)
StchLen(pdu, sdu) == LET n == HeaderLen(pdu) + sdu.bits IN n + FillBits(n, STCH_CAP)
StolenPdu(s, r, t) ==
    LET whole == [MinimalResource(r.addr, None, FALSE) EXCEPT
                     !.ca = IF RedundantPrivateAlloc(s, r, t) \/ GroupTimerInfo(r) THEN None ELSE r.ca,
                     !.marker = IF GroupTimerInfo(r) THEN None ELSE Usage(r)]
    IN  IF StchLen(whole, r.sdu) > STCH_CAP /\ CanOmitListenerAlloc(s, r, t)
        THEN [whole EXCEPT !.ca = None] ELSE whole

StealOn(s, r, t, pdu, rep) ==
    LET positive == r.sdu.kind = "TxGranted"
        group == /\ positive /\ IsIssi(r.addr) /\ Uplink(pdu.ca)
                 /\ ~ PrivateScoped(s, t) /\ s.upl[t] # None /\ IsGssi(s.upl[t].addr)
        carries == pdu.ca # None \/ (RedundantPrivateAlloc(s, r, t) /\ positive)
        ra == MirrorsRaAck(s, t, r.addr, group)
    IN  Push(TakeRaAckForStch(s, t, r.addr, carries, group), t,
             Steal([pdu EXCEPT !.ra = ra], r.sdu, rep, None))

NeedsAckGrant(r) == ~ r.steal /\ r.sdu.kind = "BlData" /\ Uplink(r.ca)

\* rx_ul_tma_unitdata_req
TmaUnitdataReq(s, r) ==
    LET k == Track(s, r)
        rep == IF RetainsReport(r) THEN r.h ELSE None
        t == TrafficSlotFor(k, r)
        pdu == StolenPdu(k, r, t)
        m == RememberLinkContext(k, r)
        res == [MinimalResource(r.addr, None, FALSE) EXCEPT !.ca = r.ca, !.marker = Usage(r)]
    IN  IF ~ Admits(s, r) THEN k
        ELSE IF /\ r.steal /\ t # None /\ k.dl[t] # None
                /\ StchLen(pdu, r.sdu) <= STCH_CAP
        THEN StealOn(k, r, t, pdu, rep)
        ELSE EnqueueTma(m, res, r.sdu, rep, IF NeedsAckGrant(r) THEN r.addr ELSE None)

\* rx_tma_cancel_req: a request that was sent, or has nothing queued, keeps its report.
TmaCancelReq(s, h) ==
    LET at == {n \in DOMAIN s.reports : s.reports[n].h = h}
        n == Min(at)
        others == [s EXCEPT !.reports = RemoveAt(@, n)]
    IN  IF at = {} THEN s
        ELSE IF s.rcpt[h] = "Transmitted" \/ ~ Queued(s, h)
        THEN [others EXCEPT !.reports = Append(@, s.reports[n])]
        ELSE CancelByReporter(others, h)

-----------------------------------------------------------------------------
CONSTANTS MAX_PENDING_PRIVATE_UL_MEDIA, PENDING_PRIVATE_UL_MEDIA_TTL, UL_INACTIVITY, WithBrew

Slots == 2..4

------------------------------------------------------------------------------
(* Energy economy is suspended for the terminals of an open circuit.       *)
AddrTargets(s, addr) == IF IsIssi(addr) THEN {addr} ELSE GroupTargets(s, addr)
OnAssignment(s, who, Op(_)) ==
    [s EXCEPT !.energy = [m \in DOMAIN @ |-> IF m \in who THEN Op(@[m]) ELSE @[m]]]

\* suspend_energy_saving_for_circuit: the primary address first, then the others;
\* nobody is counted twice for one circuit.
SuspendForCircuit(s, t, c) ==
    LET addrs == <<c.addr>> \o SetToSeq(c.others \ {c.addr})
        step[n \in 0 .. Len(addrs)] ==
            IF n = 0 THEN [s |-> s, seen |-> {}]
            ELSE LET b == step[n - 1]
                     key == <<t, addrs[n]>>
                     new == AddrTargets(s, addrs[n]) \ b.seen
                 IN  IF key \in DOMAIN b.s.susp THEN [b EXCEPT !.seen = @ \cup b.s.susp[key]]
                     ELSE IF new = {} THEN b
                     ELSE [seen |-> b.seen \cup new,
                           s |-> [OnAssignment(b.s, new, SuspendForAssignedChannel) EXCEPT
                                    !.susp = [k \in DOMAIN @ \cup {key} |-> IF k = key THEN new ELSE @[k]]]]
    IN  step[Len(addrs)].s

ResumeKey(s, key) ==
    IF key \notin DOMAIN s.susp THEN s
    ELSE [OnAssignment(s, s.susp[key], LAMBDA a : ResumeFromAssignedChannel(a, s.now))
            EXCEPT !.susp = Restrict(@, DOMAIN @ \ {key})]
ResumeUnowned(s, t, addrs) ==
    LET gone == SetToSeq({a \in addrs : a \notin ActiveAddrs(s.dl[t]) \cup ActiveAddrs(s.upl[t])})
        r[n \in 0 .. Len(gone)] == IF n = 0 THEN s ELSE ResumeKey(r[n - 1], <<t, gone[n]>>)
    IN  r[Len(gone)]

------------------------------------------------------------------------------
(* Speech put aside.                                                       *)
PeerOf(s, t) == IF s.upl[t] = None THEN None ELSE s.upl[t].peer
SourceOf(s, t) == IF s.upl[t] = None THEN "LocalLoopback" ELSE s.upl[t].src
Target(s, t) == IF PeerOf(s, t) = None THEN t ELSE PeerOf(s, t)
WaitingForFloor(s, t) == PrivateScoped(s, t) /\ PeerOf(s, t) = None /\ s.speaker[t] = None
SpeakerTag(s, t) == IF PrivateScoped(s, t) /\ PeerOf(s, t) = None THEN None ELSE s.speaker[t]
CanDefer(s, t) == /\ s.upl[t] # None /\ SourceOf(s, t) = "LocalLoopback"
                  /\ s.dl[Target(s, t)] # None

Defer(s, t, target, voice) ==
    LET m == [ult |-> t, dlt |-> target, at |-> s.now, who |-> SpeakerTag(s, t), peer |-> PeerOf(s, t),
              hang |-> s.hang[t] \/ s.hang[target], voice |-> voice]
    IN  [s EXCEPT !.held[t] = Append(IF Len(@) >= MAX_PENDING_PRIVATE_UL_MEDIA THEN Tail(@) ELSE @, m)]

HeldKeep(s, Kept(_)) == [s EXCEPT !.held = [t \in 1..4 |-> SelectSeq(@[t], Kept)]]
Touches(m, t) == m.ult = t \/ m.dlt = t
SameSource(m, ult, who) == m.ult = ult /\ m.who \in {None, who}
DiscardHeld(s, t) == HeldKeep(s, LAMBDA m : ~ Touches(m, t))
DiscardHeldExceptSource(s, t, ult, who) ==
    HeldKeep(s, LAMBDA m : Touches(m, t) => SameSource(m, ult, who))
DiscardHeldExceptHangtimeSource(s, t, ult, who) ==
    HeldKeep(s, LAMBDA m : Touches(m, t) => (m.hang /\ SameSource(m, ult, who)))

\* last_ul_voice of the slot and of its peer.
NoteVoice(s, t, at) ==
    LET p == PeerOf(s, t)
    IN  [s EXCEPT !.lastVoice = [x \in 1..4 |->
            IF x = t \/ (x = p /\ s.upl[x] # None) THEN at ELSE @[x]]]

\* flush_pending_private_ul_media_item: dropped, kept, or played.
Stale(s, m) ==
    \/ Age(m.at, s.now) > PENDING_PRIVATE_UL_MEDIA_TTL
    \/ s.upl[m.ult] = None
HeldBack(s, m) == s.hang[m.ult] \/ WaitingForFloor(s, m.ult)
Overtaken(s, m) ==
    \/ m.who # None /\ s.speaker[m.ult] # m.who
    \/ PeerOf(s, m.ult) # m.peer
    \/ m.peer = None /\ SourceOf(s, m.ult) # "LocalLoopback"
    \/ Target(s, m.ult) # m.dlt
Play(s, m) == NoteVoice(PutBlock(s, m.dlt, [from |-> m.ult, who |-> m.who, voice |-> m.voice]), m.ult, m.at)
FlushItem(s, m) ==
    LET keep == [s EXCEPT !.held[m.ult] = Append(@, m)]
    IN  CASE Stale(s, m) -> s
          [] ~ Stale(s, m) /\ HeldBack(s, m) -> keep
          [] ~ Stale(s, m) /\ ~ HeldBack(s, m) /\ Overtaken(s, m) -> s
          [] OTHER -> IF s.hang[m.dlt] THEN keep
                      ELSE IF s.dl[m.dlt] = None THEN s ELSE Play(s, m)
FlushHeld(s) ==
    LET all == s.held[1] \o s.held[2] \o s.held[3] \o s.held[4]
        f[n \in 0 .. Len(all)] == IF n = 0 THEN [s EXCEPT !.held = [t \in 1..4 |-> <<>>]]
                                  ELSE FlushItem(f[n - 1], all[n])
    IN  f[Len(all)]

------------------------------------------------------------------------------
(* Speech from a terminal (TmdCircuitDataInd).                             *)
ToBrew(s, t, voice) ==
    IF WithBrew THEN Send(s, [to |-> "Brew", kind |-> "Voice", ts |-> t, voice |-> voice]) ELSE s

\* Speech that is accepted: to the network, and to the circuit of the peer or back
\* on the same timeslot, at once or when the hangtime is over.
DeliverUlVoice(s, t, voice) ==
    LET target == Target(s, t)
        b == ToBrew(s, t, voice)
        deferring == CanDefer(s, t) /\ (s.hang[t] \/ s.hang[target])
        block == [from |-> t, who |-> SpeakerTag(s, t), voice |-> voice]
        Heard(x) == IF WithBrew THEN NoteVoice(x, t, s.now) ELSE x
    IN  CASE PeerOf(s, t) = None /\ SourceOf(s, t) = "SwMI" ->
               IF WithBrew THEN [b EXCEPT !.lastVoice[t] = s.now] ELSE b
          [] (PeerOf(s, t) # None \/ SourceOf(s, t) # "SwMI") /\ s.hang[target] /\ ~ CanDefer(s, t) -> b
          [] OTHER -> IF s.dl[target] = None THEN Heard(b)
                      ELSE IF deferring THEN Heard(Defer(b, t, target, voice))
                      ELSE NoteVoice(PutBlock(b, target, block), t, s.now)

RxUlVoice(s, t, voice) ==
    CASE s.upl[t] = None \/ (s.hang[t] /\ ~ CanDefer(s, t)) -> s
      [] s.upl[t] # None /\ (s.hang[t] => CanDefer(s, t)) /\ WaitingForFloor(s, t) ->
           Defer(s, t, t, voice)
      [] OTHER -> IF SourceOf(s, t) = "LocalParrot"
                  THEN [Send(s, [to |-> "Cmce", kind |-> "Voice", ts |-> t, voice |-> voice])
                          EXCEPT !.lastVoice[t] = s.now]
                  ELSE DeliverUlVoice(s, t, voice)

\* Speech from the network or the announcement player (TmdCircuitDataReq).
RxDlVoice(s, t, voice) ==
    LET p == IF s.dl[t] = None THEN None ELSE s.dl[t].peer
        noted == [s EXCEPT !.lastVoice = [x \in 1..4 |->
                    IF (x = t \/ x = p) /\ s.upl[x] # None THEN s.now ELSE @[x]]]
        parrot == SourceOf(s, t) = "LocalParrot"
    IN  PutBlock(noted, t, [from |-> IF parrot THEN t ELSE None, who |-> None, voice |-> voice])

\* MAC-U-SIGNAL in a stolen half slot has no address: it is the speaker's, or an
\* acknowledgement of any participant of a private call whose floor is not granted.
RxMacUSignal(s, t, m) ==
    LET who == CASE s.speaker[t] # None -> {s.speaker[t]}
                 [] s.speaker[t] = None /\ WaitingForFloor(s, t) /\ m.ack ->
                      {a \in ActiveAddrs(s.upl[t]) : IsIssi(a)}
                 [] OTHER -> {}
        seq == SetToSeq(who)
        sent[n \in 0 .. Len(seq)] ==
            IF n = 0 THEN s
            ELSE Send(sent[n - 1], [to |-> "Llc", kind |-> "Signal", addr |-> seq[n], msg |-> m])
    IN  sent[Len(seq)]

\* check_ul_inactivity
CheckInactivity(s) ==
    LET dead == {t \in 1..4 : /\ s.upl[t] # None /\ ~ s.hang[t] /\ s.lastVoice[t] # None
                              /\ Age(s.lastVoice[t], s.now) > UL_INACTIVITY}
        seq == SetToSeq(dead)
        told[n \in 0 .. Len(seq)] ==
            IF n = 0 THEN s
            ELSE [Send(told[n - 1], [to |-> "Cmce", kind |-> "Inactive", ts |-> seq[n]])
                    EXCEPT !.lastVoice[seq[n]] = None]
    IN  told[Len(seq)]
------------------------------------------------------------------------------
(* Circuits (rx_control_circuit_open, rx_control_circuit_close).           *)
InitialSpeaker(c) ==
    CASE IsIssi(c.addr) /\ c.others # {} -> None
      [] IsIssi(c.addr) /\ c.others = {} -> c.addr
      [] OTHER -> LET issis == {a \in c.others : IsIssi(a)}
                  IN  IF issis = {} THEN None ELSE CHOOSE a \in issis : TRUE

Dirs(dir) == CASE dir = "Both" -> <<"Dl", "Ul">> [] OTHER -> <<dir>>
CircuitAt(s, dir, t) == IF dir = "Dl" THEN s.dl[t] ELSE s.upl[t]

OpenOne(s, dir, t, c) ==
    LET closed == IF CircuitAt(s, dir, t) = None THEN s ELSE CloseCircuit(s, dir, t)
        preempted == IF t = PdSlot /\ closed.pd # None THEN closed.pd.addr ELSE None
        made == CreateCircuit(closed, dir, t, c)
        told == IF preempted = None THEN made ELSE NotifyLoss(made, preempted)
    IN  IF dir = "Dl" THEN told
        ELSE [told EXCEPT !.lastVoice[t] = s.now, !.speaker[t] = InitialSpeaker(c)]

OpenCircuit(s, dir, t, c) ==
    LET ds == Dirs(dir)
        replaced == UNION {ActiveAddrs(CircuitAt(s, d, t)) : d \in Range(ds)}
        opened[n \in 0 .. Len(ds)] == IF n = 0 THEN DiscardHeld(s, t) ELSE OpenOne(opened[n - 1], ds[n], t, c)
    IN  SuspendForCircuit(ResumeUnowned(opened[Len(ds)], t, replaced), t, c)

CloseOne(s, dir, t) ==
    CASE CircuitAt(s, dir, t) = None -> s
      [] CircuitAt(s, dir, t) # None /\ dir = "Dl" -> DiscardPendingStealing(CloseCircuit(s, dir, t), t)
      [] OTHER -> [CloseCircuit(s, dir, t) EXCEPT !.lastVoice[t] = None, !.speaker[t] = None]
CloseCircuits(s, dir, t) ==
    LET ds == Dirs(dir)
        gone == UNION {ActiveAddrs(CircuitAt(s, d, t)) : d \in Range(ds)}
        closed[n \in 0 .. Len(ds)] == IF n = 0 THEN DiscardHeld(s, t) ELSE CloseOne(closed[n - 1], ds[n], t)
    IN  ResumeUnowned(closed[Len(ds)], t, gone)

------------------------------------------------------------------------------
(* The floor (rx_control).                                                 *)
FloorSlots(s, t) == {t} \cup (IF PeerOf(s, t) \in 1..4 THEN {PeerOf(s, t)} ELSE {})
OnFloorSlots(s, t, Op(_, _)) ==
    LET slots == SetToSeq(FloorSlots(s, t))
        f[n \in 0 .. Len(slots)] == IF n = 0 THEN s ELSE Op(f[n - 1], slots[n])
    IN  f[Len(slots)]

Silence(s, t, hang) == [SetHangtime(ClearDlMedia(DiscardHeld(s, t), t), t, hang)
                          EXCEPT !.lastVoice[t] = None, !.speaker[t] = None]
FloorReleased(s, t) == OnFloorSlots(s, t, LAMBDA x, y : Silence(x, y, TRUE))
CallEnded(s, t) == OnFloorSlots(s, t, LAMBDA x, y : Silence(x, y, FALSE))

FloorGranted(s, t, who, g) ==
    LET private == PrivateScoped(s, t)
        local == who \in ActiveAddrs(s.upl[t])
        swmi == private /\ ~ local /\ SourceOf(s, t) = "SwMI"
        spoken == IF swmi THEN s ELSE [s EXCEPT !.speaker[t] = who]
        CutOver(x, y) ==
            SetHangtime(CASE swmi -> DiscardHeld(x, y)
                          [] private /\ ~ swmi -> ClearDlMediaExceptSource(DiscardHeldExceptSource(x, y, t, who), y, t, who)
                          [] OTHER -> ClearDlMedia(DiscardHeldExceptHangtimeSource(x, y, t, who), y), y, FALSE)
        cut == FlushHeld(OnFloorSlots(spoken, t, CutOver))
        kept == IF private THEN cut ELSE DropQueuedGssiRepeats(cut, g)
    IN  IF private /\ ~ local /\ ~ swmi THEN s
        ELSE [kept EXCEPT !.lastVoice[t] = IF swmi THEN None ELSE s.now]
=============================================================================

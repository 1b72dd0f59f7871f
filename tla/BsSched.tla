------------------------------ MODULE BsSched ------------------------------
(***************************************************************************)
(* The channel scheduler of the upper MAC (BsChannelScheduler, bs_sched.rs *)
(* with the circuit table of circuit_mgr.rs): what each downlink slot      *)
(* carries, and the one packet-data assignment on timeslot 2.              *)
(*                                                                         *)
(* Fields of s used here: now, q, rcpt, energy, members, registered        *)
(* (SlotSched); ul, mark (the uplink schedule and the next usage markers); *)
(* dl, upl (the circuits), tx (queued media), hang; raPend, chanSent; pd   *)
(* (packet_data_assignments[TS2]), alloc (the shared timeslot allocator),  *)
(* losses; panic (an assertion or unreachable! of the code was hit).       *)
(***************************************************************************)
EXTENDS SlotSched

CONSTANTS PACKET_DATA_ASSIGNMENT_TTL, MAX_TX_DATA_BLOCKS

PdSlot == 2

CanCarryScheduledSchf(ts) == Frame(ts) # 18 \/ (~ IsMandatoryBsch(ts) /\ ~ IsMandatoryBnch(ts))

------------------------------------------------------------------------------
(* The packet-data channel.  `al` says whether the caller passes the       *)
(* timeslot allocator.                                                     *)
VoiceOn(s, t) == s.dl[t] # None \/ s.upl[t] # None
Confirmed(s, al) == al => s.alloc[PdSlot] = "PacketData"
SupportsDownlink(a) == a.dir \in {"Dl", "Both"}
SupportsUplink(a) == a.dir \in {"Ul", "Both"}

IsPacketData(sdu) == sdu.kind = "Sndcp"
RequiresPdOwner(pdu, sdu) == pdu.ca = None /\ IsIssi(pdu.addr) /\ sdu.kind \in {"Sndcp", "Al"}

AvailableForAssignment(s, addr, al) ==
    /\ ~ VoiceOn(s, PdSlot)
    /\ al => s.alloc[PdSlot] \in {None, "PacketData"}
    /\ s.pd = None \/ s.pd.addr = addr

ReleasePdAllocator(s) == IF s.alloc[PdSlot] = "PacketData" THEN [s EXCEPT !.alloc[PdSlot] = None] ELSE s

\* adapt_packet_data_channel_allocation_for_voice_priority: whatever slots SNDCP
\* asked for become timeslot 2, or the message cannot be sent (None).
AdaptChannelAllocation(s, pdu, sdu, al) ==
    IF \/ ~ IsIssi(pdu.addr) \/ ~ IsPacketData(sdu) \/ pdu.ca = None
       \/ pdu.ca.type \notin {"Replace", "Additional"} \/ pdu.ca.ts = {}
    THEN pdu
    ELSE IF AvailableForAssignment(s, pdu.addr, al) THEN [pdu EXCEPT !.ca.ts = {PdSlot}] ELSE None

\* What sending a resource does to the assignment: None, an assignment, or the end
\* of one.
AssignmentUpdate(pdu, sdu) ==
    IF ~ IsIssi(pdu.addr) \/ ~ IsPacketData(sdu) \/ pdu.ca = None THEN None
    ELSE IF pdu.ca.type \in {"Replace", "Additional"} /\ pdu.ca.ts # {}
    THEN [addr |-> pdu.addr, dir |-> pdu.ca.dir] ELSE [addr |-> pdu.addr, dir |-> None]

EndAssignment(s, addr) ==
    IF s.pd # None /\ s.pd.addr = addr THEN ReleasePdAllocator([s EXCEPT !.pd = None]) ELSE s
ApplyAssignmentUpdate(s, u, ts) ==
    IF u.dir # None /\ AvailableForAssignment(s, u.addr, TRUE)
    THEN [s EXCEPT !.alloc[PdSlot] = "PacketData",
                   !.pd = [addr |-> u.addr, dir |-> u.dir,
                           until |-> Add(ts, PACKET_DATA_ASSIGNMENT_TTL)]]
    ELSE EndAssignment(s, u.addr)

\* packet_data_assignment_for_timeslot
AssignmentAt(s, ts, al) ==
    IF Slot(ts) = PdSlot /\ Frame(ts) # 18 /\ Confirmed(s, al) /\ ~ VoiceOn(s, PdSlot)
    THEN s.pd ELSE None
PdUplinkOwner(s, ts, blk) ==
    LET a == AssignmentAt(s, ts, FALSE)
    IN  IF blk = "Both" /\ a # None /\ SupportsUplink(a) THEN a.addr ELSE None
ActivePdUplink(s, addr, al) ==
    s.pd # None /\ s.pd.addr = addr /\ SupportsUplink(s.pd) /\ ~ VoiceOn(s, PdSlot) /\ Confirmed(s, al)
ActivePdDownlink(s, addr) ==
    s.pd # None /\ s.pd.addr = addr /\ SupportsDownlink(s.pd) /\ ~ VoiceOn(s, PdSlot)

PendingOriginValid(s, addr, origin) ==
    origin = CommonControl \/ (origin = PdSlot /\ ActivePdUplink(s, addr, TRUE))
AllowedOnSlot(s, t, requires) ==
    t = 1 \/ ~ requires \/ (t = PdSlot /\ s.alloc[PdSlot] = "PacketData")

\* The payload and the grants owed on the channel go with the assignment, and
\* the terminal is told on the main control channel to leave it.
IsPdPayload(e, addr) ==
    \/ e.k = "Res" /\ e.pdu.addr = addr /\ RequiresPdOwner(e.pdu, e.sdu)
    \/ e.k = "Frag" /\ e.f.pdu.addr = addr /\ e.f.pdch
IsPdPending(e, addr) == e.k = "Pending" /\ e.addr = addr /\ e.origin = PdSlot
PurgePacketData(s, addr) == PurgeAll(s, LAMBDA e : IsPdPending(e, addr) \/ IsPdPayload(e, addr))
QueueRelease(s, a) ==
    Push(s, 1, Res([MinimalResource(a.addr, None, FALSE)
                        EXCEPT !.ca = [type |-> "QuitAndGo", ts |-> {}, dir |-> a.dir]],
                   NoSdu, None, None))

ClearPdAssignment(s, al) ==
    IF s.pd = None THEN s
    ELSE LET p == [PurgePacketData(s, s.pd.addr) EXCEPT !.pd = None]
         IN  QueueRelease(IF al THEN ReleasePdAllocator(p) ELSE p, s.pd)

SyncAssignmentsWithAllocator(s) ==
    IF s.pd # None /\ (VoiceOn(s, PdSlot) \/ s.alloc[PdSlot] # "PacketData")
    THEN [ClearPdAssignment(s, TRUE) EXCEPT !.losses = @ \cup {s.pd.addr}] ELSE s
ExpireAssignments(s, ts) ==
    IF s.pd # None /\ Diff(s.pd.until, ts) <= 0 THEN EndAssignment(s, s.pd.addr) ELSE s

------------------------------------------------------------------------------
(* Random-access acknowledgements kept for the next stolen half slot.      *)
StorePendingRaAck(s, t, addr) ==
    IF addr \in Range(s.raPend[t]) THEN s
    ELSE LET p == s.raPend[t]
             room == IF Len(p) < MAX_PENDING_RA_ACKS THEN p
                     ELSE SubSeq(ReplaceAt(p, 1, Last(p)), 1, Len(p) - 1)
         IN  [s EXCEPT !.raPend[t] = Append(room, addr)]

\* take_pending_ra_ack_for_stch, and take_pending_or_ready_ra_ack_for_stch when
\* `ready`: used up only if the stolen message carries a channel allocation.
ReadyAcks(s, t, addr) == {n \in DOMAIN s.q[t] : s.q[t][n] = Ack(addr)}
MirrorsRaAck(s, t, addr, ready) ==
    addr \in Range(s.raPend[t]) \/ (ready /\ ReadyAcks(s, t, addr) # {})
TakeRaAckForStch(s, t, addr, carries, ready) ==
    LET p == s.raPend[t]
        n == CHOOSE n \in DOMAIN p : p[n] = addr
    IN  CASE ~ carries \/ ~ MirrorsRaAck(s, t, addr, ready) -> s
          [] carries /\ addr \in Range(p) ->
               [s EXCEPT !.raPend[t] = SubSeq(ReplaceAt(p, n, Last(p)), 1, Len(p) - 1)]
          [] OTHER -> [s EXCEPT !.q[t] = RemoveAt(@, Min(ReadyAcks(s, t, addr)))]

\* dl_drop_all_except_stolen: a terminal whose grant is dropped with its
\* acknowledgement has to ask again.
DropAllExceptStolen(s, t) ==
    LET owed == {e.addr : e \in {x \in Range(s.q[t]) : x.k = "Pending"}}
        acks == SelectSeq(s.q[t], LAMBDA e : e.k = "Ack" /\ e.addr \notin owed)
        p == Purge(s, t, LAMBDA e : e.k # "Steal")
        kept[n \in 0 .. Len(acks)] ==
            IF n = 0 THEN p ELSE StorePendingRaAck(kept[n - 1], t, acks[n].addr)
    IN  kept[Len(acks)]

------------------------------------------------------------------------------
(* Circuits, hangtime and media (circuit_mgr.rs).  A circuit is            *)
(* [addr, others, peer, src]; a media block is [from, who, voice]: the     *)
(* uplink slot it came from, its speaker, what was said.                   *)
SetHangtime(s, t, on) ==
    LET h == [s EXCEPT !.hang[t] = on] IN IF on THEN h ELSE DropAllExceptStolen(h, t)

CloseCircuit(s, dir, t) ==
    LET h == [s EXCEPT !.hang[t] = FALSE]
    IN  IF dir = "Dl" THEN [h EXCEPT !.dl[t] = None, !.tx[t] = <<>>] ELSE [h EXCEPT !.upl[t] = None]

CreateCircuit(s, dir, t, c) ==
    IF t = 1 THEN s
    ELSE LET d == DropAllExceptStolen(s, t)
             p == IF t = PdSlot THEN ClearPdAssignment(d, FALSE) ELSE d
             u == [p EXCEPT !.ul = ClearFutureUplinkReservations(@, t), !.hang[t] = FALSE]
         IN  IF dir = "Dl" THEN [u EXCEPT !.dl[t] = c, !.tx[t] = <<>>] ELSE [u EXCEPT !.upl[t] = c]

SetDlMediaSource(s, t, src) ==
    LET Set(c) == IF c = None THEN None ELSE [c EXCEPT !.src = src]
    IN  [s EXCEPT !.dl[t] = Set(@), !.upl[t] = Set(@)]

PutBlock(s, t, b) ==
    IF s.dl[t] = None THEN s
    ELSE [s EXCEPT !.tx[t] = Append(IF Len(@) >= MAX_TX_DATA_BLOCKS THEN Tail(@) ELSE @, b)]
ClearDlMedia(s, t) == [s EXCEPT !.tx[t] = <<>>]
ClearDlMediaExceptSource(s, t, ult, who) ==
    [s EXCEPT !.tx[t] = SelectSeq(@, LAMBDA b : b.from = ult /\ b.who \in {None, who})]
DiscardPendingStealing(s, t) == Purge(s, t, LAMBDA e : e.k = "Steal")

HasPendingStealing(s, t) == \E e \in Range(s.q[t]) : e.k = "Steal"
HangtimeEffective(s, t) == s.hang[t] /\ ~ HasPendingStealing(s, t)
GroupFloorGrantPending(s, t) ==
    /\ t # 1 /\ s.upl[t] # None /\ IsGssi(s.upl[t].addr)
    /\ \E e \in Range(s.q[t]) : /\ e.k = "Steal" /\ IsIssi(e.pdu.addr)
                                /\ e.sdu.kind = "TxGranted" /\ Uplink(e.pdu.ca)

------------------------------------------------------------------------------
(* dl_enqueue_tma: where a resource waits.  `owed` is the reserved access  *)
(* its acknowledgement needs, None if none.  A second channel allocation   *)
(* in a frame goes to the next-slot queue.                                 *)
Enqueue(s, i, pdu, sdu, rep, owed) ==
    LET r == Push(s, i, Res(pdu, sdu, rep, None))
    IN  IF owed = None THEN r ELSE Push(r, i, Pending(owed, NewDebt(0), CommonControl))

EnqueueTma(s, pdu, sdu, rep, owed) ==
    LET p == AdaptChannelAllocation(s, pdu, sdu, FALSE)
        t == IF owed = None /\ RequiresPdOwner(p, sdu) /\ ActivePdDownlink(s, p.addr) THEN PdSlot ELSE 1
    IN  IF p = None THEN MarkDiscarded(s, rep)
        ELSE IF t = 1 /\ p.ca # None
        THEN IF s.chanSent THEN Enqueue(s, NextSlot, p, sdu, rep, owed)
             ELSE Enqueue([s EXCEPT !.chanSent = TRUE], t, p, sdu, rep, owed)
        ELSE Enqueue(s, t, p, sdu, rep, owed)

------------------------------------------------------------------------------
(* dl_integrate_sched_elems_for_timeslot: grants are computed in the slot  *)
(* that carries them, and put with the acknowledgements into resources to  *)
(* the same terminals.  i.at maps terminals to the queue positions the     *)
(* code looked up before it began.                                         *)
LastRes(q, addr) == {n \in DOMAIN q : q[n].k = "Res" /\ q[n].pdu.addr = addr}

IntoResource(i, t, addr, grant, marker, ra) ==
    LET q == i.s.q[t]
        WithAnswer(pdu) == [pdu EXCEPT !.grant = IF ra THEN @ ELSE grant, !.ra = @ \/ ra,
                                   !.marker = IF @ = None THEN marker ELSE @]
        n == i.at[addr]
        new == Push(i.s, t, Res(WithAnswer(MinimalResource(addr, None, FALSE)), NoSdu, None, None))
    IN  IF addr \in DOMAIN i.at
        THEN IF n \in DOMAIN q /\ q[n].k = "Res"
             THEN [i EXCEPT !.s.q[t] = ReplaceAt(@, n, [@[n] EXCEPT !.pdu = WithAnswer(@)])]
             ELSE [i EXCEPT !.s.panic = TRUE]
        ELSE [s |-> new,
              at |-> IF LastRes(new.q[t], addr) = {} THEN i.at
                     ELSE [a \in DOMAIN i.at \cup {addr} |->
                              IF a = addr THEN Max(LastRes(new.q[t], addr)) ELSE i.at[a]]]

Granted(i, e, ts, g) ==
    LET s == [i.s EXCEPT !.ul = g.ul, !.panic = @ \/ ~ g.safe,
                         !.mark[Slot(ts)] = IF g.marker = None THEN @ ELSE NextUsageMarker(@),
                         !.given = Append(@, [to |-> e.addr, at |-> ts, grant |-> g.grant,
                                              slots |-> g.slots])]
        rest == RemainingAfterGrant(e.debt, g.n)
        d == IF rest = None THEN s ELSE Push(s, NextSlot, Pending(e.addr, rest, e.origin))
    IN  IntoResource([i EXCEPT !.s = d], Slot(ts), e.addr, g.grant, g.marker, FALSE)

\* No opportunity: the terminal is told to wait, or the debt is written off; on the
\* packet-data channel the assignment goes with it, though not the allocator's slot.
NotGranted(i, e, ts) ==
    LET wait == Push(i.s, NextSlot, Pending(e.addr, AfterWaitGrant(e.debt), e.origin))
        off == QueueRelease([PurgePacketData(i.s, e.addr) EXCEPT !.pd = None], i.s.pd)
    IN  IF ~ WaitBudgetExhausted(e.debt)
        THEN IntoResource([i EXCEPT !.s = wait], Slot(ts), e.addr, WaitGrant(e.debt), None, FALSE)
        ELSE IF e.origin = PdSlot /\ i.s.pd # None /\ i.s.pd.addr = e.addr THEN [i EXCEPT !.s = off]
        ELSE i

IntegrateOne(i, e, ts) ==
    LET s == i.s
        onPd == ActivePdUplink(s, e.addr, TRUE)
        g == IF onPd /\ Slot(ts) # PdSlot THEN None
             ELSE ProcessPendingGrant(s.ul, s.mark[Slot(ts)], ts, Slot(ts), e.addr, e.debt,
                                      IF onPd THEN e.addr ELSE None)
    IN  CASE e.k = "Ack" -> IntoResource(i, Slot(ts), e.addr, None, None, TRUE)
          [] e.k = "Pending" /\ ~ PendingOriginValid(s, e.addr, e.origin) -> i
          [] OTHER -> IF g = None THEN NotGranted(i, e, ts) ELSE Granted(i, e, ts, g)

Integrate(s, ts) ==
    LET t == Slot(ts)
        Taken(e) == e.k \in {"Ack", "Pending"} /\ ReadyForTx(s, e, ts)
        taken == SelectSeq(s.q[t], Taken)
        q == SelectSeq(s.q[t], LAMBDA e : ~ Taken(e))
        addrs == {ElemAddr(e) : e \in {x \in Range(q) : x.k = "Res"}}
        done[n \in 0 .. Len(taken)] ==
            IF n = 0 THEN [s |-> [s EXCEPT !.q[t] = q], at |-> [a \in addrs |-> Max(LastRes(q, a))]]
            ELSE IntegrateOne(done[n - 1], taken[n], ts)
    IN  IF CanCarryScheduledSchf(ts) THEN done[Len(taken)].s ELSE s

-----------------------------------------------------------------------------
(***************************************************************************)
(* What one downlink slot carries (finalize_ts_for_tick and what it calls, *)
(* bs_sched.rs): stolen signalling and media on a traffic slot, resources  *)
(* and fragments on a signalling slot, the broadcast blocks otherwise, and *)
(* the access assignment that goes with it.                                *)
(***************************************************************************)

------------------------------------------------------------------------------
(* Signalling slots.  b is [s, cap, parts]: the scheduler's state, the     *)
(* bits left in the SCH/F block and what has been written to it.           *)
TakeOrder(e) == CASE e.k = "Pending" -> 1
                  [] HasChannelAllocation(e) -> 2
                  [] HasIntegratedGrantOrAck(e) -> 3
                  [] IsSetupCallControl(e) -> 4
                  [] e.k = "Frag" -> 5
                  [] e.k = "Res" -> 6
                  [] OTHER -> 7

\* dl_take_prioritized_sched_item, after the completed group messages are pruned:
\* the queue position taken, None if nothing can be sent in this slot.
TakePrioritized(s, ts) ==
    LET q == s.q[Slot(ts)]
        ready == {n \in DOMAIN q : TakeOrder(q[n]) < 7 /\ ReadyForTx(s, q[n], ts)}
    IN  IF ready = {} \/ ~ CanCarryScheduledSchf(ts) THEN None
        ELSE CHOOSE n \in ready : \A m \in ready :
                \/ TakeOrder(q[n]) < TakeOrder(q[m])
                \/ TakeOrder(q[n]) = TakeOrder(q[m]) /\ n <= m

\* A fragmenter writes what fits; whoever is addressed stays awake; what is not
\* finished, or has not reached every sleeping member, goes to the next-slot queue.
ChunkSent(b, f, w, gs, ts) ==
    LET heard == IF w.bits = 0 THEN b.s
                 ELSE MarkGroupActivity(MarkAddrActivity(b.s, f.pdu.addr, ts), gs, ts)
    IN  IF w.done THEN MarkTransmitted(heard, f.rep) ELSE heard
AfterChunk(b, s, w, gs, addr, ts, update) ==
    LET covered == IF gs = None \/ ~ w.done THEN gs
                   ELSE IF addr = AllOnes /\ gs.rep # None /\ s.rcpt[gs.rep] = "Transmitted"
                   THEN [MarkBatchCovered(gs) EXCEPT !.rep = None] ELSE MarkBatchCovered(gs)
        next == CASE ~ w.done -> Push(s, NextSlot, Frag(w.f, gs))
                  [] w.done /\ gs # None /\ ~ IsComplete(covered) ->
                       Push(s, NextSlot, Res(gs.pdu, gs.sdu, None, covered))
                  [] OTHER -> IF update = None THEN s ELSE ApplyAssignmentUpdate(s, update, ts)
    IN  [s |-> next, cap |-> b.cap - w.bits,
         parts |-> IF w.bits = 0 THEN b.parts
                   ELSE Append(b.parts, [w.part EXCEPT !.heard = IF gs = None THEN {} ELSE gs.batch])]
SendWritten(b, f, w, gs, ts, update) ==
    AfterChunk(b, ChunkSent(b, f, w, gs, ts), w, gs, f.pdu.addr, ts, update)
SendChunk(b, f, gs, ts, update) == SendWritten(b, f, FraggerChunk(f, b.cap), gs, ts, update)

CurrentBatch(s, gs, addr, ts) ==
    IF gs = None THEN None ELSE BeginBatchIfNeeded(s, RetainCurrent(s, gs, addr), ts)

SendResource(b, e, ts) ==
    LET pdu == AdaptChannelAllocation(b.s, e.pdu, e.sdu, TRUE)
        requires == RequiresPdOwner(e.pdu, e.sdu)
        fresh == IF e.gs # None THEN e.gs ELSE GroupStateFor(b.s, pdu, e.sdu, e.rep)
        gs == CurrentBatch(b.s, fresh, pdu.addr, ts)
        rep == IF gs = None THEN e.rep
               ELSE IF pdu.addr # AllOnes /\ ~ IsFinalBatch(gs) THEN None ELSE gs.rep
    IN  IF ~ AllowedOnSlot(b.s, Slot(ts), requires) \/ pdu = None
        THEN [b EXCEPT !.s = MarkDiscarded(@, e.rep)]
        ELSE SendChunk(b, NewFragger(pdu, e.sdu, rep, requires), gs, ts, AssignmentUpdate(pdu, e.sdu))

SendFragment(b, e, ts) ==
    IF ~ AllowedOnSlot(b.s, Slot(ts), e.f.pdch) THEN [b EXCEPT !.s = MarkDiscarded(@, e.f.rep)]
    ELSE SendChunk(b, e.f, CurrentBatch(b.s, e.gs, e.f.pdu.addr, ts), ts, None)

SendElement(b, n, ts) ==
    LET t == Slot(ts)
        e == b.s.q[t][n]
        r == [b EXCEPT !.s.q[t] = RemoveAt(@, n)]
    IN  IF n = None THEN b
        ELSE CASE e.k = "Res" -> SendResource(r, e, ts)
               [] e.k = "Frag" -> SendFragment(r, e, ts)
               [] OTHER -> r
SendFirst(b, ts) == SendElement(b, TakePrioritized(b.s, ts), ts)
SendNext(b, ts) ==
    IF b.s.q[Slot(ts)] = <<>> \/ ~ CanCarryScheduledSchf(ts) THEN b
    ELSE SendFirst([b EXCEPT !.s = PruneGroupStates(@, Slot(ts), ts)], ts)

\* Afterwards what was deferred goes to the front of this slot's queue.
MergeNextSlotQueue(s, t) ==
    IF s.q[NextSlot] = <<>> THEN s
    ELSE EnforceCap([s EXCEPT !.q[t] = s.q[NextSlot] \o @, !.q[NextSlot] = <<>>], t, MAX_DLSCHED_ELEMS)

FillBlock(i, ts) ==
    LET b[n \in 0 .. Len(i.q[Slot(ts)])] ==
            IF n = 0 THEN [s |-> i, cap |-> SCH_F_CAP, parts |-> <<>>] ELSE SendNext(b[n - 1], ts)
    IN  [b[Len(i.q[Slot(ts)])] EXCEPT !.s = MergeNextSlotQueue(@, Slot(ts))]
BuildSignalling(s, ts) == FillBlock(Integrate(s, ts), ts)

------------------------------------------------------------------------------
(* Traffic slots: one stolen message, and one block of media.              *)
SelectStealing(s, ts) ==
    LET q == s.q[Slot(ts)]
        ready == {n \in DOMAIN q : q[n].k = "Steal" /\ ReadyForTx(s, q[n], ts)}
    IN  IF ready = {} THEN None
        ELSE CHOOSE n \in ready : \A m \in ready :
                \/ StealingSchedPriority(q[n]) > StealingSchedPriority(q[m])
                \/ StealingSchedPriority(q[n]) = StealingSchedPriority(q[m]) /\ n <= m

SendStolen(s, e, ts) ==
    LET addr == e.pdu.addr
        targets == EconomyTargets(s, addr)
        new == [targets |-> targets, covered |-> {}, batch |-> {}, rep |-> e.rep,
                t210 |-> addr # AllOnes, pdu |-> e.pdu, sdu |-> e.sdu]
        kept == RetainTargets(IF e.gs = None THEN new ELSE e.gs, targets)
        gs == BeginBatchIfNeeded(s, kept, ts)
        covered == [MarkBatchCovered(gs) EXCEPT !.rep = IF addr = AllOnes THEN None ELSE @]
        heard == MarkStealingActivity(s, addr, gs, ts)
    IN  IF ~ IsGssi(addr) \/ targets = {} \/ kept.targets = {}
        THEN MarkTransmitted(MarkStealingActivity(s, addr, None, ts), e.rep)
        ELSE IF IsComplete(covered) THEN MarkTransmitted(heard, e.rep)
        ELSE LET r == Push(heard, Slot(ts), Steal(e.pdu, e.sdu, covered.rep, covered))
             IN  IF addr = AllOnes THEN MarkTransmitted(r, e.rep) ELSE r

StealFor(p, media, n, ts) ==
    LET e == p.q[Slot(ts)][n]
    IN  [media |-> media, stolen |-> IF n = None THEN None ELSE e,
         s |-> IF n = None THEN p ELSE SendStolen([p EXCEPT !.q[Slot(ts)] = RemoveAt(@, n)], e, ts)]
WithStealing(p, media, ts) == StealFor(p, media, SelectStealing(p, ts), ts)
BuildTraffic(s, ts) ==
    LET t == Slot(ts)
        media == IF s.dl[t] = None \/ s.tx[t] = <<>> THEN None ELSE Head(s.tx[t])
    IN  WithStealing(PruneGroupStates(IF media = None THEN s ELSE [s EXCEPT !.tx[t] = Tail(@)], t, ts),
                     media, ts)

------------------------------------------------------------------------------
(* The access assignment: what the uplink slot of the same number is for,  *)
(* and which of its halves are open to random access.  On timeslots 2 to 4 *)
(* one access field stands for both halves.                                *)
Assigned(usage, one, two) == [ul |-> usage, open |-> (IF one THEN {1} ELSE {}) \cup (IF two THEN {2} ELSE {})]

AccessAssign(s, ts, granting) ==
    LET t == Slot(ts)
        u == UlAt(s.ul, ts)
        usage == UlUsage(s.ul, ts)
        pdata == AssignmentAt(s, ts, TRUE)
    IN  CASE Frame(ts) # 18 /\ t = 1 ->
               IF usage = "Traffic" THEN Assigned(usage, FALSE, FALSE)
               ELSE Assigned("CommonOnly", u.ul1 = None, u.ul2 = None)
          [] Frame(ts) # 18 /\ t # 1 /\ VoiceOn(s, t) ->
               IF s.hang[t] /\ ~ granting THEN Assigned("AssignedOnly", TRUE, TRUE)
               ELSE IF s.upl[t] # None THEN Assigned("Circuit", FALSE, FALSE)
               ELSE Assigned("Unallocated", FALSE, FALSE)
          [] Frame(ts) # 18 /\ t # 1 /\ ~ VoiceOn(s, t) ->
               IF pdata = None THEN Assigned("Unallocated", FALSE, FALSE)
               ELSE Assigned(IF SupportsUplink(pdata) THEN "AssignedOnly" ELSE "CommonAndAssigned",
                             TRUE, TRUE)
          [] OTHER ->
               IF IsMandatoryClch(ts) \/ usage \in {"CommonOnly", "Unallocated"}
               THEN Assigned("CommonOnly", FALSE, FALSE)
               ELSE IF usage = "Traffic" THEN Assigned(usage, FALSE, FALSE)
               ELSE Assigned(usage, u.ul1 = None, u.ul2 = None)

------------------------------------------------------------------------------
(* finalize_ts_for_tick: the slot sent next.  s.air is what goes on air.   *)
DefaultBlock(ts) == IF Slot(ts) = 1 /\ Frame(ts) # 18
                    THEN IF (Frame(ts) % 2) = 0 THEN "SchHd" ELSE "SchF" ELSE "Bsch"

Air(ts, chan, parts, stolen, media, access) ==
    [ts |-> ts, chan |-> chan, parts |-> parts, stolen |-> stolen, media |-> media, access |-> access]

ClearPassedUplink(s, ts) == [s EXCEPT !.ul = UlClear(@, Add(ts, -4))]

TrafficBuilt(b, ts, granting) ==
    LET chan == IF b.stolen = None /\ b.media # None THEN "Tch" ELSE "Stch"
    IN  [b.s EXCEPT !.panic = @ \/ ~ CanCarryScheduledSchf(ts),
                    !.air = Air(ts, chan, <<>>, b.stolen, b.media, AccessAssign(b.s, ts, granting))]
TrafficSlot(s, ts, granting) == TrafficBuilt(BuildTraffic(s, ts), ts, granting)

SignallingBuilt(s, b, ts, granting) ==
    LET t == Slot(ts)
        idle == \/ HangtimeEffective(s, t) /\ s.dl[t] # None /\ Frame(ts) # 18
                \/ AssignmentAt(s, ts, TRUE) # None /\ CanCarryScheduledSchf(ts)
        chan == CASE b.parts # <<>> -> "SchF"
                  [] b.parts = <<>> /\ idle -> "Idle"
                  [] OTHER -> DefaultBlock(ts)
    IN  [b.s EXCEPT !.air = Air(ts, chan, b.parts, None, None, AccessAssign(b.s, ts, granting))]
SignallingSlot(s, ts, granting) == SignallingBuilt(s, BuildSignalling(s, ts), ts, granting)

BuildSlot(s, ts) ==
    LET t == Slot(ts)
        granting == GroupFloorGrantPending(s, t)
        traffic == s.dl[t] # None /\ Frame(ts) # 18 /\ ~ HangtimeEffective(s, t)
    IN  IF traffic THEN TrafficSlot(s, ts, granting) ELSE SignallingSlot(s, ts, granting)

Finalize(s) ==
    LET ts == Add(s.now, 1)
        r == IF Slot(ts) = 1 THEN [s EXCEPT !.chanSent = FALSE] ELSE s
    IN  ClearPassedUplink(BuildSlot(ExpireAssignments(SyncAssignmentsWithAllocator(r), ts), ts), ts)
=============================================================================

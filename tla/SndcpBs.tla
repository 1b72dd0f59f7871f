------------------------------ MODULE SndcpBs ------------------------------
(***************************************************************************)
(* Packet data: SNDCP (sndcp/sndcp_bs.rs, ltpd_pipeline.rs) and the MLE    *)
(* between the terminals and the lower layers.  A terminal's PDU goes      *)
(* through the MLE into the message queue; SNDCP answers it, perhaps with  *)
(* an allocation of timeslot 2 on which it awaits the terminal; the MLE    *)
(* hands the answer to the LLC and passes back what becomes of it; the     *)
(* UMAC owns the slot, loses it to calls and says so.                      *)
(*                                                                         *)
(* The LLC, the UMAC, MM, CMCE and the terminals are as SNDCP sees them:   *)
(* the LLC sends the requests of a link in order, one at a time, and tells *)
(* how each of them ended, unless the terminal replaced the link.  The     *)
(* UMAC's part is that of module UmacBs.                                   *)
(***************************************************************************)
EXTENDS SndcpPdp, MleBs

CONSTANTS
    Workloads,   \* which PDUs, users, slot events and handoff mode a behaviour has
    MaxPdus,     \* PDUs of terminals in a behaviour, at most
    QueueMax     \* messages in the queue at once

\* NSAPIs are those of the element's four bits; a reconnect may come without one.
ASSUME SndcpAssumption ==
    \A w \in Workloads :
        /\ w.issis \subseteq Issis /\ w.links \subseteq Links
        /\ \A d \in w.pdus : /\ d.k \in {"Activate", "Request"} => d.nsapi \in Nsapis
                             /\ d.k = "Reconnect" => d.nsapi \in Nsapis \cup {None}

VARIABLES
    work,     \* the workload
    sn,       \* SndcpBs: contexts, machines, sessions, handles and pending maps
    mle,      \* MleBs
    air,      \* requests at the LLC
    umac,     \* who owns timeslot 2, the assignment and the contexts known and lost
    inbox,    \* the message queue
    left,     \* PDUs and events still to come
    sentTo,   \* terminals sent an allocation since SNDCP heard of a loss
    gone      \* terminals deregistered and silent since

vars == <<work, sn, mle, air, umac, inbox, left, sentTo, gone>>

Emit(msgs) == inbox' = inbox \o msgs
Room == Len(inbox) < QueueMax

------------------------------------------------------------------------------
(* SNDCP on a PDU.                                                         *)
\* prepare_packet_data_retry_after_bearer_break: a terminal that asks again is no
\* longer where it was, unless it is on the channel that is still there.
PrepareRetry(s, i, link) ==
    IF umac.owner = "PacketData" /\ Ready(s, i) THEN s
    ELSE LET b == MarkReadyBearerTemporarilyBroken(s, i)
         IN  IF umac.owner # "PacketData" \/ (s.pdch[i] # None /\ s.pdch[i].st = "RadioResourceLost")
             THEN MarkCommonControlOnLink(b, i, link) ELSE b

\* pending_wap_transaction_key_for_decode
WapKey(i, d) ==
    IF d.k = "Unitdata" /\ d.kind = "Wtp"
    THEN [issi |-> i, nsapi |-> d.nsapi, src |-> d.src, tid |-> d.tid] ELSE None

FinishWapResponse(s, h) ==
    IF h \notin DOMAIN s.wap THEN s
    ELSE [s EXCEPT !.wap = Restrict(@, DOMAIN @ \ {h}),
                   !.keys = Restrict(@, DOMAIN @ \ {s.wap[h]})]
ReplacePendingWap(s, key) == IF key \in DOMAIN s.keys THEN FinishWapResponse(s, s.keys[key]) ELSE s
TrackWapResponse(s, h, key) ==
    [s EXCEPT !.wap = Insert(@, h, key), !.keys = Insert(@, key, h)]
ClearPendings(s, i) ==
    LET own == {h \in DOMAIN s.wap : s.wap[h].issi = i}
        keys == {s.wap[h] : h \in own}
    IN  [s EXCEPT !.handoffs = Restrict(@, {h \in DOMAIN @ : @[h].issi # i}),
                  !.wap = Restrict(@, DOMAIN @ \ own), !.keys = Restrict(@, DOMAIN @ \ keys)]

CapacityAvailableFor(s, i) ==
    umac.owner = "Free" \/ (umac.owner = "PacketData" /\ Ready(s, i))

Reply(i, link, r, ack, chan) ==
    [issi |-> i, link |-> link, r |-> r, ack |-> ack, chan |-> chan]
Response(s, h, rep) == [s |-> s, h |-> h, rep |-> rep]
NoResponse(s) == Response(s, 0, None)

\* An answer is never taken for none.
ASSUME GrantAssumption ==
    \A i \in Issis, link \in Links, n \in Nsapis :
        Reply(i, link, Accepted(n), TRUE, "Replace") # None

TrackHandoff(s, h, i, link) ==
    [s EXCEPT !.handoffs = Insert(@, h, [issi |-> i, link |-> link])]

\* An accepted request for the channel.  With assume_pdch_ready_after_data_transmit the
\* terminal is taken to be on it before anything is sent.
Handoff(s, h, i, d, link) ==
    LET fresh == d.k = "Reconnect" \/ s.pdch[i].st = "RadioResourceLost"
        p == IF fresh THEN MarkCommonControlOnLink(s, i, link) ELSE s
        chan == PdchAllocation(p, i, link, d.res)
        t == TrackHandoff(p, h, i, link)
    IN  IF ~ CapacityAvailableFor(s, i)
        THEN Response(MarkCommonControlOnLink(s, i, link), h,
                      Reply(i, link, Rejected(d.nsapi, "SndcpServiceTemporarilyNotAvailable"),
                            TRUE, None))
        ELSE IF chan = None THEN NoResponse(p)
        ELSE Response(IF work.assume THEN MarkPdchReady(t, i, link) ELSE t, h,
                      Reply(i, link, Accepted(d.nsapi), TRUE, chan))

EndOfDataResponse(t, h, i, link, r) == Response(t.s, h, Reply(i, link, r, TRUE, t.chan))

Answered(a, h, i, d, link, key) ==
    LET r == a.r
        ack == r.k # "Unitdata" \/ link # 0
    IN  CASE r = Silent \/ r = Dropped \/ (r.k = "Unitdata" /\ ~ Ready(a.s, i)) -> NoResponse(a.s)
          [] r.k = "Accepted" /\ d.k \in {"Request", "Reconnect"} -> Handoff(a.s, h, i, d, link)
          [] d.k = "EndOfData" /\ r # Silent /\ r # Dropped ->
               EndOfDataResponse(ReturnToCommonControl(a.s, i), h, i, link, r)
          [] OTHER -> Response(IF ack /\ key # None THEN TrackWapResponse(a.s, h, key) ELSE a.s,
                               h, Reply(i, link, r, ack, None))

\* handle_ltpd_mle_unitdata_ind_allocating_optional and what follows it.
Pipeline(s, i, d, link, key) ==
    IF ~ ValidEndpointLink(s.pdch[i], link) THEN NoResponse(s)
    ELSE Answered(HandleInboundPdu([s EXCEPT !.next = @ + 1], i, d), s.next, i, d, link, key)

\* rx_ltpd_mle_unitdata_ind
RxUnitdata(s, i, d, link) ==
    LET key == WapKey(i, d)
        p == IF d.k = "Request" THEN PrepareRetry(s, i, link) ELSE s
    IN  Pipeline(EnsureSession(ReplacePendingWap(p, key), i, link), i, d, link, key)

------------------------------------------------------------------------------
(* SNDCP on a report, a change of radio resources, a deregistration.       *)
MarkPendingReady(s, h) == MarkPdchReady(s, s.handoffs[h].issi, s.handoffs[h].link)
EndHandoff(s, h) == [s EXCEPT !.handoffs = Restrict(@, DOMAIN @ \ {h})]

\* Mutant: a failed transfer leaves its handoff behind.
RxReportFailedKept(s, h, result) ==
    CASE result = "Success" /\ h \in DOMAIN s.handoffs ->
           EndHandoff(MarkPendingReady(FinishWapResponse(s, h), h), h)
      [] OTHER -> FinishWapResponse(s, h)
RxReport(s, h, result) ==
    CASE result = "FirstComplete" -> (IF h \in DOMAIN s.handoffs THEN MarkPendingReady(s, h) ELSE s)
      [] result = "Success" ->
           (IF h \in DOMAIN s.handoffs
            THEN EndHandoff(MarkPendingReady(FinishWapResponse(s, h), h), h)
            ELSE FinishWapResponse(s, h))
      [] result = "Failed" -> EndHandoff(FinishWapResponse(s, h), h)

\* Mutant: what was pending when the channel was lost may still complete.
RxConfigureKeepsPending(s, i, reason) ==
    IF s.pdch[i] = None THEN s
    ELSE IF reason = "Loss" THEN LossOfRadioResources(s, i) ELSE RecoveryOfRadioResources(s, i)
RxConfigure(s, i, reason) ==
    IF s.pdch[i] = None THEN s
    ELSE IF reason = "Loss" THEN LossOfRadioResources(ClearPendings(s, i), i)
    ELSE RecoveryOfRadioResources(s, i)

RxDeregister(s, i) == ClearPendings(DeregisterSession(DeregisterIssi(s, i), i), i)

------------------------------------------------------------------------------
Init ==
    /\ work \in Workloads
    /\ sn = [ctx |-> [i \in Issis |-> NoContext], sm |-> [i \in Issis |-> Idle],
             pdch |-> [i \in Issis |-> None], next |-> 1, handoffs |-> [h \in {} |-> None],
             wap |-> [h \in {} |-> None], keys |-> [k \in {} |-> None]]
    /\ mle = NewMle /\ air = {} /\ inbox = <<>>
    /\ umac = [owner |-> "Free", pd |-> None, known |-> {}, lost |-> {}]
    /\ left = [pdus |-> work.n, events |-> work.e] /\ sentTo = {} /\ gone = {}

\* A terminal's SDU, which may come with the acknowledgement of one of ours.
RxTlaDataInd(i, d, link) ==
    /\ Room /\ left.pdus > 0
    /\ left' = [left EXCEPT !.pdus = @ - 1]
    /\ Emit(RoutePrefixedTlSdu("Sndcp", i, d, link))
    /\ UNCHANGED <<work, sn, mle, air, umac, sentTo, gone>>

\* The MLE passes a request of a user to the LLC.
Request(h, user, upper, rep) ==
    [h |-> h, user |-> user, upper |-> upper, rep |-> rep, stage |-> "Llc"]
ToLlc(t, user, upper, rep) == mle' = t.m /\ air' = air \cup {Request(t.h, user, upper, rep)}

RespondWith(x) ==
    /\ sn' = x.s
    /\ IF x.rep = None THEN UNCHANGED <<mle, air>>
       ELSE ToLlc(LtpdMleUnitdataReq(mle, x.h), "Sndcp", x.h, x.rep)

SndcpUnitdata ==
    /\ inbox # <<>> /\ Head(inbox).to = "Sndcp" /\ Head(inbox).kind = "Unitdata" /\ Free(mle)
    /\ RespondWith(RxUnitdata(sn, Head(inbox).from, Head(inbox).pdu, Head(inbox).link))
    /\ inbox' = Tail(inbox) /\ gone' = gone \ {Head(inbox).from}
    /\ UNCHANGED <<work, umac, left, sentTo>>

SndcpReport ==
    /\ inbox # <<>> /\ Head(inbox).to = "Sndcp" /\ Head(inbox).kind = "Report"
    /\ sn' = RxReport(sn, Head(inbox).handle, Head(inbox).result)
    /\ inbox' = Tail(inbox)
    /\ UNCHANGED <<work, mle, air, umac, left, sentTo, gone>>

SndcpConfigure ==
    /\ inbox # <<>> /\ Head(inbox).to = "Sndcp" /\ Head(inbox).kind = "Configure"
    /\ sn' = RxConfigure(sn, Head(inbox).from, Head(inbox).reason)
    /\ inbox' = Tail(inbox)
    /\ sentTo' = IF Head(inbox).reason = "Loss" THEN sentTo \ {Head(inbox).from} ELSE sentTo
    /\ UNCHANGED <<work, mle, air, umac, left, gone>>

SndcpControl ==
    /\ inbox # <<>> /\ Head(inbox).to = "Sndcp" /\ Head(inbox).kind = "Deregister"
    /\ sn' = RxDeregister(sn, Head(inbox).from)
    /\ inbox' = Tail(inbox) /\ gone' = gone \cup {Head(inbox).from}
    /\ sentTo' = sentTo \ {Head(inbox).from}
    /\ UNCHANGED <<work, mle, air, umac, left>>

\* MM and CMCE take what is theirs.
OtherUser ==
    /\ inbox # <<>> /\ Head(inbox).to # "Sndcp"
    /\ inbox' = Tail(inbox)
    /\ UNCHANGED <<work, sn, mle, air, umac, left, sentTo, gone>>

------------------------------------------------------------------------------
(* The rest of the base station.                                           *)
Spend == left.events > 0 /\ left' = [left EXCEPT !.events = @ - 1]

\* A request of MM or CMCE, or a broadcast of the MLE itself.
OtherRequest(user, upper, t) ==
    /\ Spend /\ Free(mle) /\ ToLlc(t, user, upper, None)
    /\ UNCHANGED <<work, sn, umac, inbox, sentTo, gone>>
MmRequest == OtherRequest("Mm", 1, LmmMleUnitdataReq(mle, 1))
CmceRequest == OtherRequest("Cmce", 1, LcmcMleUnitdataReq(mle, 1))
MleBroadcast == OtherRequest("Broadcast", 0, SendBroadcast(mle))

MmDeregisters(i) ==
    /\ Spend /\ Room
    /\ Emit(<<[to |-> "Sndcp", kind |-> "Deregister", from |-> i]>>)
    /\ UNCHANGED <<work, sn, mle, air, umac, sentTo, gone>>

\* The requests of a terminal's link before this one.
Before(r) ==
    {q \in air : r.rep # None /\ q.rep # None /\ q.rep.ack /\ q.rep.issi = r.rep.issi
                   /\ q.rep.link = r.rep.link /\ q.upper < r.upper}
Chan(r) == IF r.rep = None THEN None ELSE r.rep.chan

\* The LLC passes a request to the UMAC, which notes the terminal it is about.
LlcHandsDown(r) ==
    /\ r.stage = "Llc" /\ Before(r) = {}
    /\ air' = (air \ {r}) \cup {[r EXCEPT !.stage = "Mac"]}
    /\ umac' = CASE Chan(r) = "Replace" -> [umac EXCEPT !.known = @ \cup {r.rep.issi},
                                                       !.lost = @ \ {r.rep.issi}]
                 [] Chan(r) = "QuitAndGo" -> [umac EXCEPT !.known = @ \ {r.rep.issi}]
                 [] OTHER -> umac
    /\ UNCHANGED <<work, sn, mle, inbox, left, sentTo, gone>>

\* The UMAC sends it, unless the slot it promises is somebody else's.
Available(i) == umac.owner # "Voice" /\ umac.pd \in {None, i}
EndAssignmentOf(i) ==
    IF umac.pd = i
    THEN [umac EXCEPT !.pd = None, !.owner = IF @ = "PacketData" THEN "Free" ELSE @] ELSE umac
LlcReport(r, result) ==
    LET t == RxTlaReportInd(mle, r.h, result) IN mle' = t.m /\ Emit(t.out)
\* A request on an advanced link that the terminal has replaced by another: the LLC no
\* longer knows it.
Forgettable(r) == "Setup" \in work.events /\ r.user = "Sndcp" /\ r.rep.link # 0
UmacSends(r, heard) ==
    /\ r.stage = "Mac" /\ Room
    /\ heard \/ Forgettable(r)
    /\ Chan(r) = "Replace" => Available(r.rep.issi)
    /\ air' = (air \ {r}) \cup (IF heard THEN {[r EXCEPT !.stage = "Sent"]} ELSE {})
    /\ umac' = CASE Chan(r) = "Replace" -> [umac EXCEPT !.owner = "PacketData", !.pd = r.rep.issi]
                 [] Chan(r) = "QuitAndGo" -> EndAssignmentOf(r.rep.issi)
                 [] OTHER -> umac
    /\ sentTo' = IF Chan(r) = "Replace" THEN sentTo \cup {r.rep.issi} ELSE sentTo
    /\ IF heard THEN LlcReport(r, IF r.rep = None \/ r.rep.ack THEN "FirstComplete" ELSE "NoSpecific")
       ELSE UNCHANGED <<mle, inbox>>
    /\ UNCHANGED <<work, sn, left, gone>>

\* The LLC is done with it: acknowledged, or sent when nothing more is asked, or
\* given up at any stage.
LlcEnds(r, result) ==
    /\ result = "Success" => r.stage = "Sent"
    /\ air' = air \ {r}
    /\ LlcReport(r, result)
    /\ UNCHANGED <<work, sn, umac, left, sentTo, gone>>

\* clear_other_original_advanced_links: the requests of the replaced link go without a
\* report.
LinkReplaced(r) ==
    /\ Forgettable(r)
    /\ air' = air \ {r}
    /\ UNCHANGED <<work, sn, mle, umac, inbox, left, sentTo, gone>>

\* A call takes timeslot 2, even from the packet data, and later leaves it.
CallTakesSlot ==
    /\ Spend /\ umac.owner # "Voice"
    /\ umac' = [umac EXCEPT !.owner = "Voice"]
    /\ UNCHANGED <<work, sn, mle, air, inbox, sentTo, gone>>
CallLeavesSlot ==
    /\ umac.owner = "Voice" /\ umac.pd = None
    /\ umac' = [umac EXCEPT !.owner = "Free"]
    /\ UNCHANGED <<work, sn, mle, air, inbox, left, sentTo, gone>>
\* The assignment of a silent terminal runs out.
AssignmentExpires ==
    /\ Spend /\ umac.pd # None /\ umac.owner = "PacketData"
    /\ umac' = EndAssignmentOf(umac.pd)
    /\ UNCHANGED <<work, sn, mle, air, inbox, sentTo, gone>>

ConfigureInd(i, reason) == [to |-> "Sndcp", kind |-> "Configure", from |-> i, reason |-> reason]
\* notify_packet_data_radio_resource_loss
UmacNoticesLoss ==
    /\ umac.pd # None /\ umac.owner # "PacketData" /\ Room
    /\ LET tell == umac.pd \in umac.known \ umac.lost
       IN  /\ umac' = [umac EXCEPT !.pd = None,
                                   !.lost = IF umac.pd \in umac.known THEN @ \cup {umac.pd} ELSE @]
           /\ Emit(IF tell THEN <<ConfigureInd(umac.pd, "Loss")>> ELSE <<>>)
    /\ UNCHANGED <<work, sn, mle, air, left, sentTo, gone>>
\* recover_packet_data_radio_resources_if_ts2_free
UmacRecovers(i) ==
    /\ i \in umac.lost /\ umac.owner = "Free" /\ Room
    /\ umac' = [umac EXCEPT !.lost = @ \ {i}]
    /\ Emit(<<ConfigureInd(i, "Recovery")>>)
    /\ UNCHANGED <<work, sn, mle, air, left, sentTo, gone>>

------------------------------------------------------------------------------
Sndcp == SndcpUnitdata \/ SndcpReport \/ SndcpConfigure \/ SndcpControl
Lower ==
    \E r \in air :
        \/ LlcHandsDown(r) \/ LinkReplaced(r)
        \/ \E heard \in BOOLEAN : UmacSends(r, heard)
        \/ \E x \in {"Success", "Failed"} : LlcEnds(r, x)

Next ==
    \/ Sndcp \/ OtherUser \/ Lower
    \/ \E i \in work.issis : \E d \in work.pdus, link \in work.links : RxTlaDataInd(i, d, link)
    \/ "Users" \in work.events /\ (MmRequest \/ CmceRequest \/ MleBroadcast)
    \/ "Calls" \in work.events /\ (CallTakesSlot \/ CallLeavesSlot \/ UmacNoticesLoss)
    \/ "Expiry" \in work.events /\ AssignmentExpires
    \/ "Deregister" \in work.events /\ \E i \in work.issis : MmDeregisters(i)
    \/ \E i \in work.issis : UmacRecovers(i)

\* The queue is drained in every tick, and the LLC gives up on a request after so
\* many repetitions.
Fairness ==
    /\ []<>(inbox = <<>>)
    /\ \A h \in 1 .. MaxTlaHandle : []<>(\A r \in air : r.h # h)

Spec == Init /\ [][Next]_vars /\ Fairness

------------------------------------------------------------------------------
(* Properties.                                                             *)
\* The state is of the shape the code gives it.
TypeOK ==
    /\ \A i \in Issis : /\ DOMAIN sn.ctx[i] \subseteq Nsapis /\ sn.sm[i] \in Machine
                        /\ sn.pdch[i] \in Session \cup {None}
    /\ umac.owner \in {"Free", "PacketData", "Voice"} /\ umac.pd \in Issis \cup {None}
    /\ umac.known \cup umac.lost \cup sentTo \cup gone \subseteq Issis
    /\ mle.next \in 1 .. MaxTlaHandle

\* No two contexts have the same address and each has one of the pool: what
\* any_ipv4_context guards, whichever way an address came to be given, the silent
\* recovery of a lost context included.
AddressesUnique ==
    \A i, j \in Issis : \A n \in DOMAIN sn.ctx[i], p \in DOMAIN sn.ctx[j] :
        /\ sn.ctx[i][n] \in Pool
        /\ sn.ctx[i][n] = sn.ctx[j][p] => i = j /\ n = p

\* The machine of a terminal counts at least the contexts it has and is Idle when it
\* counts none, so a terminal with a context is never told that it has no active one
\* (states and contexts live in two maps that two services write).
CountCovers ==
    \A i \in Issis : /\ Cardinality(DOMAIN sn.ctx[i]) <= sn.sm[i].n
                     /\ sn.sm[i].n = 0 <=> sn.sm[i].st = "Idle"

\* pending_wap_responses and pending_wap_response_keys are each other's inverse, over
\* replacements, reports in any order, losses and deregistrations.
KeysMatch ==
    /\ \A h \in DOMAIN sn.wap : sn.wap[h] \in DOMAIN sn.keys /\ sn.keys[sn.wap[h]] = h
    /\ \A k \in DOMAIN sn.keys : sn.keys[k] \in DOMAIN sn.wap /\ sn.wap[sn.keys[k]] = k

\* A terminal that deregistered and has said nothing since is forgotten, although
\* reports, losses and recoveries about it may still come (rx_control).
DeregisteredForgotten ==
    \A i \in gone :
        /\ DOMAIN sn.ctx[i] = {} /\ sn.sm[i] = Idle /\ sn.pdch[i] = None
        /\ \A h \in DOMAIN sn.handoffs : sn.handoffs[h].issi # i
        /\ \A h \in DOMAIN sn.wap : sn.wap[h].issi # i

\* A terminal whose channel the UMAC reported lost is not taken to be on it, whatever
\* late report of the allocation comes in (rx_ltpd_mle_configure_ind forgets the
\* handoffs of the terminal first), unless the unsafe compatibility mode assumes it.
LostNotReady ==
    ~ work.assume =>
        \A i \in umac.lost :
            (\A m \in Range(inbox) : m.kind = "Configure" => m.from # i) => ~ Ready(sn, i)

\* SNDCP takes a terminal to be on the packet-data channel only when an allocation
\* went out to it since the last loss or deregistration; in the unsafe compatibility
\* mode it does so before (assume_pdch_ready_after_data_transmit).
ReadyWasTransmitted == ~ work.assume => \A i \in Issis : Ready(sn, i) => i \in sentTo

\* Every request at the LLC is pending at the MLE under a handle of its own and with its
\* user and the user's handle, so that its outcome reaches who asked; the handles are
\* taken again after the last one.  Only of SNDCP's requests, which use advanced links,
\* may one be waited for that the LLC no longer knows.
EveryTransferTracked ==
    /\ \A r \in air : r.h \in DOMAIN mle.pend
                        /\ mle.pend[r.h] = [user |-> r.user, upper |-> r.upper]
    /\ \A r, q \in air : r.h = q.h => r = q
    /\ \A h \in DOMAIN mle.pend : mle.pend[h].user # "Sndcp" => \E r \in air : r.h = h

Requests(m, i) == m.to = "Sndcp" /\ m.kind = "Unitdata" /\ m.from = i /\ m.pdu.k = "Request"
Obtainable(i, n) ==
    \/ n \in DOMAIN sn.ctx[i]
    \/ AllocateDynamicIpv4(sn) # None /\ Cardinality(DOMAIN sn.ctx[i]) < MaxContexts
\* The step serves such a request of terminal i.
Asks(i) ==
    /\ inbox # <<>> /\ inbox' = Tail(inbox) /\ Requests(Head(inbox), i) /\ umac.owner = "Free"
    /\ ResourceRequestSupported(Head(inbox).pdu.res) /\ Obtainable(i, Head(inbox).pdu.nsapi)
\* A terminal that asks for the channel while timeslot 2 is free gets it: whatever
\* state, session and link a broken bearer, a lost report or a lost context left
\* behind (prepare_packet_data_retry_after_bearer_break and
\* recover_missing_wap_ipv4_context_for_ms_transfer are for this).
FreeSlotGranted ==
    [][\A i \in Issis :
         Asks(i) => \E r \in air' \ air :
                      r.rep.issi = i /\ r.rep.r.k = "Accepted" /\ r.rep.chan = "Replace"]_vars

\* The LLC forgot SNDCP's request h, and the MLE waits for its report for ever.
Unreported(h) ==
    \E t \in DOMAIN mle.pend : /\ mle.pend[t] = [user |-> "Sndcp", upper |-> h]
                               /\ \A r \in air : r.h # t

\* Nothing stays pending that the LLC tells the end of: every handoff and every WAP
\* response SNDCP waits for is settled, unless its link was replaced under it.
PendingSettled ==
    \A h \in 1 .. MaxPdus :
        []<>(h \in DOMAIN sn.handoffs \cup DOMAIN sn.wap => Unreported(h))

\* SNDCP, the MLE and the UMAC agree on contexts, addresses, transfers and on who is on
\* the packet-data channel.
PacketDataConsistent ==
    /\ TypeOK
    /\ AddressesUnique
    /\ CountCovers
    /\ KeysMatch
    /\ DeregisteredForgotten
    /\ LostNotReady
    /\ ReadyWasTransmitted
    /\ EveryTransferTracked

\* A request for the channel is granted when the slot is free, and nothing asked for is
\* waited for in vain but what went with a replaced link.
RequestsServed ==
    /\ FreeSlotGranted
    /\ PendingSettled
=============================================================================

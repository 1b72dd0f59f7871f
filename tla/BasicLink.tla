----------------------------- MODULE BasicLink -----------------------------
(***************************************************************************)
(* One basic link of the LLC (llc/llc_bs_ms.rs): acknowledged transfers    *)
(* with a one-bit N(S), one at a time, retransmitted after T.251 up to     *)
(* N.252 times; acknowledgements of received data, folded into outgoing    *)
(* data when they fit; the guard against delivering a retransmission of    *)
(* the terminal twice; unacknowledged transfers, repeated N.253 + 1 times. *)
(* Below it the UMAC's requests (umac_bs.rs), each with the reporter the   *)
(* two layers share; beyond it the terminal, which is external.            *)
(*                                                                         *)
(* A link is an address and an endpoint; the code keeps links apart by     *)
(* that key, so one link is modelled.  A Tick is the tick_end that counts  *)
(* a downlink signalling frame of the link.                                *)
(***************************************************************************)
EXTENDS Integers, Sequences, FiniteSets, Lists

CONSTANTS
    Sdus,       \* acknowledged TL-SDUs the MLE may send
    Units,      \* unacknowledged TL-SDUs
    Prio,       \* pdu_prio of each
    ChanAlloc,  \* the SDUs that carry a channel allocation
    Wide,       \* the SDUs that leave no room for an acknowledgement
    TooLong,    \* the SDUs longer than N.251
    N252, N253, T251,
    Grace,      \* CHANNEL_ALLOCATION_LATE_ACK_GRACE_SIGNALLING_FRAMES
    MaxOut,     \* LLC_MAX_OUTBOUND_ACKED_MESSAGES, LLC_MAX_OUTBOUND_UDATA_MESSAGES
    Highest,    \* TMA_HIGHEST_PDU_PRIORITY
    Workloads,  \* what the MLE and the terminal may send: messages and a number of uplink SDUs
    MaxAcks,    \* bound on the terminal's acknowledgements not yet sent
    MaxDrops,   \* bound on the requests the UMAC fails
    AckDelay,   \* the frames within which they are sent or lost
    None

Messages == Sdus \cup Units
Horizon == (N252 + 1) * T251  \* INBOUND_DUPLICATE_SUPPRESSION_SIGNALLING_FRAMES

ASSUME LinkAssumption ==
    /\ Sdus \cap Units = {} /\ None \notin Messages
    /\ ChanAlloc \cup Wide \cup TooLong \subseteq Messages
    /\ Highest \in Nat /\ Prio \in [Messages -> 0..Highest]
    /\ N252 \in Nat /\ N253 \in Nat /\ T251 \in Nat \ {0} /\ Grace \in Nat
    /\ MaxOut \in Nat /\ MaxAcks \in Nat /\ MaxDrops \in Nat /\ AckDelay \in Nat
    /\ Workloads \subseteq [send : SUBSET Messages, up : Nat]

Bit == {0, 1}
\* A timer: None or the frames it has counted.
Timer(n) == {None} \cup 0..n

\* ExpectedInAck.  nr is the acknowledgement stored in its PDU.
Transfer == [sdu : Sdus, ns : Bit, nr : Bit \cup {None}, submitted : BOOLEAN,
             done : Timer(T251), count : 0..N252, first : BOOLEAN,
             exhausted : Timer(Grace)]
\* QueuedUdata
Repeated == [sdu : Units, complete : 0..(N253 + 1), failed : 0..(N253 + 2),
             submitted : BOOLEAN, defer : BOOLEAN]
\* A request at the UMAC: whether the scheduler still has it, the state of its
\* reporter, whether the LLC still holds that reporter, whether the request is
\* in pending_tma_reports, and whether a frame has passed since.
Request == [sdu : Messages \cup {None}, ns : Bit \cup {None}, nr : Bit \cup {None},
            queued : BOOLEAN, st : {"Pending", "Transmitted", "Discarded"},
            own : BOOLEAN, kept : BOOLEAN, late : BOOLEAN]

VARIABLES
    out,     \* outbound_messages
    vs,      \* link_send_seq
    units,   \* outbound_udata_messages
    ack,     \* scheduled_out_acks: the N(R) and the indication it belongs to
    rx,      \* inbound_receive_seq: the last N(S) and its age
    mac,     \* the UMAC's requests
    receipt, \* the service reporters
    told,    \* the TL-REPORT and TL-DATA confirm of each message
    up,      \* the TL-DATA indications given to the MLE
    peer,    \* the terminal
    drops,   \* the requests the UMAC failed
    work     \* what is still to be sent

llcVars == <<out, vs, units, ack, rx, receipt, told, up>>
vars == <<out, vs, units, ack, rx, mac, receipt, told, up, peer, drops, work>>

Ack == [nr : Bit, ind : Nat]

TypeOK ==
    /\ out \in Seq(Transfer) /\ vs \in Bit /\ units \in Seq(Repeated)
    /\ ack \in Ack \cup {None}
    /\ rx \in [ns : Bit, age : 0..(Horizon + 1)] \cup {None}
    /\ mac \in Seq(Request)
    /\ receipt \in [Messages -> {"Unused", "Pending", "Transmitted", "Discarded",
                                 "Lost", "Acknowledged", "Panic"}]
    /\ told \in [Messages -> Seq({"accepted", "first", "success", "failed"})]
    /\ up \in Seq(Nat) /\ drops \in 0..MaxDrops

\* got: the SDUs it heard; acks: its acknowledgements to send; next, try, age:
\* the SDU it sends, the attempts made and the frames since.  The rest is history:
\* the copies of its SDUs received, the acknowledgements sent to it, and how often
\* each unacknowledged SDU went out.
PeerInit == [got |-> {}, acks |-> <<>>, next |-> 1, try |-> 0, age |-> 0, asked |-> 0,
             answers |-> 0, air |-> [m \in Units |-> 0]]

Init ==
    /\ out = <<>> /\ vs = 0 /\ units = <<>> /\ ack = None /\ rx = None /\ mac = <<>>
    /\ receipt = [m \in Messages |-> "Unused"]
    /\ told = [m \in Messages |-> <<>>]
    /\ up = <<>>
    /\ peer = PeerInit /\ drops = 0
    /\ work \in Workloads

-----------------------------------------------------------------------------
(* The state a handler works on, and its effects.  s has the fields of the
   LLC and of the requests below it; Commit makes it the next state. *)

Now == [out |-> out, vs |-> vs, units |-> units, ack |-> ack, rx |-> rx, mac |-> mac,
        receipt |-> receipt, told |-> told, up |-> up]
Commit(s) ==
    /\ out' = s.out /\ vs' = s.vs /\ units' = s.units /\ ack' = s.ack /\ rx' = s.rx
    /\ mac' = s.mac /\ receipt' = s.receipt /\ told' = s.told /\ up' = s.up

\* The sequence of Op(1), ..., Op(n).
Each(Op(_), n) == SubSeq([i \in 1..n |-> Op(i)], 1, n)

Tell(s, m, what) == [s EXCEPT !.told[m] = Append(@, what)]

\* The marks of the service reporter: try_mark_transmitted, mark_acknowledged
\* (which panics out of turn) and mark_ack_service_failed.
Sent(s, m) == IF s.receipt[m] = "Pending" THEN [s EXCEPT !.receipt[m] = "Transmitted"] ELSE s
Acknowledged(s, m) ==
    [s EXCEPT !.receipt[m] = IF @ = "Transmitted" THEN "Acknowledged" ELSE "Panic"]
Failed(s, m) ==
    Tell([s EXCEPT !.receipt[m] = CASE @ = "Pending" -> "Discarded"
                                    [] @ = "Transmitted" -> "Lost"
                                    [] OTHER -> @], m, "failed")

\* mark_ack_service_first_complete and its report, once per transfer.
FirstComplete(s, i) ==
    IF s.out[i].first THEN s
    ELSE Tell(Sent([s EXCEPT !.out[i].first = TRUE], s.out[i].sdu), s.out[i].sdu, "first")

\* The reporter of the attempt the LLC still follows.
Own(s, m) == {k \in 1..Len(s.mac) : s.mac[k].sdu = m /\ s.mac[k].own}
MacState(s, m) == IF Own(s, m) = {} THEN None ELSE s.mac[CHOOSE k \in Own(s, m) : TRUE].st
MarkMac(s, m, st) ==
    [s EXCEPT !.mac = Each(LAMBDA k : IF k \in Own(s, m) /\ s.mac[k].st = "Pending"
                                      THEN [s.mac[k] EXCEPT !.st = st] ELSE s.mac[k], Len(@))]
\* A request nobody follows any more, and that is not going out, is forgotten.
Settled(q) == SelectSeq(q, LAMBDA r : r.own \/ r.kept \/ r.queued)
Disown(s, m) ==
    [s EXCEPT !.mac = Settled(Each(LAMBDA k : IF s.mac[k].sdu = m
                                              THEN [s.mac[k] EXCEPT !.own = FALSE]
                                              ELSE s.mac[k], Len(@)))]

\* push_standalone_bl_ack: a request without reporter.
AckOnly(n) == [sdu |-> None, ns |-> None, nr |-> n, queued |-> TRUE, st |-> "Pending",
               own |-> FALSE, kept |-> FALSE, late |-> FALSE]
PushAck(s, n) == [s EXCEPT !.mac = Append(@, AckOnly(n))]
\* A request with a fresh reporter (track_tma_request).
Tracked(m, ns, nr) == [sdu |-> m, ns |-> ns, nr |-> nr, queued |-> TRUE, st |-> "Pending",
                       own |-> TRUE, kept |-> TRUE, late |-> FALSE]

Drop(s, i) == [Disown(s, s.out[i].sdu) EXCEPT !.out = RemoveAt(@, i)]
ToFront(s, i) == [s EXCEPT !.out = <<@[i]>> \o RemoveAt(@, i)]
FailAt(s, i) == Failed(Drop(s, i), s.out[i].sdu)

Submitted(s) == {i \in 1..Len(s.out) : s.out[i].submitted}
Waiting(s) == {i \in 1..Len(s.out) : ~s.out[i].submitted}

-----------------------------------------------------------------------------
(* Sending *)

\* fold_waiting_ack_into_mac_ready_bl_data: a waiting acknowledgement goes with
\* the data, or alone when there is no room; one that went out with the data
\* once is not repeated with it.
Fold(s, i) ==
    CASE s.ack = None ->
           IF s.out[i].count > 0 /\ s.out[i].first THEN [s EXCEPT !.out[i].nr = None] ELSE s
      [] s.ack # None /\ s.out[i].sdu \in Wide ->
           PushAck([s EXCEPT !.ack = None, !.out[i].nr = None], s.ack.nr)
      [] OTHER -> [s EXCEPT !.out[i].nr = s.ack.nr, !.ack = None]

\* submit_for_acknowledged_transmission, with a fresh reporter.
Submit(s, i) ==
    LET t == s.out[i]
    IN  [Disown(s, t.sdu) EXCEPT !.out[i].submitted = TRUE, !.out[i].done = None,
                                 !.mac = Append(@, Tracked(t.sdu, t.ns, t.nr))]
FoldAndSubmit(s, i) == Submit(Fold(s, i), i)

\* normalize_unsubmitted_ns_for_key: the waiting transfers share out their
\* numbers in the order in which they will be sent.
Before(s, i, j) == LET p == Prio[s.out[i].sdu]
                       r == Prio[s.out[j].sdu]
                   IN  p > r \/ (p = r /\ i < j)
Normalize(s) ==
    LET W == Waiting(s)
        Rank(i) == Cardinality({j \in W : Before(s, j, i)})
        Nth(n) == CHOOSE i \in W : Cardinality({j \in W : j < i}) = n
    IN  [s EXCEPT !.out = Each(LAMBDA i :
            IF i \in W THEN [s.out[i] EXCEPT !.ns = s.out[Nth(Rank(i))].ns] ELSE s.out[i], Len(@))]

\* The transfer at the UMAC that an emergency one displaces: it has not been
\* sent (cancel_lower_priority_pending_mac_transfers_for_emergency).
HighestWaiting(s) == \E j \in Waiting(s) : Prio[s.out[j].sdu] >= Highest
Displaced(s) == {i \in Submitted(s) : /\ s.out[i].done = None
                                      /\ MacState(s, s.out[i].sdu) = "Pending"
                                      /\ Prio[s.out[i].sdu] < Highest
                                      /\ HighestWaiting(s)}
DisplacedUnits(s) == {i \in 1..Len(s.units) : /\ s.units[i].submitted /\ ~s.units[i].defer
                                              /\ Prio[s.units[i].sdu] < Highest
                                              /\ MacState(s, s.units[i].sdu) \in {None, "Pending"}
                                              /\ HighestWaiting(s)}
\* TMA-CANCEL: rx_tma_cancel_req takes the request off the scheduler and forgets
\* it; it keeps the report of one that is not queued.
Cancel(s, M) ==
    [s EXCEPT !.mac = Settled(Each(LAMBDA k :
        IF s.mac[k].sdu \in M /\ s.mac[k].own
        THEN [s.mac[k] EXCEPT !.st = "Discarded", !.kept = ~s.mac[k].queued, !.queued = FALSE,
                              !.own = FALSE]
        ELSE s.mac[k], Len(@)))]
CancelTransfers(s) ==
    IF Displaced(s) = {} THEN s
    ELSE LET i == CHOOSE i \in Displaced(s) : TRUE
         IN  Cancel([s EXCEPT !.out[i].submitted = FALSE], {s.out[i].sdu})
CancelUnits(s, victims) ==
    Cancel([s EXCEPT !.units = Each(LAMBDA i :
                IF i \in victims THEN [s.units[i] EXCEPT !.submitted = FALSE, !.defer = TRUE]
                ELSE s.units[i], Len(@))],
           {s.units[i].sdu : i \in victims})

\* Fault: the next transfer does not wait for the link to be free.
SubmitFreeBusy(s) ==
    IF Waiting(s) = {} THEN s
    ELSE FoldAndSubmit(Normalize(s), CHOOSE i \in Waiting(s) :
                                       \A j \in Waiting(s) \ {i} : Before(s, i, j))

\* submit_free_messages_to_umac: on a free link the first transfer of the
\* highest priority goes down.
SubmitFree(s) ==
    LET c == CancelUnits(CancelTransfers(s), DisplacedUnits(s))
    IN  IF Submitted(c) # {} \/ c.out = <<>> THEN c
        ELSE FoldAndSubmit(Normalize(c), CHOOSE i \in Waiting(c) :
                                           \A j \in Waiting(c) \ {i} : Before(c, i, j))

\* submit_ack_replies_to_umac
SubmitAck(s) == IF s.ack = None THEN s ELSE PushAck([s EXCEPT !.ack = None], s.ack.nr)

\* submit_udata_msgs_to_umac: all of them go down, by priority.
SubmitUnits(s) ==
    LET Free == {i \in 1..Len(s.units) : ~s.units[i].submitted /\ ~s.units[i].defer}
        First(i, j) == LET p == Prio[s.units[i].sdu]
                           q == Prio[s.units[j].sdu]
                       IN  p > q \/ (p = q /\ i < j)
        down == SetToSortSeq(Free, First)
    IN  [s EXCEPT !.units = Each(LAMBDA i : [s.units[i] EXCEPT !.submitted = @ \/ i \in Free,
                                                               !.defer = FALSE], Len(@)),
                  !.mac = @ \o Each(LAMBDA n : Tracked(s.units[down[n]].sdu, None, None), Len(down))]

-----------------------------------------------------------------------------
(* Timers *)

\* reconcile_umac_done_from_reporter
Reconcile(s, i) ==
    LET st == MacState(s, s.out[i].sdu)
        t == [s EXCEPT !.out[i].done = 0]
    IN  IF s.out[i].done # None \/ st \notin {"Transmitted", "Discarded"} THEN s
        ELSE IF st = "Transmitted" THEN FirstComplete(t, i) ELSE t

\* Fault: a transfer whose retransmissions are spent is forgotten, not failed.
RetrySilent(s, i) ==
    LET t == s.out[i]
    IN  CASE t.done = None \/ t.done < T251 -> s
          [] t.done = T251 /\ t.count < N252 -> FoldAndSubmit([s EXCEPT !.out[i].count = @ + 1], i)
          [] OTHER -> Drop(s, i)

\* submit_retransmissions_to_umac, for the transfer at the UMAC.
Retry(s, i) ==
    LET t == s.out[i]
    IN  CASE t.exhausted # None ->
               IF t.exhausted >= Grace \/ t.sdu \notin ChanAlloc THEN FailAt(s, i) ELSE s
          [] t.exhausted = None /\ (t.done = None \/ t.done < T251) -> s
          [] t.exhausted = None /\ t.done = T251 /\ t.count < N252 ->
               FoldAndSubmit([s EXCEPT !.out[i].count = @ + 1], i)
          [] OTHER -> IF t.sdu \in ChanAlloc THEN [s EXCEPT !.out[i].exhausted = 0]
                                             ELSE FailAt(s, i)

Older(timer, n) == IF timer = None \/ timer >= n THEN timer ELSE timer + 1
Aged(s) == [s EXCEPT !.out = Each(LAMBDA i : [s.out[i] EXCEPT !.done = Older(@, T251),
                                                             !.exhausted = Older(@, Grace)],
                                  Len(@)),
                     !.rx = IF @ = None THEN None ELSE [@ EXCEPT !.age = Older(@, Horizon + 1)]]

Retransmit(s) == IF Submitted(s) = {} THEN s
                 ELSE LET i == CHOOSE i \in Submitted(s) : TRUE IN Retry(Reconcile(s, i), i)

\* The UMAC, with a slot and a tick of its own four times a frame, has sent or
\* dropped a request and reported a complete one before the next frame but one.
Overdue(r) == r.queued \/ (r.kept /\ r.st # "Pending")
Late(s) == [s EXCEPT !.mac = Each(LAMBDA k : [s.mac[k] EXCEPT !.late = Overdue(s.mac[k])], Len(@))]

\* The terminal keeps its T.251 too: its retransmission is due.
PeerDue == peer.try > 0 /\ peer.age = T251

TickReady == /\ \A k \in 1..Len(mac) : ~(Overdue(mac[k]) /\ mac[k].late)
             /\ \A i \in 1..Len(peer.acks) : peer.acks[i].age < AckDelay
             /\ ~PeerDue
Ticked == SubmitUnits(SubmitAck(SubmitFree(Retransmit(Aged(Late(Now))))))

\* tick_end
Tick ==
    /\ TickReady
    /\ Commit(Ticked)
    /\ peer' = [peer EXCEPT !.age = IF @ < T251 THEN @ + 1 ELSE @,
                            !.acks = Each(LAMBDA i : [peer.acks[i] EXCEPT !.age = @ + 1], Len(@))]
    /\ UNCHANGED <<drops, work>>

-----------------------------------------------------------------------------
(* Requests of the MLE *)

Refused(s, m) == Tell([s EXCEPT !.receipt[m] = "Discarded"], m, "failed")

\* rx_tla_tldata_req_bl: N(S) is taken only by a transfer that is admitted.
DataReq(s, m) ==
    IF m \in TooLong \/ Len(s.out) >= MaxOut THEN Refused(s, m)
    ELSE Tell([s EXCEPT !.out = Append(@, [sdu |-> m, ns |-> s.vs, nr |-> None,
                                           submitted |-> FALSE, done |-> None, count |-> 0,
                                           first |-> FALSE, exhausted |-> None]),
                        !.vs = 1 - @, !.receipt[m] = "Pending"], m, "accepted")

Use(m) == m \in work.send /\ work' = [work EXCEPT !.send = @ \ {m}]

TlDataReq(m) == Use(m) /\ Commit(DataReq(Now, m)) /\ UNCHANGED <<peer, drops>>

\* rx_tla_tldata_resp_bl: the answer to indication u rides on its
\* acknowledgement while that waits, and is a transfer of its own afterwards.
TlDataResp(m, u) ==
    /\ Use(m)
    /\ Commit(IF m \notin TooLong /\ ack # None /\ ack.ind = u
              THEN PushAck([Now EXCEPT !.ack = None], ack.nr)
              ELSE DataReq(Now, m))
    /\ UNCHANGED <<peer, drops>>

\* ensure_udata_backlog_capacity: one that waits and is less urgent gives way.
Lower(s, m) == {i \in 1..Len(s.units) : ~s.units[i].submitted /\ Prio[s.units[i].sdu] < Prio[m]}
Victim(s, m) == CHOOSE i \in Lower(s, m) : \A j \in Lower(s, m) \ {i} :
                    \/ Prio[s.units[i].sdu] < Prio[s.units[j].sdu]
                    \/ Prio[s.units[i].sdu] = Prio[s.units[j].sdu] /\ i < j
FailUnit(s, i) == Failed([Disown(MarkMac(s, s.units[i].sdu, "Discarded"), s.units[i].sdu)
                            EXCEPT !.units = RemoveAt(@, i)], s.units[i].sdu)
Enqueue(s, m) == [s EXCEPT !.units = Append(@, [sdu |-> m, complete |-> 0, failed |-> 0,
                                                submitted |-> FALSE, defer |-> FALSE]),
                           !.receipt[m] = "Pending"]

\* rx_tla_tlunitdata_req_bl
TlUnitdataReq(m) ==
    /\ Use(m)
    /\ Commit(CASE m \in TooLong -> Refused(Now, m)
                [] m \notin TooLong /\ Len(units) < MaxOut -> Enqueue(Now, m)
                [] m \notin TooLong /\ Len(units) >= MaxOut /\ Lower(Now, m) # {} ->
                     Enqueue(FailUnit(Now, Victim(Now, m)), m)
                [] OTHER -> Refused(Now, m))
    /\ UNCHANGED <<peer, drops>>

-----------------------------------------------------------------------------
(* Reports of the UMAC: TMA-REPORT names a request by the handle of its message,
   so the report of an earlier attempt reaches the transfer as it is now. *)

DataReport(s, i, sent) ==
    LET m == s.out[i].sdu
        t == [MarkMac(s, m, "Discarded") EXCEPT !.out[i].done = 0, !.out[i].exhausted = None]
    IN  CASE sent ->
               FirstComplete([MarkMac(s, m, "Transmitted") EXCEPT
                                !.out[i].done = IF @ = None THEN 0 ELSE @], i)
          [] ~sent /\ t.out[i].count < N252 ->
               FoldAndSubmit([t EXCEPT !.out[i].count = @ + 1], i)
          [] OTHER -> FailAt(t, i)

MaxFailures == IF N253 = 0 THEN 2 ELSE N253 + 1

\* handle_udata_tma_report_at_index
UnitReport(s, i, sent) ==
    LET m == s.units[i].sdu
        t == [Disown(MarkMac(s, m, IF sent THEN "Transmitted" ELSE "Discarded"), m)
                EXCEPT !.units[i].submitted = FALSE,
                       !.units[i].complete = @ + (IF sent THEN 1 ELSE 0),
                       !.units[i].failed = @ + (IF sent THEN 0 ELSE 1)]
    IN  CASE sent /\ t.units[i].complete > N253 ->
               Tell(Sent([t EXCEPT !.units = RemoveAt(@, i)], m), m, "success")
          [] ~sent /\ t.units[i].failed >= MaxFailures ->
               Failed([t EXCEPT !.units = RemoveAt(@, i)], m)
          [] OTHER -> t

\* rx_tma_report_ind
Report(s, m, sent) ==
    LET D == {i \in Submitted(s) : s.out[i].sdu = m}
        U == {i \in 1..Len(s.units) : s.units[i].sdu = m /\ s.units[i].submitted}
    IN  CASE D # {} -> DataReport(s, CHOOSE i \in D : TRUE, sent)
          [] D = {} /\ U # {} -> UnitReport(s, CHOOSE i \in U : TRUE, sent)
          [] OTHER -> s

\* emit_completed_tma_reports: a request that went out is reported sent, one
\* that was dropped or has been pending too long is taken off the scheduler and
\* reported failed.
TmaReport(k) ==
    /\ mac[k].kept
    /\ drops' = drops + (IF mac[k].st = "Pending" THEN 1 ELSE 0) /\ drops' <= MaxDrops
    /\ LET r == mac[k]
           st == IF r.st = "Pending" THEN "Discarded" ELSE r.st
           q == IF r.st = "Pending" THEN FALSE ELSE r.queued
           s == [Now EXCEPT !.mac = Settled([@ EXCEPT ![k].kept = FALSE, ![k].st = st,
                                                     ![k].queued = q])]
       IN  Commit(Report(s, r.sdu, st = "Transmitted"))
    /\ UNCHANGED <<peer, work>>

\* The scheduler drops what it has no room for (dl_enqueue and its limits).
MacDiscard(k) ==
    /\ mac[k].queued /\ mac[k].kept /\ mac[k].st = "Pending"
    /\ drops < MaxDrops /\ drops' = drops + 1
    /\ mac' = [mac EXCEPT ![k].queued = FALSE, ![k].st = "Discarded"]
    /\ UNCHANGED <<llcVars, peer, work>>

-----------------------------------------------------------------------------
(* The air and the terminal *)

\* The terminal hears request r: it notes the SDU and has it to acknowledge,
\* and an acknowledgement of its own SDU ends that transfer.
Heard(p, r) ==
    LET q == IF r.sdu \in Sdus
             THEN [p EXCEPT !.got = @ \cup {r.sdu},
                            !.acks = IF Len(@) < MaxAcks THEN Append(@, [nr |-> r.ns, age |-> 0]) ELSE @]
             ELSE p
    IN  IF r.nr # None /\ p.try > 0 /\ r.nr = p.next % 2
        THEN [q EXCEPT !.next = @ + 1, !.try = 0] ELSE q
Aired(p, r) == IF r.sdu \in Units THEN [p EXCEPT !.air[r.sdu] = @ + 1]
               ELSE [p EXCEPT !.answers = @ + (IF r.nr = None THEN 0 ELSE 1)]

\* A request goes out on the downlink, the oldest of the most urgent first (a
\* BL-ACK has priority 5); what it carries may be lost.
Urgency(r) == IF r.sdu = None THEN 5 ELSE Prio[r.sdu]
MacTransmit(k) ==
    /\ mac[k].queued
    /\ \A j \in 1..Len(mac) \ {k} : mac[j].queued =>
          \/ Urgency(mac[j]) < Urgency(mac[k])
          \/ Urgency(mac[j]) = Urgency(mac[k]) /\ k < j
    /\ mac' = Settled([mac EXCEPT ![k].queued = FALSE,
                                  ![k].st = IF @ = "Pending" THEN "Transmitted" ELSE @])
    /\ peer' \in {Aired(peer, mac[k]), Heard(Aired(peer, mac[k]), mac[k])}
    /\ UNCHANGED <<llcVars, drops, work>>

\* Fault: an acknowledgement with the wrong N(R) is taken for the right one.
IncomingAckAny(s, n) ==
    IF Submitted(s) = {} THEN s
    ELSE LET i == CHOOSE i \in Submitted(s) : TRUE
             r == FirstComplete(Reconcile(s, i), i)
         IN  Tell(Acknowledged(Drop(r, i), r.out[i].sdu), r.out[i].sdu, "success")

\* process_incoming_ack, and the TL-DATA confirm that follows a match.
IncomingAck(s, n) ==
    IF Submitted(s) = {} THEN s
    ELSE LET i == CHOOSE i \in Submitted(s) : TRUE
             r == Reconcile(s, i)
             t == r.out[i]
             early == t.done = None \/ ~t.first
             f == FirstComplete(IF early THEN MarkMac(r, t.sdu, "Transmitted") ELSE r, i)
         IN  CASE t.ns = n -> Tell(Acknowledged(Drop(f, i), t.sdu), t.sdu, "success")
               [] t.ns # n /\ early -> ToFront(r, i)
               [] t.ns # n /\ ~early /\ t.count < N252 ->
                    ToFront([Disown(r, t.sdu) EXCEPT
                               !.out[i].count = @ + 1, !.out[i].submitted = FALSE,
                               !.out[i].done = None, !.out[i].exhausted = None], i)
               [] OTHER -> FailAt(r, i)

\* BL-ACK from the terminal.
PeerAck ==
    /\ peer.acks # <<>>
    /\ \E s \in {Now, IncomingAck(Now, Head(peer.acks).nr)} : Commit(s)
    /\ peer' = [peer EXCEPT !.acks = Tail(@)]
    /\ UNCHANGED <<drops, work>>

\* prune_expired_inbound_receive_seq
Pruned(r) == IF r # None /\ r.age > Horizon THEN None ELSE r

\* rx_tma_unitdata_ind_bl for BL-DATA, or BL-ADATA with its N(R); ok is the
\* outcome of the frame check.
Inbound(s, u, n, ok) ==
    LET ns == u % 2
        g == Pruned(s.rx)
        dup == g # None /\ g.ns = ns
        d == [s EXCEPT !.rx = IF dup THEN g ELSE [ns |-> ns, age |-> 0],
                       !.ack = [nr |-> ns, ind |-> CASE ~dup -> u
                                                     [] dup /\ s.ack # None -> s.ack.ind
                                                     [] OTHER -> 0],
                       !.up = IF dup THEN @ ELSE Append(@, u)]
        a == IF ok THEN d ELSE [s EXCEPT !.ack = None]
    IN  IF n = None THEN a ELSE IncomingAck(a, n)

\* The terminal sends its SDU, the first time or again after T.251, with an
\* acknowledgement when it has one to send.
PeerData ==
    /\ peer.next <= work.up /\ peer.try <= N252
    /\ peer.try = 0 \/ PeerDue
    /\ \E n \in {None} \cup (IF peer.acks = <<>> THEN {} ELSE {Head(peer.acks).nr}) :
         /\ \E ok \in BOOLEAN, lost \in BOOLEAN :
              /\ Commit(IF lost THEN Now ELSE Inbound(Now, peer.next, n, ok))
              /\ peer' = [peer EXCEPT !.try = @ + 1, !.age = 0,
                                      !.asked = @ + (IF ok /\ ~lost THEN 1 ELSE 0),
                                      !.acks = IF n = None THEN @ ELSE Tail(@)]
    /\ UNCHANGED <<drops, work>>

PeerGivesUp ==
    /\ peer.try = N252 + 1 /\ PeerDue
    /\ peer' = [peer EXCEPT !.next = @ + 1, !.try = 0]
    /\ UNCHANGED <<llcVars, mac, drops, work>>

-----------------------------------------------------------------------------
Next ==
    \/ Tick
    \/ \E m \in Sdus : TlDataReq(m) \/ \E u \in Range(up) : TlDataResp(m, u)
    \/ \E m \in Units : TlUnitdataReq(m)
    \/ \E k \in 1..Len(mac) : TmaReport(k) \/ MacDiscard(k) \/ MacTransmit(k)
    \/ PeerAck \/ PeerData \/ PeerGivesUp

Spec == Init /\ [][Next]_vars

\* Weak fairness, with the guards written out: the router ticks (which changes
\* the state of a link that is in use), the UMAC sends what is queued and reports
\* what is complete, and the terminal keeps its own timer.
InUse == out # <<>> \/ units # <<>> \/ ack # None
Queued == \E k \in 1..Len(mac) : mac[k].queued
Complete == \E k \in 1..Len(mac) : mac[k].kept /\ mac[k].st # "Pending"
Reporting == \E k \in 1..Len(mac) : TmaReport(k)
Sending == \E k \in 1..Len(mac) : MacTransmit(k)
Fairness ==
    /\ []<>~(TickReady /\ InUse) \/ []<><<Tick>>_vars
    /\ []<>~Complete \/ []<><<Reporting>>_vars
    /\ []<>~Queued \/ []<><<Sending>>_vars
    /\ []<>(peer.acks = <<>>) \/ []<><<PeerAck>>_vars
    /\ []<>~PeerDue \/ []<><<PeerData \/ PeerGivesUp>>_vars
FairSpec == Spec /\ Fairness

-----------------------------------------------------------------------------
(* Properties *)

\* A TL-SDU is acknowledged to its sender only if the terminal heard it: the
\* N(R) that process_incoming_ack accepts belongs to the transfer at the UMAC.
AcknowledgedWasHeard == \A m \in Sdus : receipt[m] = "Acknowledged" => m \in peer.got

\* The same as long as the N(S) are used in turn: the SDUs have one priority (none
\* is displaced or renumbered) and the UMAC fails no request (a transfer lives
\* long enough for the late acknowledgements of the one before it to arrive).
InTurn == \A m, n \in Sdus : told[m] # <<>> /\ told[n] # <<>> => Prio[m] = Prio[n]
HeardInTurn == InTurn /\ drops = 0 => AcknowledgedWasHeard

\* Stop and wait: over emergencies, wrong N(R)s, late reports and retries, one
\* transfer of a link at most is at the UMAC (submit_free_messages_to_umac).
OneInFlight == \A i, j \in Submitted(Now) : i = j

\* What the MLE has been told of m when its receipt is in state st.
Story(m, st) ==
    CASE st = "Unused" -> {<<>>}
      [] st = "Pending" -> IF m \in Sdus THEN {<<"accepted">>} ELSE {<<>>}
      [] st = "Transmitted" -> IF m \in Sdus THEN {<<"accepted", "first">>} ELSE {<<"success">>}
      [] st = "Discarded" -> IF m \in Sdus THEN {<<"failed">>, <<"accepted", "failed">>}
                                            ELSE {<<"failed">>}
      [] st = "Lost" -> {<<"accepted", "first", "failed">>}
      [] st = "Acknowledged" -> {<<"accepted", "first", "success">>}
      [] OTHER -> {}

\* The reports of each message and its receipt tell one story, in whatever order the
\* report of the UMAC, the acknowledgement of the terminal and T.251 come: accepted,
\* first complete and one outcome, the last; the reporter is marked in turn, so
\* mark_acknowledged never panics on a receipt that was not transmitted.
ReportsMatch == \A m \in Messages : told[m] \in Story(m, receipt[m])

\* No SDU of the terminal is indicated to the MLE twice, however often it is
\* retransmitted (is_duplicate_bl_data within the duplicate horizon).
UplinkOnce == IsInjective(up)

\* The acknowledgements sent never outnumber the copies received: one that went
\* out with the data is not repeated when the data is retransmitted, displaced
\* or dropped and submitted again (fold_waiting_ack_into_mac_ready_bl_data).
AnswersAsked == peer.answers <= peer.asked

\* An unacknowledged SDU reported sent has been on the air N.253 + 1 times, also
\* when some of its requests were cancelled or failed.
UnitRepeated == \A m \in Units : Contains(told[m], "success") => peer.air[m] > N253

\* The acknowledged transfers implement the receipt: its states in its order, and
\* every receipt of an accepted transfer settles.
Receipts == INSTANCE TxReceipt WITH Receipts <- Sdus, receipt <- [m \in Sdus |-> receipt[m]]
ImplementsReceipt == Receipts!Spec

\* The transfers of one link, whatever is lost, late or displaced: one at the UMAC, and
\* one consistent story for each request.
LinkConsistent == OneInFlight /\ ReportsMatch

\* The link and the terminal: one indication for each uplink SDU, the repetitions and
\* answers the sender counts on, and no acknowledgement of what was not heard.
AirConsistent ==
    /\ TypeOK
    /\ UplinkOnce
    /\ AnswersAsked
    /\ UnitRepeated
    /\ HeardInTurn
=============================================================================

---------------------------- MODULE AdvancedLink ----------------------------
(***************************************************************************)
(* The original advanced link of the LLC (llc/llc_bs_ms.rs) between the    *)
(* base station and one terminal endpoint: set-up and replacement of the   *)
(* link; TL-SDUs cut into segments, sent one TL-SDU at a time, repaired by *)
(* selective acknowledgements (at most N.274 times a segment), by requests *)
(* for an acknowledgement after T.252 and by repeating the whole TL-SDU    *)
(* (at most N.273 times); the receiver-not-ready flow control; reassembly  *)
(* of the segments the terminal sends.                                     *)
(*                                                                         *)
(* The terminal is external.  Its receiving half is taken to be the one    *)
(* the base station implements (Receive), its sending half sends the       *)
(* segments of its TL-SDU in any order and repeats any of them.  A segment *)
(* is named by S(S) + 1.  A Tick is the tick_end that counts a downlink    *)
(* signalling frame of the link.                                           *)
(***************************************************************************)
EXTENDS Naturals, Integers, Sequences, FiniteSets, SequencesExt, FiniteSetsExt

CONSTANTS
    Sdus,       \* TL-SDUs the MLE may send
    Prio,       \* pdu_prio of each
    Size,       \* the segments of each; 0 for one that cannot be sent
    TooLong,    \* the TL-SDUs longer than the N.271 the link was set up with
    Links,      \* link identifiers
    UpSize,     \* the segments of each TL-SDU of the terminal
    Modulus,    \* of N(S): 8 in the code
    N273, N274, T252, T271,
    Grace,      \* AL_LATE_ACK_GRACE_SIGNALLING_FRAMES
    ArEvery,    \* AL_ORIGINAL_SEGMENTS_PER_ACK_REQUEST
    MaxOut,     \* LLC_MAX_OUTBOUND_ACKED_MESSAGES
    Workloads,  \* what the MLE sends, the terminal's SDUs and set-ups, and the losses
                \* on the air (None: any number)
    MaxAcks,    \* bound on the terminal's acknowledgements not yet sent
    AckDelay,   \* the frames within which they are sent or lost
    MaxDrops,   \* bound on the requests the UMAC fails
    MaxTries,   \* bound on the segments the terminal sends of one SDU
    None

ASSUME AdvancedLinkAssumption ==
    /\ Prio \in [Sdus -> Nat] /\ Size \in [Sdus -> Nat] /\ TooLong \subseteq Sdus /\ UpSize \in Nat \ {0}
    /\ {Modulus, T252, T271, ArEvery} \subseteq Nat \ {0}
    /\ {N273, N274, Grace, MaxOut, MaxAcks, AckDelay, MaxDrops, MaxTries} \subseteq Nat
    /\ Workloads \subseteq [send : SUBSET Sdus, up : Nat, setup : Nat, loss : Nat \cup {None}]

Timer(n) == {None} \cup 0..n
Receipts == {"Unused", "Pending", "Transmitted", "Discarded", "Lost", "Acknowledged", "Panic"}

\* ExpectedAlSegment; its reporter is that of the request at the UMAC it owns.
Segment == [sub : BOOLEAN, done : BOOLEAN, acked : BOOLEAN, asked : BOOLEAN,
            probe : BOOLEAN, probes : 0..N274, count : 0..N274]
FreshSegment == [sub |-> FALSE, done |-> FALSE, acked |-> FALSE, asked |-> FALSE,
                 probe |-> FALSE, probes |-> 0, count |-> 0]
\* ExpectedAlAck
IsTransfer(t) ==
    /\ t.sdu \in Sdus /\ t.link \in Links /\ t.ns \in 0..(Modulus - 1)
    /\ t.sub \in BOOLEAN /\ t.done \in Timer(T252) /\ t.count \in 0..N273
    /\ t.first \in BOOLEAN /\ t.exhausted \in Timer(Grace) /\ t.retry \in BOOLEAN
    /\ t.seg \in Seq(Segment)

VARIABLES
    session,  \* advanced_links: the link set up, its N(S), last N(S) delivered, AL-RNR timer
    pending,  \* pending_advanced_link_setups
    asm,      \* advanced_link_rx of the link
    out,      \* outbound_al_messages
    mac,      \* the UMAC's requests
    receipt,  \* the service reporters
    told,     \* the outcomes reported for each TL-SDU
    up,       \* the TL-DATA indications given to the MLE
    peer,     \* the terminal
    drops,    \* the requests the UMAC failed
    work      \* what is still to be sent

alVars == <<session, pending, asm, out, receipt, told, up>>
vars == <<session, pending, asm, out, mac, receipt, told, up, peer, drops, work>>

\* AdvancedLinkSession
Session == [link : Links, ns : 0..(Modulus - 1), last : Timer(Modulus - 1), rnr : Timer(T271)]
\* AdvancedLinkReceiveAssembly: the segments held, each with the SDU it is of.
IsAssembly(a) == a.ns \in 0..(Modulus - 1) /\ a.final \in Timer(8) /\ IsFiniteSet(a.held)

TypeOK ==
    /\ session \in Session \cup {None} /\ pending \subseteq Links
    /\ asm = None \/ IsAssembly(asm)
    /\ \A i \in 1..Len(out) : IsTransfer(out[i])
    /\ receipt \in [Sdus -> Receipts] /\ told \in [Sdus -> Seq({"success", "failed"})]
    /\ up \in Seq(Nat) /\ drops \in 0..MaxDrops

\* The terminal: rx is its receiving half, got the SDUs it delivered, acks what it
\* has to answer, next the SDU it sends as N(S) ns, try the segments sent of it,
\* confirmed those it knows delivered, gaveUp how many it gave up,
\* damaged whether it dropped a TL-SDU for its frame check, stale whether it set up
\* the link again with segments on their way.
PeerInit == [last |-> None, asm |-> None, got |-> {}, acks |-> <<>>, next |-> 1, ns |-> 0,
             try |-> 0, confirmed |-> {}, gaveUp |-> 0, confirm |-> None, damaged |-> FALSE, stale |-> FALSE,
             replaced |-> FALSE]

Init ==
    /\ session = None /\ pending = {} /\ asm = None /\ out = <<>> /\ mac = <<>>
    /\ receipt = [m \in Sdus |-> "Unused"] /\ told = [m \in Sdus |-> <<>>] /\ up = <<>>
    /\ peer = PeerInit /\ drops = 0 /\ work \in Workloads

-----------------------------------------------------------------------------
(* The state a handler works on, and its effects. *)

Now == [session |-> session, pending |-> pending, asm |-> asm, out |-> out, mac |-> mac,
        receipt |-> receipt, told |-> told, up |-> up]
Commit(s) ==
    /\ session' = s.session /\ pending' = s.pending /\ asm' = s.asm /\ out' = s.out
    /\ mac' = s.mac /\ receipt' = s.receipt /\ told' = s.told /\ up' = s.up

\* The sequence of Op(1), ..., Op(n).
Each(Op(_), n) == SubSeq([i \in 1..n |-> Op(i)], 1, n)

\* Requests at the UMAC.  own: the LLC holds its reporter; kept: it is in
\* pending_tma_reports; one that nobody follows and is not going out is forgotten.
Request(m, i, pdu) == [sdu |-> m, i |-> i, pdu |-> pdu, queued |-> TRUE, st |-> "Pending",
                       own |-> m # None, kept |-> m # None, late |-> FALSE]
Settled(q) == SelectSeq(q, LAMBDA r : r.own \/ r.kept \/ r.queued)
EachRequest(s, Op(_)) == [s EXCEPT !.mac = Settled(Each(LAMBDA k : Op(s.mac[k]), Len(@)))]
Owned(s, m, i) == {k \in 1..Len(s.mac) : s.mac[k].own /\ s.mac[k].sdu = m /\ s.mac[k].i = i}
Disown(s, m, I) == EachRequest(s, LAMBDA r : IF r.sdu = m /\ r.i \in I THEN [r EXCEPT !.own = FALSE] ELSE r)
Mark(s, m, I, st) == EachRequest(s, LAMBDA r : IF r.own /\ r.sdu = m /\ r.i \in I /\ r.st = "Pending"
                                               THEN [r EXCEPT !.st = st] ELSE r)
Reporter(s, m, i) == IF Owned(s, m, i) = {} THEN None
                     ELSE s.mac[CHOOSE k \in Owned(s, m, i) : TRUE].st
\* push_al_ack_to_umac, push_al_setup_response_to_umac
Push(s, pdu) == [s EXCEPT !.mac = Append(@, Request(None, 0, pdu))]

Positions(t) == 1..Len(t.seg)
Unacked(t) == {i \in Positions(t) : ~t.seg[i].acked}

\* al_current_mac_state
MacState(s, t) ==
    LET states == {Reporter(s, t.sdu, i) : i \in Unacked(t)}
        first == CHOOSE i \in Unacked(t) : Reporter(s, t.sdu, i) # "Transmitted" /\
                     \A j \in Unacked(t) : j < i => Reporter(s, t.sdu, j) = "Transmitted"
    IN  IF states \subseteq {"Transmitted"} THEN "Transmitted"
        ELSE IF Reporter(s, t.sdu, first) = "Discarded" THEN "Discarded" ELSE None

\* mark_al_service_first_complete, mark_acknowledged (which panics out of turn),
\* mark_al_service_failed, and the report of the outcome.
Sent(s, m) == IF s.receipt[m] = "Pending" THEN [s EXCEPT !.receipt[m] = "Transmitted"] ELSE s
Succeeded(s, m) ==
    [s EXCEPT !.receipt[m] = IF @ = "Transmitted" THEN "Acknowledged" ELSE "Panic",
              !.told[m] = Append(@, "success")]
Failed(s, m) ==
    [s EXCEPT !.receipt[m] = CASE @ = "Pending" -> "Discarded"
                               [] @ = "Transmitted" -> "Lost"
                               [] OTHER -> @,
              !.told[m] = Append(@, "failed")]
FirstComplete(s, i) == Sent([s EXCEPT !.out[i].first = TRUE], s.out[i].sdu)

Drop(s, i) == [Disown(s, s.out[i].sdu, Positions(s.out[i])) EXCEPT !.out = RemoveAt(@, i)]
FailAt(s, i) == Failed(Drop(Mark(s, s.out[i].sdu, Unacked(s.out[i]), "Discarded"), i), s.out[i].sdu)

\* complete_outbound_al_transfer_at_index
CompleteAt(s, i) ==
    LET t == s.out[i]
        f == IF t.first THEN s ELSE FirstComplete(Mark(s, t.sdu, Unacked(t), "Transmitted"), i)
    IN  Succeeded(Drop(f, i), t.sdu)

\* reset_al_transmission_attempt
Reset(s, i) ==
    [Disown(s, s.out[i].sdu, Positions(s.out[i])) EXCEPT
        !.out[i] = [@ EXCEPT !.sub = FALSE, !.done = None, !.exhausted = None, !.retry = FALSE,
                             !.seg = Each(LAMBDA k : FreshSegment, Len(@))]]
Repeat(s, i) == Reset([s EXCEPT !.out[i].count = @ + 1], i)

-----------------------------------------------------------------------------
(* Set-up of the link by the terminal *)

\* clear_other_original_advanced_links: the transfers of the links of the
\* endpoint that are replaced are forgotten without a report.
ClearOthers(s, l) ==
    LET lost == {i \in 1..Len(s.out) : s.out[i].link # l}
        gone == {s.out[i].sdu : i \in lost}
        d == EachRequest(s, LAMBDA r : IF r.sdu \in gone THEN [r EXCEPT !.own = FALSE] ELSE r)
        same == s.session # None /\ s.session.link = l
    IN  [d EXCEPT !.out = SelectSeq(@, LAMBDA t : t.link = l), !.pending = @ \cap {l},
                  !.session = IF same THEN @ ELSE None, !.asm = IF same THEN @ ELSE None]

\* clear_advanced_link_transfer_state
RECURSIVE FailAll(_)
FailAll(s) == IF s.out = <<>> THEN s ELSE FailAll(FailAt(s, 1))
ClearTransfers(s) == FailAll([s EXCEPT !.asm = None])

\* establish_advanced_link
Establish(s, l) ==
    [ClearTransfers(ClearOthers(s, l)) EXCEPT
        !.pending = @ \ {l}, !.session = [link |-> l, ns |-> 0, last |-> None, rnr |-> None]]

\* rx_al_setup: a confirmed set-up takes effect at once; a request that asks for
\* more than the base station grants is answered with a change of service, and
\* the link is not there until that is confirmed.
SetupReceived(s, l, kind) ==
    CASE kind = "success" -> Establish(s, l)
      [] kind = "request" -> Push(Establish(s, l), [setup |-> "success", link |-> l])
      [] kind = "more" -> Push([ClearTransfers(ClearOthers(s, l)) EXCEPT
                                   !.pending = @ \cup {l}, !.session = None],
                               [setup |-> "change", link |-> l])

-----------------------------------------------------------------------------
(* Sending *)

ArPdu(m, i, ns, again) == [sdu |-> m, i |-> i, ns |-> ns, final |-> i = Size[m],
                           ar |-> again \/ i = Size[m] \/ i % ArEvery = 0]

\* submit_for_al_transmission: the segments that are neither acknowledged nor at
\* the UMAC go down; one sent again asks for an acknowledgement.
RECURSIVE SubmitSegments(_, _, _)
SubmitSegments(s, i, I) ==
    IF I = {} THEN s
    ELSE LET k == Min(I)
             g == s.out[i].seg[k]
             m == s.out[i].sdu
             d == [Disown(s, m, {k}) EXCEPT
                     !.mac = Append(@, Request(m, k, ArPdu(m, k, s.out[i].ns, g.asked \/ g.probe))),
                     !.out[i].sub = TRUE,
                     !.out[i].seg[k] = [g EXCEPT !.sub = TRUE, !.done = FALSE, !.probe = FALSE,
                                           !.count = @ + (IF g.asked THEN 1 ELSE 0),
                                           !.probes = @ + (IF g.probe THEN 1 ELSE 0)]]
         IN  SubmitSegments(IF g.asked /\ g.count >= N274 THEN s ELSE d, i, I \ {k})
Submit(s, i) ==
    [SubmitSegments(s, i, {k \in Unacked(s.out[i]) : ~s.out[i].seg[k].sub}) EXCEPT !.out[i].done = None]

\* al_transfer_is_rnr_allowed
Begun(t) == t.first \/ t.retry \/ \E k \in Positions(t) : t.seg[k].asked

\* highest_priority_unsubmitted_al_index
Candidates(s) == {i \in 1..Len(s.out) : /\ ~s.out[i].sub
                                        /\ s.session.rnr # None => Begun(s.out[i])}
Chosen(s) == CHOOSE i \in Candidates(s) : \A j \in Candidates(s) \ {i} :
                 \/ Prio[s.out[j].sdu] < Prio[s.out[i].sdu]
                 \/ Prio[s.out[j].sdu] = Prio[s.out[i].sdu] /\ i < j
\* submit_free_al_messages_to_umac, with clear_expired_al_receiver_not_ready: one
\* TL-SDU of the link at a time.
SubmitFree(s) ==
    LET r == IF s.session # None /\ s.session.rnr = T271 THEN [s EXCEPT !.session.rnr = None] ELSE s
        busy == \E i \in 1..Len(r.out) : r.out[i].sub
    IN  IF busy \/ r.session = None \/ Candidates(r) = {} THEN r ELSE Submit(r, Chosen(r))

-----------------------------------------------------------------------------
(* Timers *)

\* schedule_requested_al_segment_retries: nothing is left to retry when a segment
\* has used up N.274.
Asked(t) == {k \in Unacked(t) : t.seg[k].asked}
Spent(t) == {k \in Asked(t) : t.seg[k].count >= N274}
Unsubmit(s, i, I, probing) ==
    [Disown(s, s.out[i].sdu, I) EXCEPT
        !.out[i] = [@ EXCEPT !.sub = FALSE, !.done = None, !.exhausted = None,
                             !.seg = Each(LAMBDA k : IF k \in I
                                            THEN [s.out[i].seg[k] EXCEPT !.sub = FALSE, !.done = FALSE,
                                                                        !.probe = probing \/ @]
                                            ELSE s.out[i].seg[k], Len(@))]]
RetrySegments(s, i) ==
    LET t == s.out[i]
        before == {k \in Asked(t) : \A j \in Spent(t) : k < j}
    IN  IF Spent(t) = {} THEN [state |-> Unsubmit(s, i, Asked(t), FALSE), again |-> Asked(t) # {}]
        ELSE [state |-> [Disown(s, t.sdu, before) EXCEPT
                           !.out[i].seg = Each(LAMBDA k : IF k \in before
                                                 THEN [t.seg[k] EXCEPT !.sub = FALSE, !.done = FALSE]
                                                 ELSE t.seg[k], Len(@))],
              again |-> FALSE]

\* schedule_al_ack_request_probe: the last segment sent goes out again to ask for
\* an acknowledgement.
Probe(s, i) ==
    LET sent == {k \in Positions(s.out[i]) : s.out[i].seg[k].sub}
        k == Max(sent)
    IN  IF sent = {} \/ s.out[i].seg[k].probes >= N274
        THEN [state |-> s, again |-> FALSE]
        ELSE [state |-> Unsubmit(s, i, {k}, TRUE), again |-> TRUE]

\* The reporters of the segments are looked at before the timer.
Reconcile(s, i) ==
    LET st == MacState(s, s.out[i])
        d == [s EXCEPT !.out[i].done = 0]
    IN  IF s.out[i].done # None \/ st = None THEN s
        ELSE IF st = "Transmitted" /\ ~s.out[i].first THEN FirstComplete(d, i) ELSE d

\* Fault: a transfer whose retransmissions are spent is forgotten, not failed.
RetryForgotten(s, i) ==
    LET t == s.out[i]
    IN  CASE t.done = None \/ t.done < T252 -> s
          [] OTHER -> IF t.count < N273 THEN Repeat(s, i) ELSE Drop(s, i)

\* submit_al_retransmissions_to_umac for one transfer.
Retry(s, i) ==
    LET t == s.out[i]
        r == CASE t.retry -> RetrySegments(s, i)
               [] ~t.retry /\ t.first -> Probe(s, i)
               [] OTHER -> [state |-> s, again |-> FALSE]
    IN  CASE t.exhausted # None -> IF t.exhausted = Grace THEN FailAt(s, i) ELSE s
          [] t.exhausted = None /\ (t.done = None \/ t.done < T252) -> s
          [] OTHER -> CASE r.again -> r.state
                        [] ~r.again /\ t.count < N273 -> Repeat(r.state, i)
                        [] OTHER -> IF t.first THEN [r.state EXCEPT !.out[i].exhausted = 0]
                                              ELSE FailAt(r.state, i)
RECURSIVE RetryFrom(_, _)
RetryFrom(s, i) ==
    IF i = 0 THEN s
    ELSE RetryFrom(Retry(IF s.out[i].exhausted = None THEN Reconcile(s, i) ELSE s, i), i - 1)

Older(timer, n) == IF timer = None \/ timer >= n THEN timer ELSE timer + 1
Aged(s) == [s EXCEPT !.out = Each(LAMBDA i : [s.out[i] EXCEPT !.done = Older(@, T252),
                                                             !.exhausted = Older(@, Grace)], Len(@)),
                     !.session = IF @ = None THEN None ELSE [@ EXCEPT !.rnr = Older(@, T271)]]

\* The UMAC has sent or dropped a request, and reported a complete one, before
\* the next frame but one.
Overdue(r) == r.queued \/ (r.kept /\ r.st # "Pending")
Late(s) == [s EXCEPT !.mac = Each(LAMBDA k : [s.mac[k] EXCEPT !.late = Overdue(s.mac[k])], Len(@))]

TickReady == /\ \A k \in 1..Len(mac) : ~(Overdue(mac[k]) /\ mac[k].late)
             /\ \A i \in 1..Len(peer.acks) : peer.acks[i].age < AckDelay
\* tick_end
Tick ==
    /\ TickReady
    /\ Commit(SubmitFree(RetryFrom(Aged(Late(Now)), Len(out))))
    /\ peer' = [peer EXCEPT !.acks = Each(LAMBDA i : [peer.acks[i] EXCEPT !.age = @ + 1], Len(@))]
    /\ UNCHANGED <<drops, work>>

-----------------------------------------------------------------------------
(* Requests of the MLE *)

Refused(s, m) == [s EXCEPT !.receipt[m] = "Discarded", !.told[m] = Append(@, "failed")]

\* rx_tla_tldata_req_al: one that is longer than N.271 is refused before N(S) is taken,
\* which is taken before the TL-SDU is cut, so one that needs too many segments uses it up.
TlDataReq(m, l) ==
    /\ m \in work.send /\ work' = [work EXCEPT !.send = @ \ {m}]
    /\ Commit(IF Len(out) >= MaxOut \/ session = None \/ session.link # l \/ m \in TooLong
              THEN Refused(Now, m)
              ELSE LET s == [Now EXCEPT !.session.ns = (@ + 1) % Modulus]
                   IN  IF Size[m] = 0 THEN Refused(s, m)
                       ELSE [s EXCEPT !.receipt[m] = "Pending",
                                      !.out = Append(@, [sdu |-> m, link |-> l, ns |-> session.ns,
                                          sub |-> FALSE, done |-> None, count |-> 0, first |-> FALSE,
                                          exhausted |-> None, retry |-> FALSE,
                                          seg |-> Each(LAMBDA k : FreshSegment, Size[m])])])
    /\ UNCHANGED <<peer, drops>>

-----------------------------------------------------------------------------
(* Reports of the UMAC *)

\* handle_al_tma_report_at_index: the handle names the segment, whichever attempt
\* the report is of.
Report(s, m, k, sent) ==
    LET I == {i \in 1..Len(s.out) : s.out[i].sdu = m /\ s.out[i].seg[k].sub}
        i == CHOOSE i \in I : TRUE
        r == [Mark(s, m, {k}, "Transmitted") EXCEPT !.out[i].seg[k].done = TRUE]
    IN  CASE I = {} -> s
          [] I # {} /\ ~sent -> FailAt(s, i)
          [] OTHER -> IF r.out[i].done = None /\ MacState(r, r.out[i]) = "Transmitted"
                      THEN FirstComplete([r EXCEPT !.out[i].done = 0], i) ELSE r

\* emit_completed_tma_reports: every request that went out is reported sent, every
\* one that was dropped failed.
RECURSIVE ReportAll(_, _)
ReportAll(s, done) ==
    IF done = <<>> THEN s
    ELSE ReportAll(Report(s, Head(done).sdu, Head(done).i, Head(done).st = "Transmitted"), Tail(done))
Reportable(r) == r.kept /\ r.st # "Pending"
TmaReport ==
    /\ \E k \in 1..Len(mac) : Reportable(mac[k])
    /\ Commit(ReportAll(EachRequest(Now, LAMBDA r : [r EXCEPT !.kept = @ /\ ~Reportable(r)]),
                        SelectSeq(mac, Reportable)))
    /\ UNCHANGED <<peer, drops, work>>

\* The scheduler drops what it has no room for, and the UMAC takes off it what has
\* been pending too long.
MacDiscard(k) ==
    /\ mac[k].queued /\ mac[k].kept /\ mac[k].st = "Pending"
    /\ drops < MaxDrops /\ drops' = drops + 1
    /\ mac' = [mac EXCEPT ![k].queued = FALSE, ![k].st = "Discarded"]
    /\ UNCHANGED <<alVars, peer, work>>

-----------------------------------------------------------------------------
(* Receiving: what the base station does with a segment of the terminal, and
   what the terminal is taken to do with one of the base station. *)

Complete(n) == [kind |-> "complete", nr |-> n, sr |-> 0, ok |-> {}, len |-> 0]
RepeatEntire(n) == [kind |-> "repeat", nr |-> n, sr |-> 0, ok |-> {}, len |-> 0]

\* selective_al_ack_for_incomplete_receive: the first segment missing and, from
\* there to the last one known, which arrived.
Selective(a) ==
    LET have == {h[1] : h \in a.held}
        top == IF a.final = None THEN Max(have) ELSE a.final
        missing == Min((1..(top + 1)) \ have)
        end == IF missing > top THEN missing ELSE top
    IN  [kind |-> "selective", nr |-> a.ns, sr |-> missing,
         ok |-> have \cap (missing..end), len |-> end - missing + 1]

\* Fault: a segment that arrives again replaces nothing, and the TL-SDU is
\* delivered again.
ReceiveAgain(last, a, p, ok) ==
    LET b == IF a = None \/ a.ns # p.ns THEN [ns |-> p.ns, held |-> {}, final |-> None] ELSE a
        c == [b EXCEPT !.held = IF \E h \in @ : h[1] = p.i THEN @ ELSE @ \cup {<<p.i, p.sdu>>},
                       !.final = IF p.final THEN p.i ELSE @]
        whole == c.final # None /\ 1..c.final \subseteq {h[1] : h \in c.held}
    IN  IF whole THEN [last |-> p.ns, asm |-> None, ack |-> Complete(p.ns), sdu |-> p.sdu]
        ELSE [last |-> last, asm |-> c, ack |-> IF p.ar THEN Selective(c) ELSE None, sdu |-> None]

\* rx_al_data_final.  The frame check holds for segments of one TL-SDU, unless one
\* was damaged (ok).
Receive(last, a, p, ok) ==
    LET b == IF a = None \/ a.ns # p.ns THEN [ns |-> p.ns, held |-> {}, final |-> None] ELSE a
        c == [b EXCEPT !.held = IF \E h \in @ : h[1] = p.i THEN @ ELSE @ \cup {<<p.i, p.sdu>>},
                       !.final = IF p.final THEN p.i ELSE @]
        whole == c.final # None /\ 1..c.final \subseteq {h[1] : h \in c.held}
        good == ok /\ \A h \in c.held : h[1] <= c.final => h[2] = p.sdu
    IN  CASE last = p.ns -> [last |-> last, asm |-> a, ack |-> Complete(p.ns), sdu |-> None]
          [] last # p.ns /\ ~whole ->
               [last |-> last, asm |-> c, ack |-> IF p.ar THEN Selective(c) ELSE None, sdu |-> None]
          [] OTHER -> IF good THEN [last |-> p.ns, asm |-> None, ack |-> Complete(p.ns), sdu |-> p.sdu]
                      ELSE [last |-> last, asm |-> None, ack |-> RepeatEntire(p.ns), sdu |-> None]

\* A segment of the terminal.
DataReceived(s, p, ok) ==
    LET r == Receive(s.session.last, s.asm, p, ok)
        d == [s EXCEPT !.session.last = r.last, !.asm = r.asm,
                       !.up = IF r.sdu = None THEN @ ELSE Append(@, r.sdu)]
    IN  IF s.session = None THEN s ELSE IF r.ack = None THEN d ELSE Push(d, r.ack)

-----------------------------------------------------------------------------
(* Acknowledgements of the terminal *)

\* al_segment_acknowledged_in_block: whether the block says segment k arrived, or
\* None when it says nothing of it; after is where the block before it ended.
SaysOf(b, after, k) ==
    CASE k <= after -> None
      [] k > after /\ k < b.sr -> TRUE
      [] k > after /\ k >= b.sr /\ k < b.sr + b.len -> k \in b.ok
      [] OTHER -> None
\* al_segment_retry_pending_or_inflight
InFlight(s, t, k) ==
    LET g == t.seg[k]
    IN  g.asked \/ g.probe \/ (g.sub /\ (~g.done \/ Reporter(s, t.sdu, k) = "Pending"))

\* The selective branch of rx_al_ack_block, segment by segment; new: a segment is
\* asked for again, spent: one is past N.274.
RECURSIVE Selected(_, _, _, _, _, _)
Selected(s, i, b, after, k, new) ==
    LET t == s.out[i]
        g == t.seg[k]
        says == SaysOf(b, after, k)
        heard == Mark([s EXCEPT !.out[i].seg[k] = [g EXCEPT !.acked = TRUE, !.asked = FALSE,
                                                             !.probe = FALSE]], t.sdu, {k}, "Transmitted")
        again == [s EXCEPT !.out[i].seg[k] = [g EXCEPT !.asked = TRUE, !.probe = FALSE]]
        anew == [Disown(again, t.sdu, {k}) EXCEPT !.out[i].seg[k].sub = FALSE,
                                                  !.out[i].seg[k].done = FALSE]
        over == g.asked /\ g.sub /\ g.done /\ g.count >= N274
    IN  CASE k > Len(t.seg) -> [state |-> s, new |-> new, spent |-> FALSE]
          [] k <= Len(t.seg) /\ says = None ->
               Selected(IF InFlight(s, t, k) THEN s ELSE [s EXCEPT !.out[i].seg[k].asked = FALSE],
                        i, b, after, k + 1, new)
          [] k <= Len(t.seg) /\ says = TRUE -> Selected(heard, i, b, after, k + 1, new)
          [] OTHER ->
               CASE g.acked -> Selected(s, i, b, after, k + 1, new)
                 [] ~g.acked /\ over -> IF t.count < N273
                                        THEN [state |-> s, new |-> new, spent |-> TRUE]
                                        ELSE Selected(s, i, b, after, k + 1, new)
                 [] ~g.acked /\ ~over /\ InFlight(s, t, k) -> Selected(again, i, b, after, k + 1, new)
                 [] OTHER -> IF g.count < N274 THEN Selected(anew, i, b, after, k + 1, TRUE)
                             ELSE [state |-> s, new |-> new, spent |-> TRUE]

SelectiveAck(s, i, b, after) ==
    LET r == Selected(s, i, b, after, 1, FALSE)
        u == IF r.new THEN [r.state EXCEPT !.out[i] = [@ EXCEPT !.sub = FALSE, !.done = None,
                                                                !.exhausted = None]]
             ELSE r.state
        t == u.out[i]
        v == [u EXCEPT !.out[i].retry = Asked(t) # {}]
    IN  CASE r.spent /\ t.count < N273 -> Repeat(v, i)
          [] r.spent /\ t.count >= N273 -> IF t.first THEN [v EXCEPT !.out[i].exhausted = 0]
                                                      ELSE FailAt(v, i)
          [] OTHER -> IF Unacked(t) = {} THEN CompleteAt(v, i) ELSE v

\* Fault: a selective acknowledgement that asks for nothing of the TL-SDU's
\* first segment completes it.
AckBlockEager(s, b, after) ==
    LET I == {i \in 1..Len(s.out) : s.out[i].ns = b.nr}
        i == CHOOSE i \in I : TRUE
    IN  IF Cardinality(I) # 1 THEN s
        ELSE IF b.kind # "repeat" /\ b.sr # 1 THEN CompleteAt(s, i) ELSE s
\* rx_al_ack_block: the block must name exactly one transfer; during the grace for
\* a late acknowledgement only a complete one counts.
AckBlock(s, b, after) ==
    LET I == {i \in 1..Len(s.out) : s.out[i].ns = b.nr}
        i == CHOOSE i \in I : TRUE
        t == s.out[i]
    IN  CASE Cardinality(I) # 1 -> s
          [] Cardinality(I) = 1 /\ b.kind = "complete" -> CompleteAt(s, i)
          [] Cardinality(I) = 1 /\ b.kind # "complete" /\ t.exhausted # None -> s
          [] Cardinality(I) = 1 /\ b.kind = "repeat" /\ t.exhausted = None ->
               IF t.count < N273 THEN Repeat(s, i) ELSE FailAt(s, i)
          [] OTHER -> SelectiveAck(s, i, b, after)

\* rx_al_ack: flow control first, then the blocks; a block of the same N(R)
\* continues the one before it (al_ack_block_covered_end).
RECURSIVE AckBlocks(_, _, _)
AckBlocks(s, blocks, after) ==
    IF blocks = <<>> THEN s
    ELSE LET b == Head(blocks)
             end == IF b.kind = "selective" THEN b.sr + b.len - 1 ELSE 0
         IN  AckBlocks(AckBlock(s, b, after), Tail(blocks), end)
AckReceived(s, blocks, ready) ==
    AckBlocks(IF s.session = None THEN s
              ELSE [s EXCEPT !.session.rnr = IF ready THEN None ELSE 0], blocks, 0)

-----------------------------------------------------------------------------
(* The air and the terminal *)

\* Something is lost or damaged on the air.
Lose == work.loss # 0 /\ work' = [work EXCEPT !.loss = IF @ = None THEN None ELSE @ - 1]

\* The terminal hears a request: a segment, an answer to its set-up, or an
\* acknowledgement of what it sends.
HeardSegment(p, d, ok) ==
    LET r == Receive(p.last, p.asm, d, ok)
    IN  [p EXCEPT !.last = r.last, !.asm = r.asm,
                  !.got = IF r.sdu = None THEN @ ELSE @ \cup {r.sdu},
                  !.damaged = @ \/ (r.ack # None /\ r.ack.kind = "repeat"),
                  !.acks = IF r.ack = None \/ Len(@) >= MaxAcks THEN @
                           ELSE Append(@, [ack |-> r.ack, age |-> 0])]
HeardSetup(p, d) == [p EXCEPT !.confirm = IF d.setup = "change" THEN d.link ELSE None]
HeardAck(p, d) ==
    IF d.kind = "complete" /\ d.nr = p.ns /\ p.try > 0
    THEN [p EXCEPT !.confirmed = @ \cup {p.next}, !.next = @ + 1, !.ns = (@ + 1) % Modulus,
                   !.try = 0]
    ELSE p
Hears(p, r, ok) ==
    CASE r.sdu # None -> HeardSegment(p, r.pdu, ok)
      [] r.sdu = None /\ "setup" \in DOMAIN r.pdu -> HeardSetup(p, r.pdu)
      [] OTHER -> HeardAck(p, r.pdu)

\* A request goes out, the oldest of the most urgent first (answers have priority
\* 5); what it carries may be lost or, undetected by the MAC, damaged.
Urgency(r) == IF r.sdu = None THEN 5 ELSE Prio[r.sdu]
MacTransmit ==
    LET Q == {k \in 1..Len(mac) : mac[k].queued}
        k == CHOOSE k \in Q : \A j \in Q \ {k} : \/ Urgency(mac[j]) < Urgency(mac[k])
                                                 \/ Urgency(mac[j]) = Urgency(mac[k]) /\ k < j
    IN  /\ Q # {}
        /\ mac' = Settled([mac EXCEPT ![k].queued = FALSE,
                                      ![k].st = IF @ = "Pending" THEN "Transmitted" ELSE @])
        /\ \/ peer' = Hears(peer, mac[k], TRUE) /\ work' = work
           \/ peer' \in {peer, Hears(peer, mac[k], FALSE)} /\ Lose
        /\ UNCHANGED <<alVars, drops>>

\* A selective acknowledgement may come as one block or as two that continue
\* each other.
Split(b) ==
    LET rest == {k \in (b.sr + 1)..(b.sr + b.len - 1) : k \notin b.ok}
        two == Min(rest)
    IN  IF b.kind # "selective" \/ rest = {} THEN {<<b>>}
        ELSE {<<b>>, <<[b EXCEPT !.len = two - b.sr, !.ok = @ \ (two..(b.sr + b.len))],
                       [b EXCEPT !.sr = two, !.len = b.sr + b.len - two]>>}

\* AL-ACK or AL-RNR from the terminal, which may be lost.
PeerAck ==
    /\ peer.acks # <<>>
    /\ \/ Commit(Now) /\ Lose
       \/ /\ \E blocks \in Split(Head(peer.acks).ack), ready \in BOOLEAN :
               Commit(AckReceived(Now, blocks, ready))
          /\ work' = work
    /\ peer' = [peer EXCEPT !.acks = Tail(@)]
    /\ UNCHANGED drops

\* The terminal sets up a link, or sets it up again; it starts afresh and numbers
\* its SDUs from 0.  It confirms a change of service.
PeerSetup(l, kind) ==
    /\ IF kind = "success" THEN peer.confirm = l /\ work' = work
       ELSE work.setup > 0 /\ work' = [work EXCEPT !.setup = @ - 1]
    /\ Commit(SetupReceived(Now, l, kind))
    /\ peer' = [PeerInit EXCEPT !.got = peer.got, !.confirmed = peer.confirmed, !.damaged = peer.damaged,
                                !.stale = peer.stale \/ \E k \in 1..Len(mac) : mac[k].sdu # None /\ mac[k].queued,
                                !.next = IF peer.try > 0 THEN peer.next + 1 ELSE peer.next,
                                !.replaced = peer.replaced \/ \E i \in 1..Len(out) : out[i].link # l]
    /\ UNCHANGED drops

\* It sends, or sends again, a segment of its SDU.
PeerData ==
    /\ session # None /\ peer.next <= work.up /\ peer.try < MaxTries
    /\ \E k \in 1..UpSize, ok \in BOOLEAN :
          \E s \in {Now, DataReceived(Now, [sdu |-> peer.next, i |-> k, ns |-> peer.ns,
                                            final |-> k = UpSize, ar |-> k = UpSize], ok)} : Commit(s)
    /\ peer' = [peer EXCEPT !.try = @ + 1]
    /\ UNCHANGED <<drops, work>>
PeerGivesUp ==
    /\ peer.try = MaxTries /\ MaxTries > 0
    /\ \A k \in 1..Len(mac) : mac[k].sdu # None
    /\ peer' = [peer EXCEPT !.next = @ + 1, !.ns = (@ + 1) % Modulus, !.try = 0, !.gaveUp = @ + 1]
    /\ UNCHANGED <<alVars, mac, drops, work>>

-----------------------------------------------------------------------------
Next ==
    \/ Tick
    \/ \E m \in Sdus, l \in Links : TlDataReq(m, l)
    \/ \E k \in 1..Len(mac) : MacDiscard(k)
    \/ TmaReport \/ MacTransmit \/ PeerAck \/ PeerData \/ PeerGivesUp
    \/ \E l \in Links, kind \in {"success", "request", "more"} : PeerSetup(l, kind)

Spec == Init /\ [][Next]_vars

\* Weak fairness with its guards written out: the router ticks, the UMAC sends
\* what is queued and reports what is complete.
Fairness ==
    /\ []<>~(TickReady /\ out # <<>>) \/ []<><<Tick>>_vars
    /\ []<>(\A k \in 1..Len(mac) : ~Reportable(mac[k])) \/ []<><<TmaReport>>_vars
    /\ []<>(\A k \in 1..Len(mac) : ~mac[k].queued) \/ []<><<MacTransmit>>_vars
    /\ []<>(peer.acks = <<>>) \/ []<><<PeerAck>>_vars
FairSpec == Spec /\ Fairness

-----------------------------------------------------------------------------
(* Properties *)

\* SDUs of one priority are sent in the order of their numbers.
InTurn == \A m, n \in Sdus : receipt[m] # "Unused" /\ receipt[n] # "Unused" => Prio[m] = Prio[n]

\* A TL-SDU reported successful was reassembled and delivered by the terminal,
\* over lost segments, selective repairs, probes and repetitions of the whole:
\* TxState::Acknowledged says the remote side has acknowledged receipt.
SuccessMeansDelivered == \A m \in Sdus : receipt[m] = "Acknowledged" => m \in peer.got

\* The same as long as no TL-SDU of another priority comes between the segments of
\* one, the terminal starts none afresh (rx_al_ack_block skips a segment reported
\* missing that was once acknowledged) and the link is not set up again while
\* segments are at the UMAC (establish_advanced_link does not cancel them).
DeliveredIfSuccessful == InTurn /\ ~peer.damaged /\ ~peer.stale => SuccessMeansDelivered

\* As long as no more transfers are outstanding than there are numbers, and none
\* overtakes another, an N(R) names one transfer (find_outbound_al_ack_block_match
\* ignores an acknowledgement that names two).
NumbersApart ==
    InTurn /\ Len(out) <= Modulus /\ (\A m \in Sdus : receipt[m] # "Unused" => Size[m] > 0) =>
        \A i, j \in 1..Len(out) : i # j => out[i].ns # out[j].ns

\* One TL-SDU of the link at a time has segments at the UMAC that are new to it,
\* whatever selective repairs take it out of the submitted state in between.
OneAtATime == InTurn => Cardinality({i \in 1..Len(out) : \E k \in Positions(out[i]) : out[i].seg[k].sub}) <= 1

\* The service reporters are marked in turn: complete_outbound_al_transfer_at_index
\* calls mark_acknowledged, which panics on a receipt that is not transmitted.
NoPanic == \A m \in Sdus : receipt[m] # "Panic"

\* One outcome for each TL-SDU, whatever report or acknowledgement comes late.
OneOutcome == \A m \in Sdus : Len(told[m]) <= 1

\* No TL-SDU of the terminal is delivered twice, and one it knows acknowledged
\* was delivered, as long as it gives up less than a whole cycle of numbers
\* (last_delivered_ns is all the base station remembers).
UplinkOnce == IsInjective(up) /\ (peer.gaveUp < Modulus - 1 => peer.confirmed \subseteq Range(up))

\* Every TL-SDU, accepted or refused, has an outcome in the end, unless the terminal replaced
\* the link by another one (clear_other_original_advanced_links reports nothing).
OutcomeReported == []<>(peer.replaced \/ \A m \in Sdus : receipt[m] # "Unused" => told[m] # <<>>)

\* Each receipt takes its states in their order.
Promise(m) == INSTANCE TxReceipt WITH Receipts <- {m}, receipt <- [n \in {m} |-> receipt[n]]
ReceiptStep == \A m \in Sdus : receipt'[m] = receipt[m] \/ Promise(m)!Next
ImplementsReceipt == [][ReceiptStep]_receipt

\* The two ends of the link agree on numbers: one transfer at the UMAC, told apart from the
\* others by its N(S), one outcome for each, and each uplink TL-SDU delivered once.
LinkConsistent ==
    /\ TypeOK
    /\ NumbersApart
    /\ OneAtATime
    /\ OneOutcome
    /\ NoPanic
    /\ UplinkOnce

\* Every receipt of an accepted TL-SDU goes through its states in order and comes to its end.
ReceiptsServed ==
    /\ ImplementsReceipt
    /\ OutcomeReported
=============================================================================

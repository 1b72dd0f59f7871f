----------------------------- MODULE SdsSystem -----------------------------
(***************************************************************************)
(* Short data with its surroundings: terminals, the network, operators,    *)
(* the weather threads, private calls, MM and the lower layers.            *)
(*                                                                         *)
(* A tick is the tick_start of CMCE followed by that of Brew; it comes     *)
(* when the message queue is drained.  Between ticks the queue is          *)
(* delivered and terminals are heard, in any order.                        *)
(***************************************************************************)
EXTENDS Integers, Sequences, SequencesExt, SdsBs

-----------------------------------------------------------------------------
(***************************************************************************)
(* The periodic broadcasts of the cell                                     *)
(* (cmce/subentities/home_mode_display.rs): the configured home mode       *)
(* display and SDS broadcast, and the live messages that control commands  *)
(* add to a queue and delete again.  An age is a number of ticks, up to    *)
(* MaxAge; the text and its encoding are left out.                         *)
(***************************************************************************)

CONSTANTS
    StartDelay,   \* HOME_MODE_START_DELAY_FRAMES, in ticks
    Interval,     \* interval_multiframes of the configuration, in ticks
    LiveMax,      \* LIVE_SDS_QUEUE_MAX_LEN
    MaxId         \* identifiers of live messages

Never == -1   \* no time stored
MaxAge == IF 2 * StartDelay > Interval THEN 2 * StartDelay ELSE Interval
Older(a) == IF a = Never \/ a = MaxAge THEN a ELSE a + 1
Started(a) == IF a = Never THEN 0 ELSE Older(a)

\* HomeModeDisplaySender, as used for a configured text.
NewSender == [start |-> Never, last |-> Never]
\* tick_with_cfg: valid is that there is a configuration and that it makes sense.
TickSender(h, valid) ==
    LET start == Started(h.start)
        last == Older(h.last)
        due == start >= StartDelay /\ (last = Never \/ last >= Interval)
    IN  IF ~ valid THEN [h |-> NewSender, due |-> FALSE]
        ELSE [h |-> [start |-> start, last |-> IF due THEN 0 ELSE last], due |-> due]

\* The live queue with the sender that serves it: idx is the next place, from 0.
NewLive == [q |-> <<>>, next |-> 1, start |-> Never, last |-> Never, idx |-> 0]

\* Of a message repeated for ever it is only kept whether it was sent.
ServeLive(l, idx) ==
    LET m == l.q[idx + 1]
        sent == IF m.repeat = 0 THEN 1 ELSE m.sent + 1
        exhausted == m.repeat > 0 /\ sent >= m.repeat
    IN  IF exhausted THEN [l EXCEPT !.q = RemoveAt(@, idx + 1), !.idx = idx, !.last = 0]
        ELSE [l EXCEPT !.q[idx + 1].sent = sent, !.idx = (idx + 1) % Len(l.q), !.last = 0]
\* tick_live_sds
TickLive(l) ==
    LET start == Started(l.start)
        last == Older(l.last)
        aged == [l EXCEPT !.start = start, !.last = last]
        due == start >= 2 * StartDelay /\ (last = Never \/ last >= Interval) /\ l.q # <<>>
    IN  IF due THEN [l |-> ServeLive(aged, IF l.idx >= Len(l.q) THEN 0 ELSE l.idx), due |-> TRUE]
        ELSE [l |-> aged, due |-> FALSE]

\* do_control_command: AddLiveSds, DeleteLiveSds, ClearLiveSds.
AddLive(l, repeat) ==
    IF Len(l.q) >= LiveMax THEN l
    ELSE [l EXCEPT !.q = Append(@, [id |-> l.next, repeat |-> repeat, sent |-> 0]),
                   !.next = (@ % MaxId) + 1]
ControlLive(l, c) ==
    CASE c.k = "AddLiveSds" -> AddLive(l, c.repeat)
      [] c.k = "DeleteLiveSds" -> [l EXCEPT !.q = SelectSeq(@, LAMBDA m : m.id # c.id)]
      [] c.k = "ClearLiveSds" -> [l EXCEPT !.q = <<>>]
      [] OTHER -> l

-----------------------------------------------------------------------------
CONSTANTS
    Workloads,   \* what the surroundings of a behaviour do
    MaxCommands  \* control commands waiting for a tick

VARIABLES
    work,   \* the workload
    hmd,    \* home_mode_display_sender, with sds_broadcast_sender alike
    live,   \* live_sds_sender and the live queue
    ctl,    \* control commands
    slot,   \* the parity of the timeslot: a tick always passes time
    left    \* what the surroundings may still do

vars == <<registered, member, busy, s, work, hmd, live, ctl, slot, left>>
surroundings == <<registered, member, busy, work, hmd, live, ctl, slot, left>>

TypeOK ==
    /\ registered \subseteq Issis /\ busy \subseteq Issis /\ member \subseteq Issis \X Groups
    /\ DOMAIN s.ctx \subseteq Keys /\ Range(s.order) \subseteq Keys
    /\ s.ref \in 0 .. (RefModulo - 1) /\ s.pend \subseteq Uuids
    /\ s.receipt \in [Uuids -> {"Unused", "Pending", "Sent", "Acknowledged", "Lost", "Discarded"}]
    /\ s.told \in [Uuids -> {None, "Success", "Failed"}]
    /\ live.idx \in 0 .. LiveMax /\ Len(live.q) <= LiveMax

Init ==
    /\ work \in Workloads
    /\ registered = work.registered /\ member = work.member /\ busy = {}
    /\ \E c \in work.connected : s = [Idle EXCEPT !.connected = c]
    /\ hmd = NewSender /\ live = NewLive
    /\ ctl = <<>> /\ slot = 0
    /\ left = work.left

Quiet == [s EXCEPT !.out = <<>>]
May(k) == left[k] > 0
Spend(k) == left' = [left EXCEPT ![k] = @ - 1]

Terminal(i, pdu) ==
    /\ i \in work.from
    /\ May("pdu") /\ Spend("pdu")
    /\ s' = RxFromTerminal(Quiet, i, pdu)
    /\ UNCHANGED <<registered, member, busy, work, hmd, live, ctl, slot>>

DeliverNext ==
    /\ s.queue # <<>>
    /\ s' = Deliver([Quiet EXCEPT !.queue = Tail(@)], Head(s.queue))
    /\ UNCHANGED surroundings

Command(c) ==
    /\ May("ctl") /\ Spend("ctl") /\ Len(ctl) < MaxCommands
    /\ ctl' = Append(ctl, c)
    /\ s' = Quiet
    /\ UNCHANGED <<registered, member, busy, work, hmd, live, slot>>

\* queue_wx_reply: a command like the operators', unless there is no room for it.
WxReply(i) ==
    /\ s.wx[i] > 0
    /\ s' = [Quiet EXCEPT !.wx[i] = @ - 1]
    /\ ctl' = IF Len(ctl) < MaxCommands
              THEN Append(ctl, [k |-> "SendSds", src |-> WxIssi, dst |-> i, group |-> FALSE,
                                aligned |-> TRUE, long |-> FALSE])
              ELSE ctl
    /\ UNCHANGED <<registered, member, busy, work, hmd, live, slot, left>>

\* tick_start of SDS: what is due for everybody.
Broadcasts(t, n) ==
    LET m == DSdsData(Broadcast, Broadcast, "Gssi", Transfer(TextPid, 0, {}), None)
    IN  [t EXCEPT !.out = @ \o [k \in 1 .. n |-> m]]
CmceTick(t, n) == FinishTick(FoldLeft(ControlSds, Broadcasts(t, n), ctl), busy)
BrewTick(t, m) == DrainReports(IF m = None THEN t ELSE BrewTransfer(t, m))
Due(b) == IF b THEN 1 ELSE 0

NewTransfer(m) == s.receipt[m.uuid] = "Unused" /\ s.told[m.uuid] = None
Tick(m) ==
    /\ s.queue = <<>>
    /\ m # None => NewTransfer(m)
    /\ hmd' = TickSender(hmd, work.hmd).h
    /\ live' = FoldLeft(ControlLive, TickLive(live).l, ctl)
    /\ s' = BrewTick(CmceTick(Quiet, Due(TickSender(hmd, work.hmd).due) + Due(TickLive(live).due)), m)
    /\ ctl' = <<>> /\ slot' = 1 - slot
    /\ UNCHANGED <<registered, member, busy, work>>
IdleTick == Tick(None) /\ UNCHANGED left
NetworkTick(m) == May("net") /\ Spend("net") /\ Tick(m)

\* The lower layers: what was handed down ends.
AirEnds(u, end) ==
    /\ u \in s.air
    /\ end \in IF \E m \in work.net : m.uuid = u /\ m.dst \in Issis
               THEN {"Acknowledged", "Lost", "Discarded"} ELSE {"Sent", "Discarded"}
    /\ s' = [Quiet EXCEPT !.air = @ \ {u}, !.receipt[u] = end]
    /\ UNCHANGED surroundings

\* MM and call control.
Register(i) == registered' = registered \cup {i} /\ UNCHANGED <<member, busy>>
Deregister(i) ==
    /\ registered' = registered \ {i}
    /\ member' = {p \in member : p[1] # i}
    /\ UNCHANGED busy
Affiliate(i, g) == i \in registered /\ member' = member \cup {<<i, g>>} /\ UNCHANGED <<registered, busy>>
CallStart(i) == i \in registered /\ busy' = busy \cup {i} /\ UNCHANGED <<registered, member>>
Others(i) ==
    /\ May("env") /\ Spend("env")
    /\ \/ <<"leave", i>> \in work.may /\ i \notin registered /\ Register(i)
       \/ <<"leave", i>> \in work.may /\ i \in registered /\ Deregister(i)
       \/ \E g \in Groups : <<"join", i>> \in work.may /\ <<i, g>> \notin member /\ Affiliate(i, g)
       \/ <<"call", i>> \in work.may /\ i \notin busy /\ CallStart(i)
    /\ s' = Quiet
    /\ UNCHANGED <<work, hmd, live, ctl, slot>>
CallEnd(i) ==
    /\ i \in busy
    /\ busy' = busy \ {i}
    /\ s' = Quiet
    /\ UNCHANGED <<registered, member, work, hmd, live, ctl, slot, left>>

Next ==
    \/ \E i \in Issis, pdu \in work.pdus : Terminal(i, pdu)
    \/ DeliverNext
    \/ \E c \in work.cmds : Command(c)
    \/ \E i \in Issis : WxReply(i) \/ Others(i) \/ CallEnd(i)
    \/ IdleTick
    \/ \E m \in work.net : NetworkTick(m)
    \/ \E u \in Uuids, end \in {"Sent", "Acknowledged", "Lost", "Discarded"} : AirEnds(u, end)
------------------------------------------------------------------------------
(* Fairness.  The router ticks for ever and drains its queue within a      *)
(* tick, what the lower layers hold ends, weather threads answer and calls *)
(* end.                                                                    *)
Fairness ==
    /\ []<>(slot = 0) /\ []<>(slot = 1)
    /\ []<>(s.queue = <<>>)
    /\ \A u \in Uuids : []<>(u \notin s.air)
    /\ \A i \in Issis : []<>(s.wx[i] = 0) /\ []<>(i \notin busy)
Spec == Init /\ [][Next]_vars /\ Fairness

------------------------------------------------------------------------------
(* Properties.                                                             *)
\* sds_tl_report_context and sds_tl_report_context_order hold the same references, each
\* once and never more than the limit: otherwise eviction takes the wrong one, or the
\* two grow apart for ever.
OrderMatches ==
    /\ Range(s.order) = DOMAIN s.ctx /\ IsInjective(s.order)
    /\ Len(s.order) <= ContextLimit

\* A report context is kept as long as a report it asked for is to come, and no longer.
ContextsOpen == \A k \in DOMAIN s.ctx : ~ (s.ctx[k].req \subseteq s.ctx[k].conv)

\* A short report that is made a full one for the network carries the protocol of the
\* last message that the terminal was sent under this reference, though references
\* are used again and messages wait for calls.
ConvertedReport ==
    [][Len(s'.queue) > Len(s.queue) =>
         LET m == Last(s'.queue)
             key == [reporting |-> m.src, peer |-> m.dst, ref |-> m.data.ref]
         IN  (m.to = "Brew" /\ m.data.k = "Report") => s.asked[key] = m.data.pid]_vars

\* No outcome is awaited of a message that is nowhere: it is on its way to CMCE, waits
\* for the end of a call or is with the lower layers.
Accounted ==
    \A u \in s.pend : s.receipt[u] = "Pending" =>
        \/ u \in s.air
        \/ \E m \in Range(s.queue) : m.to = "Cmce" /\ m.rep = u
        \/ \E p \in Range(s.deferred) : p.rep = u

\* What the cell sends to everybody, from the network, an operator or the configuration,
\* has the cell's own source and asks nobody for a report; only what a terminal sends to
\* everybody goes out as it is.
BroadcastAnonymous ==
    [][left'.pdu = left.pdu =>
         \A m \in Range(s'.out) :
             (m.k = "Sds" /\ m.dst = Broadcast) =>
                 /\ m.src = Broadcast
                 /\ m.data.k = "Transfer" => m.data.req = {}]_vars

\* No message is sent to a terminal that a private call holds.
NotIntoCall == \A m \in Range(s.out) : (m.k = "Sds" /\ m.type = "Issi") => m.dst \notin busy

\* A message that waits for a call goes on waiting, is sent to its terminal, or the
\* terminal left: it is never lost because of what waits before or after it.
DeferredKept ==
    [][\A p \in Range(s.deferred) :
         \/ p \in Range(s'.deferred)
         \/ ~ IsRegistered(p.dst)
         \/ DSdsData(p.src, p.dst, "Issi", p.data, p.rep) \in Range(s'.out)]_vars

\* The network hears of every message whose outcome it awaits.
Reported == \A u \in Uuids : []<>(u \notin s.pend)

\* Every live message has its turn: it is sent, or taken out of the queue.
LiveWaits(id) == \E m \in Range(live.q) : m.id = id /\ m.sent = 0
LiveSent == \A id \in 1 .. MaxId : []<>~ LiveWaits(id)

\* The report contexts are those of reports to come, within their limit; a message whose
\* outcome the network awaits is somewhere; none is sent into a private call.
MessagesAccounted ==
    /\ TypeOK
    /\ OrderMatches
    /\ ContextsOpen
    /\ Accounted
    /\ NotIntoCall

\* What is done with a message: reports are converted with its own protocol, broadcasts are
\* made anonymous, deferred messages are kept, and outcomes and live messages get out.
MessagesServed ==
    /\ ConvertedReport
    /\ BroadcastAnonymous
    /\ DeferredKept
    /\ Reported
    /\ LiveSent
=============================================================================

------------------------------- MODULE BrewLink -------------------------------
(***************************************************************************)
(* The link to the TetraPack server: the Brew entity in the tick thread,   *)
(* the worker thread (net_brew/worker.rs) that owns the transport, the two *)
(* bounded channels between them, and a network that breaks.  A lossless   *)
(* event waits for room and holds the worker up; other events are dropped  *)
(* when there is none.                                                     *)
(***************************************************************************)
EXTENDS BrewEntity

CONSTANTS
    EvCap,      \* the event channel
    Workloads   \* what a behaviour may ask of the system

VARIABLES
    e,      \* the entity (BrewEntity)
    epc,    \* "events": process_events; "deliver": the tick's messages;
            \* "closing", "gone": Drop
    evs,    \* the event channel
    w,      \* the worker: pc, subs (subscriber_groups), sds (pending_sds), taken
    net,    \* "up", "broken" (and nobody noticed), "down"
    inbox,  \* messages of the server the worker has not received
    srv,    \* the server's view of the session: reg, aff, ext
    cmce,   \* CMCE: ext, the state of each call, the SDS received (and the ones sent)
    work, left

vars == <<e, epc, evs, w, net, inbox, srv, cmce, work, left>>
thread == <<w, net, inbox, srv>>
outside == <<work, left>>

NewSession == [reg |-> {}, aff |-> {}, ext |-> {}]
CallStates == {"None", "Setup", "Connecting", "Active"}

\* BREW_COMMAND_CHANNEL_CAPACITY and the event channel of the entity are bounded.
TypeOK ==
    /\ e.sub \in [DOMAIN e.sub -> SUBSET RoutableGroups] /\ DOMAIN e.sub \subseteq Issis
    /\ Len(e.cmds) <= CmdCap /\ Len(evs) <= EvCap
    /\ e.ul \cup e.dl \cup DOMAIN e.jit \subseteq Uuids
    /\ \A u \in DOMAIN e.jit : e.jit[u] \in Buffers /\ Len(e.jit[u].frames) <= MaxFrames
    /\ epc \in {"events", "deliver", "closing", "gone"}
    /\ w.pc \in {"connect", "receive", "commands", "done"}
    /\ net \in {"up", "broken", "down"}
    /\ srv.reg \subseteq Issis /\ srv.aff \subseteq Issis \X Groups
    /\ cmce.call \in [Uuids -> CallStates]

Init ==
    /\ work \in Workloads
    /\ left = work.left
    /\ e = Idle
    /\ epc = "deliver"
    /\ evs = <<>>
    /\ w = [pc |-> "connect", subs |-> <<>>, sds |-> {}, taken |-> 0]
    /\ net = "down"
    /\ inbox = <<>>
    /\ srv = NewSession
    /\ cmce = [ext |-> {}, call |-> [u \in Uuids |-> "None"], sds |-> [u \in Uuids |-> 0],
               headed |-> {}]

May(what) == left[what] > 0
Spend(what) == left' = [left EXCEPT ![what] = @ - 1] /\ UNCHANGED work

-----------------------------------------------------------------------------
(* The tick thread *)

\* A tick begins; CMCE's turn comes before the entity's, and a call whose D-CONNECT or
\* D-CONNECT ACKNOWLEDGE got through is reported with its bearer.
TickStart ==
    /\ epc = "deliver" /\ e.mq = <<>>
    /\ epc' = "events"
    /\ \/ UNCHANGED <<e, cmce>>
       \/ \E u \in Uuids :
            /\ cmce.call[u] = "Connecting"
            /\ cmce' = [cmce EXCEPT !.call[u] = "Active"]
            /\ e' = [e EXCEPT !.mq = <<[to |-> "brew", k |-> "MediaReady", of |-> u, groups |-> {}]>>]
    /\ UNCHANGED <<evs, thread, outside>>

EntityEvent ==
    /\ epc = "events" /\ evs # <<>>
    /\ evs' = Tail(evs)
    /\ \E late \in (IF Head(evs).k = "VoiceFrame" THEN Lates ELSE {0}) :
         e' = ProcessEvent(e, Head(evs), late)
    /\ UNCHANGED <<epc, cmce, thread, outside>>

EntityTick ==
    /\ epc = "events" /\ evs = <<>>
    /\ epc' = "deliver"
    /\ \E speech \in BOOLEAN : e' = FinishTick(e, speech)
    /\ UNCHANGED <<evs, cmce, thread, outside>>

\* What CMCE does with a message of the entity.
Hears(c, m) ==
    CASE m.k = "Affiliate" -> [c EXCEPT !.ext = @ \cup ({m.of} \X m.groups)]
      [] m.k = "Deaffiliate" -> [c EXCEPT !.ext = @ \ ({m.of} \X m.groups)]
      [] m.k = "Deregister" -> [c EXCEPT !.ext = {a \in @ : a[1] # m.of}]
      [] m.k = "SdsTransfer" -> [c EXCEPT !.sds[m.of] = @ + 1]
      [] m.k = "NetworkCircuitSetupRequest" -> [c EXCEPT !.call[m.of] = "Setup"]
      [] m.k \in {"NetworkCircuitConnectRequest", "NetworkCircuitConnectConfirm"} ->
           [c EXCEPT !.call[m.of] = IF @ = "Setup" THEN "Connecting" ELSE @]
      [] m.k \in {"NetworkCircuitRelease", "NetworkCircuitSetupReject"} -> [c EXCEPT !.call[m.of] = "None"]
      [] OTHER -> c

Deliver ==
    /\ epc = "deliver" /\ e.mq # <<>>
    /\ LET m == Head(e.mq)
           s == [e EXCEPT !.mq = Tail(@)]
       IN  IF m.to = "brew" THEN e' = MediaReady(s, m.of, {"ul", "dl"}) /\ UNCHANGED cmce
           ELSE e' = s /\ cmce' = Hears(cmce, m)
    /\ UNCHANGED <<epc, evs, thread, outside>>

Between == epc = "deliver" /\ e.mq = <<>>

\* MM reports a terminal.
Subscriber ==
    /\ Between
    /\ May("mm")
    /\ \E u \in work.updates :
         /\ (u.k # "Register" => u.of \in DOMAIN e.sub)
         /\ e' = SubscriberUpdate(e, u)
    /\ Spend("mm")
    /\ UNCHANGED <<epc, evs, cmce, thread>>

\* CMCE: a terminal calls, alerts, answers or hangs up.
Signal ==
    /\ Between
    /\ May("cc")
    /\ \E u \in work.calls, k \in work.signals :
         /\ (k = "SendSetupRequest") = (cmce.call[u] = "None")
         /\ (k \in {"SendCallAlert", "SendConnectRequest"} => cmce.call[u] = "Setup")
         /\ e' = CircuitSignal(e, k, u)
         /\ cmce' = [cmce EXCEPT !.call[u] =
              IF k = "SendSetupRequest" THEN "Setup" ELSE IF k = "SendCallRelease" THEN "None" ELSE @]
    /\ Spend("cc")
    /\ UNCHANGED <<epc, evs, thread>>

\* UMAC: speech of a terminal, and how strong its signal is.
Media ==
    /\ Between
    /\ May("media")
    /\ \/ \E u \in Uuids : e' = UlVoice(e, u)
       \/ \E i \in DOMAIN e.sub : e' = Rssi(e, i)
    /\ Spend("media")
    /\ UNCHANGED <<epc, evs, cmce, thread>>

\* Drop: Disconnect is sent if there is room, what waits for room is lost.
Shutdown ==
    /\ Between
    /\ May("stop")
    /\ epc' = "closing"
    /\ e' = [e EXCEPT !.pend = <<>>, !.cmds = IF Room(e) THEN Append(@, Cmd("Disconnect", 0)) ELSE @]
    /\ Spend("stop")
    /\ UNCHANGED <<evs, cmce, thread>>

\* The worker has ended or three seconds have passed: both channels are closed.
Close ==
    /\ epc = "closing"
    /\ epc' = "gone"
    /\ evs' = <<>>
    /\ UNCHANGED <<e, cmce, thread, outside>>

-----------------------------------------------------------------------------
(* The worker thread *)

Event(k) == [k |-> k, of |-> 0]

\* requires_lossless_delivery.
Lossless == {"Connected", "Disconnected", "SubscriberEvent", "NetworkCircuitRelease"} \cup Forwarded

\* enqueue_event: with a lossless event the worker waits for room, unless the entity is
\* gone; any other event is dropped.
Enqueue(ev) ==
    LET room == epc # "gone" /\ Len(evs) < EvCap
    IN  /\ ev.k \in Lossless => room \/ epc = "gone"
        /\ evs' = IF room THEN Append(evs, ev) ELSE evs

\* run: the transport connects; the server starts a session.
ConnectOk ==
    /\ w.pc = "connect"
    /\ Enqueue(Event("Connected"))
    /\ w' = [w EXCEPT !.pc = "receive"]
    /\ net' = "up" /\ inbox' = <<>> /\ srv' = NewSession
    /\ UNCHANGED <<e, epc, cmce, outside>>

\* run: the transport does not connect, and the worker tries again later.
ConnectFails ==
    /\ w.pc = "connect"
    /\ May("fail")
    /\ Enqueue(Event("Disconnected"))
    /\ Spend("fail")
    /\ UNCHANGED <<e, epc, cmce, thread>>

\* handle_frame: the text of a message follows its SHORT_TRANSFER; a long one is ignored.
\* SDS over Brew is enabled.
SdsFrame(m) ==
    /\ w' = [w EXCEPT !.sds = IF m.fits THEN @ \ {m.of} ELSE @]
    /\ IF m.fits /\ m.of \in w.sds THEN Enqueue([Event("SdsTransfer") EXCEPT !.of = m.of]) ELSE UNCHANGED evs

CallControl(m) ==
    \/ m.k = "SHORT_TRANSFER" /\ w' = [w EXCEPT !.sds = @ \cup {m.of}] /\ UNCHANGED evs
    \/ m.k \in {"NetworkCircuitRelease"} \cup Forwarded /\ Enqueue(m) /\ UNCHANGED w

Frame(m) ==
    \/ m.k = "SDS_TRANSFER" /\ SdsFrame(m)
    \/ m.k = "VoiceFrame" /\ Enqueue(m) /\ UNCHANGED w

Incoming(m) ==
    \/ CallControl(m)
    \/ Frame(m)
    \/ m.k = "SubscriberEvent" /\ Enqueue(m) /\ UNCHANGED w

Receive ==
    /\ w.pc = "receive" /\ inbox # <<>>
    /\ inbox' = Tail(inbox)
    /\ Incoming(Head(inbox))
    /\ UNCHANGED <<e, epc, net, srv, cmce, outside>>

\* Nothing more to receive; a break need not show yet.
Received ==
    /\ w.pc = "receive" /\ inbox = <<>>
    /\ w' = [w EXCEPT !.pc = "commands"]
    /\ UNCHANGED <<e, epc, evs, net, inbox, srv, cmce, outside>>

\* A SHORT_TRANSFER without its text expires.
ExpireSds ==
    /\ w.pc = "receive" /\ w.sds # {} /\ May("expire")
    /\ \E u \in w.sds : w' = [w EXCEPT !.sds = @ \ {u}]
    /\ Spend("expire")
    /\ UNCHANGED <<e, epc, evs, net, inbox, srv, cmce>>

\* The transport closes on an error, a close or a missing heartbeat.
Noticed ==
    /\ w.pc = "receive" /\ inbox = <<>> /\ net = "broken"
    /\ Enqueue(Event("Disconnected"))
    /\ net' = "down"
    /\ w' = [w EXCEPT !.pc = "connect"]
    /\ UNCHANGED <<e, epc, inbox, srv, cmce, outside>>

\* What the server does with a message of the worker.
Said(v, c) ==
    CASE c.k = "Register" -> [v EXCEPT !.reg = @ \cup {c.of}]
      [] c.k = "Deregister" -> [v EXCEPT !.reg = @ \ {c.of}, !.aff = {a \in @ : a[1] # c.of}]
      [] c.k = "Affiliate" -> [v EXCEPT !.aff = @ \cup ({c.of} \X c.groups)]
      [] c.k = "Deaffiliate" -> [v EXCEPT !.aff = @ \ ({c.of} \X c.groups)]
      [] OTHER -> v

\* What the worker remembers of a command.
Remember(subs, c) ==
    CASE c.k = "Register" -> Put(subs, c.of, Of(subs, c.of))
      [] c.k = "Deregister" -> Drop(subs, c.of)
      [] c.k = "Affiliate" -> Put(subs, c.of, Of(subs, c.of) \cup c.groups)
      [] c.k = "Deaffiliate" /\ c.of \in DOMAIN subs -> [subs EXCEPT ![c.of] = @ \ c.groups]
      [] OTHER -> subs

\* message_loop takes a command; a message that cannot be sent is lost.
Command ==
    /\ w.pc = "commands" /\ e.cmds # <<>> /\ Head(e.cmds).k # "Disconnect"
    /\ LET c == Head(e.cmds)
       IN  /\ e' = [e EXCEPT !.cmds = Tail(@)]
           /\ w' = [w EXCEPT !.subs = Remember(@, c), !.taken = IF IsCritical(c) THEN c.n ELSE @]
           /\ srv' = IF net = "up" THEN Said(srv, c) ELSE srv
    /\ UNCHANGED <<epc, evs, net, inbox, cmce, outside>>

\* graceful_teardown: what the server is left with.
TornDown(v) ==
    [v EXCEPT !.reg = @ \ DOMAIN w.subs,
              !.aff = {a \in @ : a[1] \notin DOMAIN w.subs}]

\* Fault: only the command Disconnect ends the worker.
AskedOnly == w.pc = "commands" /\ e.cmds # <<>> /\ Head(e.cmds).k = "Disconnect"

\* The command Disconnect, or the entity is gone.
AskedToEnd ==
    /\ w.pc = "commands"
    /\ \/ e.cmds # <<>> /\ Head(e.cmds).k = "Disconnect"
       \/ e.cmds = <<>> /\ epc = "gone"

CommandsDone ==
    /\ w.pc = "commands" /\ e.cmds = <<>> /\ ~AskedToEnd
    /\ w' = [w EXCEPT !.pc = "receive"]
    /\ UNCHANGED <<e, epc, evs, net, inbox, srv, cmce, outside>>

Teardown ==
    /\ AskedToEnd
    /\ e' = [e EXCEPT !.cmds = <<>>]
    /\ w' = [w EXCEPT !.pc = "done"]
    /\ srv' = IF net = "up" THEN TornDown(srv) ELSE srv
    /\ UNCHANGED <<epc, evs, net, inbox, cmce, outside>>

-----------------------------------------------------------------------------
(* The network and the server *)

\* The connection breaks; what is on its way may be lost.
Break ==
    /\ net = "up" /\ May("break")
    /\ net' = "broken"
    /\ \E n \in 0..Len(inbox) : inbox' = SubSeq(inbox, 1, n)
    /\ Spend("break")
    /\ UNCHANGED <<e, epc, evs, w, srv, cmce>>

ServerExt(x, m) ==
    IF m.k # "SubscriberEvent" THEN x
    ELSE CASE m.what = "Affiliate" -> x \cup ({m.of} \X m.groups)
           [] m.what = "Deaffiliate" -> x \ ({m.of} \X m.groups)
           [] m.what = "Deregister" -> {a \in x : a[1] # m.of}

\* Speech frames carry their number; a message has one header.
ServerSends ==
    /\ net = "up" /\ May("net")
    /\ \E m \in work.msgs :
         /\ (m.k = "SHORT_TRANSFER" => m.of \notin cmce.headed)
         /\ cmce' = [cmce EXCEPT !.headed = IF m.k = "SHORT_TRANSFER" THEN @ \cup {m.of} ELSE @]
         /\ inbox' = Append(inbox, IF m.k = "VoiceFrame" THEN [m EXCEPT !.n = 1 + work.left.net - left.net] ELSE m)
         /\ srv' = [srv EXCEPT !.ext = ServerExt(@, m)]
    /\ Spend("net")
    /\ UNCHANGED <<e, epc, evs, w, net>>

-----------------------------------------------------------------------------
Entity == TickStart \/ EntityEvent \/ EntityTick \/ Deliver \/ Close
Worker == ConnectOk \/ Receive \/ Received \/ Command \/ CommandsDone \/ Teardown
Environment ==
    Subscriber \/ Signal \/ Media \/ Shutdown \/ ConnectFails \/ ExpireSds \/ Break \/ ServerSends
Next == Entity \/ Worker \/ Noticed \/ Environment

\* The worker waits for room in the event channel.
Blocked ==
    /\ Len(evs) = EvCap /\ epc # "gone"
    /\ \/ w.pc = "connect"
       \/ w.pc = "receive" /\ (inbox = <<>> => net = "broken")

\* The tick thread goes on from tick to tick until the entity is dropped, which takes
\* three seconds.  The worker goes on with its loop where it does not wait or has ended; a
\* connection attempt succeeds after finitely many failures; the heartbeat shows that a
\* connection is broken.
Fairness ==
    /\ \A pc \in {"events", "deliver"} : []<>(epc \in {pc, "gone"})
    /\ \A pc \in {"receive", "commands"} : []<>(w.pc \in {pc, "done"} \/ Blocked)
    /\ []<>(net # "broken" \/ w.pc = "done" \/ Blocked)
Spec == Init /\ [][Next]_vars /\ Fairness

-----------------------------------------------------------------------------
(* Properties *)

Numbers(s) == [n \in 1..Len(s) |-> s[n].n]

\* send_or_queue_brew_command: no critical command is lost or overtaken on its way to the
\* worker, however full the channel gets.
NoneLost ==
    epc \notin {"closing", "gone"} =>
       LET waiting == SelectSeq(e.cmds, IsCritical) \o e.pend
       IN  Numbers(waiting) = [n \in 1..(e.issued - w.taken) |-> w.taken + n]

Settled ==
    /\ net = "up" /\ w.pc \in {"receive", "commands"} /\ inbox = <<>>
    /\ evs = <<>> /\ e.cmds = <<>> /\ e.pend = <<>> /\ e.mq = <<>>
    /\ epc = "deliver"

Known ==
    \A i \in DOMAIN e.sub :
       /\ i \in Routable \/ e.sub[i] # {} => i \in srv.reg
       /\ {i} \X e.sub[i] \subseteq srv.aff

\* resync_subscribers: whatever was affiliated before, during or after a break, the server
\* knows every affiliation of this cell once nothing is on its way.
ServerKnows == Settled => Known

\* clear_active_external_subscribers, handle_external_subscriber_event: CMCE counts as
\* listeners of other cells exactly those the server has reported in the session.
ExternalsCurrent ==
    Settled => {a \in cmce.ext : a[1] \in Externals}
               = {a \in srv.ext : a[1] \in Externals /\ a[2] \in RoutableGroups}

Pending(k, u) == \E n \in 1..Len(e.mq) : e.mq[n].k = k /\ e.mq[n].of = u

\* release_all_calls, drop_network_circuit: CMCE does not keep a call whose speech the
\* entity has stopped forwarding.
ActiveHasMedia ==
    \A u \in Uuids : cmce.call[u] = "Active" =>
       (u \in e.dl /\ u \in e.ul) \/ Pending("MediaReady", u) \/ Pending("NetworkCircuitRelease", u)

\* handle_frame: a message is delivered once, however often the server repeats its text.
SdsOnce == \A u \in Uuids : cmce.sds[u] <= 1

\* graceful_teardown: a worker that ends on a working connection leaves no terminal
\* registered or affiliated at the server.
NothingLeft == w.pc = "done" /\ net = "up" => srv.reg = {} /\ srv.aff = {}

\* VoiceJitterBuffer: speech is played in the order of the frames, each frame once; the
\* frames that wait are in order and later than the last one that was played.
Ascending(s) == \A n \in 2..Len(s) : s[n - 1] < s[n]
PlayedInOrder ==
    /\ [](\A u \in DOMAIN e.jit : Ascending(<<e.played[u]>> \o e.jit[u].frames))
    /\ [][\A u \in Uuids : e'.played[u] >= e.played[u]]_vars

\* Commands that had to wait for room are sent, and the server learns of every affiliation,
\* after the last break.
Synced == []<>(Known \/ epc \in {"closing", "gone"})

\* Drop: the worker ends, although it may wait for room in a channel nobody empties and
\* the command Disconnect may not have found any.
WorkerEnds == epc = "closing" ~> w.pc = "done"

\* Entity, worker, CMCE and server agree over breaks of the connection: no critical command
\* is lost, no call is kept without speech, no message comes twice, no terminal is left over.
SessionConsistent ==
    /\ TypeOK
    /\ NoneLost
    /\ ExternalsCurrent
    /\ ActiveHasMedia
    /\ SdsOnce
    /\ NothingLeft

\* What goes over the link gets through: speech in order, affiliations in the end, and the
\* worker ends when it is asked to.
LinkServed ==
    /\ PlayedInOrder
    /\ Synced
    /\ WorkerEnds
=============================================================================

----------------------------- MODULE BrewEntity ----------------------------
(***************************************************************************)
(* The Brew entity of the tick thread (net_brew/entity.rs): subscribers,   *)
(* individual calls and the commands for the worker thread.  Operators     *)
(* take and return a record                                                *)
(*   sub        subscriber_groups                                          *)
(*   ext        active_external_subscriber_groups                          *)
(*   connected  the entity's view of the backhaul                          *)
(*   pend       pending_critical_commands                                  *)
(*   cmds       the command channel                                        *)
(*   issued     the critical commands issued so far                        *)
(*   ul, dl     the calls in ul_forwarded and in active_calls, of which    *)
(*              only the individual ones are here (BrewGroup has the rest) *)
(*   jit        dl_jitter                                                  *)
(*   mq         the messages to CMCE and to itself in the tick             *)
(*   played     the last frame of each call that was played                *)
(***************************************************************************)
EXTENDS Integers, Sequences, FiniteSetsExt, Functions, SequencesExt

-----------------------------------------------------------------------------
(***************************************************************************)
(* The playout buffer of speech from the network                           *)
(* (net_brew/components/jitter_buffer.rs).  Playout starts when `target'   *)
(* frames wait; a buffer that runs empty stops it and raises the target.   *)
(* The measured jitter is `late', the frames it adds to the target.        *)
(***************************************************************************)

CONSTANTS
    BaseFrames, MinFrames, TargetMax,  \* BREW_JITTER_{BASE,MIN,TARGET_MAX}_FRAMES
    MaxFrames,                         \* BREW_JITTER_MAX_FRAMES
    Latency,                           \* jitter_initial_latency_frames of the configuration
    StablePops,                        \* the 80 of pop_ready
    Lates                              \* what the jitter can add to the target

MaxBoost == 4

Initial == Min({Latency, TargetMax - MinFrames})
Buffers ==
    [frames : Seq(Nat), started : BOOLEAN, target : MinFrames..(BaseFrames + TargetMax), boost : 0..MaxBoost,
     stable : 0..StablePops, late : Lates]

NewBuffer ==
    [frames |-> <<>>, started |-> FALSE, target |-> BaseFrames + Initial, boost |-> 0, stable |-> 0,
     late |-> 0]

RecomputeTarget(b) ==
    [b EXCEPT !.target = Max({MinFrames,
                              Min({TargetMax, BaseFrames + Initial + b.late + b.boost})})]

\* push: the oldest frames give way, and the jitter is measured again.
Push(b, frame, late) ==
    LET all == Append(b.frames, frame)
    IN  RecomputeTarget([b EXCEPT
          !.frames = SubSeq(all, 1 + Max({0, Len(all) - MaxFrames}), Len(all)),
          !.late = late])

\* A frame is taken while as many as the target are left: the boost of an earlier
\* underrun wears off.
Settle(b) ==
    IF Len(b.frames) < b.target THEN [b EXCEPT !.stable = 0]
    ELSE IF b.stable + 1 < StablePops THEN [b EXCEPT !.stable = @ + 1]
    ELSE IF b.boost = 0 THEN [b EXCEPT !.stable = 0]
    ELSE RecomputeTarget([b EXCEPT !.stable = 0, !.boost = @ - 1])

Underrun(b) ==
    RecomputeTarget([b EXCEPT !.started = FALSE, !.stable = 0, !.boost = Min({@ + 1, MaxBoost})])

Holds(b) == ~b.started /\ Len(b.frames) < b.target

\* pop_ready; frame 0 is none.
PopReady(b) ==
    IF Holds(b) THEN [buf |-> b, frame |-> 0]
    ELSE IF b.frames = <<>> THEN [buf |-> Underrun(b), frame |-> 0]
    ELSE [buf |-> Settle([b EXCEPT !.started = TRUE, !.frames = Tail(@)]), frame |-> Head(b.frames)]

-----------------------------------------------------------------------------
CONSTANTS
    Issis, Externals,       \* terminals of this cell, of other cells
    Groups,
    Routable, RoutableGroups,  \* is_brew_issi_routable, is_brew_gssi_routable
    Uuids,                  \* individual calls
    CmdCap, Watermark       \* the command channel, BREW_NONCRITICAL_COMMAND_WATERMARK

Idle ==
    [sub |-> <<>>, ext |-> <<>>, connected |-> FALSE, pend |-> <<>>, cmds |-> <<>>, issued |-> 0,
     ul |-> {}, dl |-> {}, jit |-> <<>>, mq |-> <<>>, played |-> [u \in Uuids |-> 0]]

Put(f, x, y) == [z \in DOMAIN f \cup {x} |-> IF z = x THEN y ELSE f[z]]
Drop(f, x) == Restrict(f, DOMAIN f \ {x})
Of(f, x) == IF x \in DOMAIN f THEN f[x] ELSE {}

Cmd(k, x) == [k |-> k, of |-> x, groups |-> {}, n |-> 0]
WithGroups(k, i, gs) == [Cmd(k, i) EXCEPT !.groups = gs]
NonCritical == {"SendVoiceFrame", "SendRssiUpdate", "SendDtmf"}
IsCritical(c) == c.k \notin NonCritical
ToCmce(k, x) == [to |-> "cmce", k |-> k, of |-> x, groups |-> {}]

-----------------------------------------------------------------------------
(* Commands *)

Room(s) == Len(s.cmds) < CmdCap

\* flush_pending_critical_brew_commands.
FlushPending(s) ==
    LET n == IF ~Room(s) THEN 0 ELSE Min({Len(s.pend), CmdCap - Len(s.cmds)})
    IN  [s EXCEPT !.cmds = @ \o SubSeq(s.pend, 1, n), !.pend = SubSeq(@, n + 1, Len(@))]

Issue(s, c) ==
    IF Room(s) /\ s.pend = <<>> THEN [s EXCEPT !.cmds = Append(@, c)]
    ELSE [s EXCEPT !.pend = Append(@, c)]

\* Fault: a command does not wait behind the ones that already wait.
SendOrQueueAhead(s, c) ==
    IF IsCritical(c)
    THEN LET t == [s EXCEPT !.issued = @ + 1]
             d == [c EXCEPT !.n = t.issued]
         IN  IF Room(t) THEN [t EXCEPT !.cmds = Append(@, d)] ELSE [t EXCEPT !.pend = Append(@, d)]
    ELSE IF s.pend = <<>> /\ Len(s.cmds) < Watermark THEN [s EXCEPT !.cmds = Append(@, c)]
    ELSE s

\* send_or_queue_brew_command: critical commands wait for room in their order, the
\* others are dropped early.
SendOrQueue(s, c) ==
    IF IsCritical(c)
    THEN Issue(FlushPending([s EXCEPT !.issued = @ + 1]), [c EXCEPT !.n = s.issued + 1])
    ELSE IF s.pend = <<>> /\ Room(s) /\ Len(s.cmds) < Watermark THEN [s EXCEPT !.cmds = Append(@, c)]
    ELSE s

SendIf(s, cond, c) == IF cond THEN SendOrQueue(s, c) ELSE s
SendAll(s, cs) == FoldLeft(SendOrQueue, s, cs)

-----------------------------------------------------------------------------
(* Subscribers of this cell *)

Register(s, i) ==
    SendIf([s EXCEPT !.sub = Put(@, i, Of(@, i))], i \in Routable /\ s.connected, Cmd("Register", i))

Deregister(s, i) ==
    LET groups == Of(s.sub, i)
        t == [s EXCEPT !.sub = Drop(@, i)]
    IN  IF ~s.connected \/ (i \notin Routable /\ groups = {}) THEN t
        ELSE SendOrQueue(SendIf(t, groups # {}, WithGroups("Deaffiliate", i, groups)), Cmd("Deregister", i))

Affiliate(s, i, gs) ==
    LET new == (gs \cap RoutableGroups) \ Of(s.sub, i)
        t == [s EXCEPT !.sub = Put(@, i, Of(@, i) \cup new)]
    IN  IF new = {} \/ ~s.connected THEN t
        ELSE SendOrQueue(SendIf(t, i \notin Routable, Cmd("Register", i)), WithGroups("Affiliate", i, new))

Deaffiliate(s, i, gs) ==
    LET gone == gs \cap Of(s.sub, i)
        t == IF i \in DOMAIN s.sub THEN [s EXCEPT !.sub[i] = @ \ gone] ELSE s
    IN  SendIf(t, gone # {} /\ s.connected, WithGroups("Deaffiliate", i, gone))

\* handle_subscriber_update.
SubscriberUpdate(s, u) ==
    CASE u.k = "Register" -> Register(s, u.of)
      [] u.k = "Deregister" -> Deregister(s, u.of)
      [] u.k = "Affiliate" -> Affiliate(s, u.of, u.groups)
      [] u.k = "Deaffiliate" -> Deaffiliate(s, u.of, u.groups)

\* Fault: terminals are registered again, their groups are not.
ResyncRegisters(s) ==
    LET reported == {i \in DOMAIN s.sub : i \in Routable \/ s.sub[i] # {}}
    IN  SendAll(s, SetToSeq({Cmd("Register", i) : i \in reported}))

\* resync_subscribers: everything is said again in a new session.
Resync(s) ==
    LET reported == {i \in DOMAIN s.sub : i \in Routable \/ s.sub[i] # {}}
        Says(i) == <<Cmd("Register", i)>>
                   \o (IF s.sub[i] = {} THEN <<>> ELSE <<WithGroups("Affiliate", i, s.sub[i])>>)
    IN  SendAll(s, FlattenSeq([n \in 1..Cardinality(reported) |-> Says(SetToSeq(reported)[n])]))

-----------------------------------------------------------------------------
(* Subscribers of other cells *)

\* clear_active_external_subscribers.
ClearExternals(s) ==
    [s EXCEPT !.ext = <<>>, !.mq = @ \o SetToSeq({ToCmce("Deregister", x) : x \in DOMAIN s.ext})]

Tell(s, k, x, gs) == [s EXCEPT !.mq = Append(@, [ToCmce(k, x) EXCEPT !.groups = gs])]

\* handle_external_subscriber_event.
ExternalSubscriber(s, ev) ==
    LET x == ev.of
        had == Of(s.ext, x)
        new == (ev.groups \cap RoutableGroups) \ had
        gone == ev.groups \cap had
    IN  IF x \in DOMAIN s.sub THEN s
        ELSE IF ev.what = "Affiliate" /\ new # {}
        THEN Tell([s EXCEPT !.ext = Put(@, x, had \cup new)], "Affiliate", x, new)
        ELSE IF ev.what = "Deaffiliate" /\ gone # {}
        THEN Tell([s EXCEPT !.ext = IF had = gone THEN Drop(@, x) ELSE Put(@, x, had \ gone)],
                  "Deaffiliate", x, gone)
        ELSE IF ev.what = "Deregister" /\ x \in DOMAIN s.ext
        THEN Tell([s EXCEPT !.ext = Drop(@, x)], "Deregister", x, {})
        ELSE s

-----------------------------------------------------------------------------
(* Individual calls *)

\* drop_network_circuit.
DropCircuit(s, u) ==
    [s EXCEPT !.ul = @ \ {u}, !.dl = @ \ {u}, !.jit = Drop(@, u)]

\* NetworkCircuitMediaReady, for one bearer or for the two of a split call.
MediaReady(s, u, dirs) ==
    LET down == "dl" \in dirs
    IN  [s EXCEPT !.ul = IF "ul" \in dirs THEN @ \cup {u} ELSE @,
                  !.dl = IF down THEN @ \cup {u} ELSE @,
                  !.jit = IF down /\ u \notin DOMAIN @ THEN Put(@, u, NewBuffer) ELSE @]

\* Signalling of CMCE for the server; a release drops the call first.
CircuitSignal(s, k, u) ==
    LET t == IF k = "SendCallRelease" THEN DropCircuit(s, u) ELSE s
    IN  SendIf(t, s.connected, Cmd(k, u))

\* release_all_calls.
ReleaseAll(s) ==
    [s EXCEPT !.ul = {}, !.dl = {}, !.jit = <<>>,
              !.mq = @ \o SetToSeq({ToCmce("NetworkCircuitRelease", u) : u \in s.dl})]

\* handle_voice_frame.
VoiceFrame(s, u, frame, late) ==
    IF u \notin s.dl THEN s
    ELSE [s EXCEPT !.jit = Put(@, u, Push(IF u \in DOMAIN @ THEN @[u] ELSE NewBuffer, frame, late))]

\* handle_ul_voice.
UlVoice(s, u) == SendIf(s, u \in s.ul, Cmd("SendVoiceFrame", u))

\* handle_rssi_update, when the interval since the last one has passed.
Rssi(s, i) == SendIf(s, s.connected, Cmd("SendRssiUpdate", i))

\* drain_jitter_playout, in the slot of the bearers.
Playout(s) ==
    LET heard == {u \in s.dl : u \in DOMAIN s.jit}
        pop == [u \in heard |-> PopReady(s.jit[u])]
    IN  [s EXCEPT !.jit = [u \in DOMAIN s.jit |-> IF u \in heard THEN pop[u].buf ELSE s.jit[u]],
                  !.played = [u \in Uuids |->
                     IF u \in heard /\ pop[u].frame # 0 THEN pop[u].frame ELSE s.played[u]]]

-----------------------------------------------------------------------------
(* Events of the worker *)

Connected(s) == Resync(ClearExternals([s EXCEPT !.connected = TRUE]))
Disconnected(s) == ReleaseAll(ClearExternals([s EXCEPT !.connected = FALSE]))

Forwarded ==
    {"NetworkCircuitSetupRequest", "NetworkCircuitSetupAccept", "NetworkCircuitSetupReject",
     "NetworkCircuitAlert", "NetworkCircuitConnectRequest", "NetworkCircuitConnectConfirm",
     "NetworkCircuitSimplexGranted", "NetworkCircuitSimplexIdle"}

\* One event of process_events; the measured jitter is an input.
ProcessEvent(s, ev, late) ==
    CASE ev.k = "Connected" -> Connected(s)
      [] ev.k = "Disconnected" -> Disconnected(s)
      [] ev.k = "SubscriberEvent" -> ExternalSubscriber(s, ev)
      [] ev.k = "VoiceFrame" -> VoiceFrame(s, ev.of, ev.n, late)
      [] ev.k = "SdsTransfer" -> Tell(s, "SdsTransfer", ev.of, {})
      [] ev.k = "NetworkCircuitRelease" -> Tell(DropCircuit(s, ev.of), ev.k, ev.of, {})
      [] ev.k \in Forwarded -> Tell(s, ev.k, ev.of, {})

\* tick_start after process_events, in a slot that carries speech or in frame 18 or
\* another slot; SdsBs and BrewGroup have the reports and timers.
FinishTick(s, speech) == LET t == FlushPending(s) IN IF speech THEN Playout(t) ELSE t
=============================================================================

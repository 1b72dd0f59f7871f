-------------------------------- MODULE UmacBs --------------------------------
(***************************************************************************)
(* The upper MAC of the base station (umac_bs.rs, bs_sched.rs) with the    *)
(* entities and terminals around it.                                       *)
(*                                                                         *)
(* umac is the entity: the fields the modules it extends list.  env is     *)
(* what surrounds it: the events of the workload that are still to come,   *)
(* the access assignments of the last four slots, what each terminal       *)
(* believes it was granted and is sending, and ghosts.  An event happens   *)
(* in one of the slots lo..hi counted from the start; a random access only *)
(* if the access assignment opened that half slot.                         *)
(***************************************************************************)
EXTENDS UmacMedia

CONSTANTS Workloads, IssiNumber, AnswerWithin

VARIABLES work, umac, env

vars == <<work, umac, env>>

NoAccess == [ul |-> "Unallocated", open |-> {}]
Handles == {e.r.h : e \in {x \in Range(work.events) : x.op = "Request"}}
Quiet(s) == [s EXCEPT !.out = <<>>, !.air = None]

------------------------------------------------------------------------------
(* What a terminal makes of a slot grant: n slots of the same timeslot,    *)
(* starting `delay` opportunities after the one of the slot that carries   *)
(* it, without the mandatory linearisation slots.                          *)
GrantedHalf(g) == CASE g.cap = FirstSubslotGranted -> "Block1"
                    [] g.cap = SecondSubslotGranted -> "Block2"
                    [] OTHER -> "Both"
MsSlots(ts, g) ==
    LET n == IF GrantedHalf(g) = "Both" THEN g.cap ELSE 1
        start == Add(ts, 4 * g.delay)
        run[i \in 0 .. n + 1] ==
            IF i = 0 THEN <<>>
            ELSE LET c == Add(start, 4 * (i - 1))
                 IN  IF Len(run[i - 1]) = n \/ IsMandatoryClch(c) THEN run[i - 1] ELSE Append(run[i - 1], c)
    IN  {[ts |-> c, blk |-> GrantedHalf(g)] : c \in Range(run[n + 1])}

IsGrant(p) == p.kind \in {"MacResource", "FragStart"} /\ p.pdu.grant # None
                 /\ p.pdu.grant.delay # WaitForAnotherSlotgrantMessage
GrantsOnAir(s) == {p \in Range(s.air.parts) : IsGrant(p)}
Answered(s) == {p.pdu.addr : p \in {x \in Range(s.air.parts) : x.kind # "MacFrag" /\ x.pdu.ra}}
                  \cup (IF s.air.stolen # None /\ s.air.stolen.pdu.ra THEN {s.air.stolen.pdu.addr} ELSE {})

\* Bits of a message a terminal has received in order.
HeardAfter(s, s2, m, h, bits) ==
    LET parts == SelectSeq(s2.air.parts, LAMBDA p : p.sdu.id = h)
        got[n \in 0 .. Len(parts)] ==
            IF n = 0 THEN bits
            ELSE IF parts[n].from \in {0, got[n - 1]} THEN Max({got[n - 1], parts[n].from + parts[n].len})
            ELSE got[n - 1]
    IN  CASE ~ Listens(s, m, s2.air.ts) -> bits
          [] Listens(s, m, s2.air.ts) /\ s2.air.stolen # None /\ s2.air.stolen.sdu.id = h ->
               s2.air.stolen.sdu.bits
          [] OTHER -> got[Len(parts)]

Told(s, h) == {n \in DOMAIN s.out : s.out[n].kind = "Report" /\ s.out[n].h = h}
Owed(s, m) == \/ \E t \in 1..4 : m \in Range(s.raPend[t])
              \/ \E i \in 1..5 : \E e \in Range(s.q[i]) :
                    e = Ack(m) \/ (e.k \in {"Res", "Steal"} /\ e.pdu.addr = m /\ e.pdu.ra)
                    \/ (e.k = "Frag" /\ ~ e.f.started /\ e.f.pdu.addr = m /\ e.f.pdu.ra)
CarriedWith(s, m) == \E i \in 1..5 : \E e \in Range(s.q[i]) :
                        \/ e.k \in {"Res", "Steal"} /\ e.pdu.addr = m /\ e.pdu.ra
                        \/ e.k = "Pending" /\ e.addr = m

\* What every step records: reports sent, and the random accesses whose
\* acknowledgement was dropped with the message or the grant it travelled with.
Observe(v, s, s2) ==
    [v EXCEPT !.told = [h \in DOMAIN @ |-> @[h] + Cardinality(Told(s2, h))],
              !.good = @ \cup {h \in Handles : \E n \in Told(s2, h) : s2.out[n].what = "Success"},
              !.waiting = {w \in @ : Owed(s2, w.m) \/ ~ CarriedWith(s, w.m)}]

------------------------------------------------------------------------------
Init ==
    /\ work \in Workloads
    /\ umac = [now |-> work.start, q |-> <<<<>>, <<>>, <<>>, <<>>, <<>>>>, rcpt |-> [h \in Handles |-> "Unsent"],
               energy |-> [m \in {} |-> StayAlive], members |-> work.members, registered |-> Issis,
               ul |-> NoReservations, mark |-> <<4, 4, 4, 4>>,
               dl |-> <<None, None, None, None>>, upl |-> <<None, None, None, None>>,
               tx |-> <<<<>>, <<>>, <<>>, <<>>>>, hang |-> <<FALSE, FALSE, FALSE, FALSE>>,
               raPend |-> <<<<>>, <<>>, <<>>, <<>>>>, chanSent |-> FALSE,
               pd |-> None, alloc |-> [t \in 2..4 |-> None], losses |-> {}, panic |-> FALSE, given |-> <<>>,
               defrag |-> NoBuffers, out |-> <<>>, ctx |-> {}, lost |-> {}, reports |-> <<>>,
               speaker |-> <<None, None, None, None>>, lastVoice |-> <<None, None, None, None>>,
               held |-> <<<<>>, <<>>, <<>>, <<>>>>, susp |-> [k \in {} |-> {}], air |-> None]
    /\ env = [left |-> DOMAIN work.events, slot |-> 0, losses |-> work.losses,
              access |-> <<NoAccess, NoAccess, NoAccess, NoAccess>>, used |-> {},
              ms |-> [m \in Issis |-> [slots |-> {}, msg |-> 0, next |-> 0, total |-> 0]],
              waiting |-> {}, told |-> [h \in Handles |-> 0], good |-> {}, cancelled |-> {},
              heard |-> [h \in Handles |-> [m \in Issis |-> 0]],
              here |-> [h \in Handles |-> {}], early |-> {}]

\* Event n of the workload is due.
Due(n, op) == /\ n \in env.left /\ work.events[n].op = op
              /\ work.events[n].lo <= env.slot /\ env.slot <= work.events[n].hi
Happened(n) == [env EXCEPT !.left = @ \ {n}]
Step(v, s) ==
    /\ umac' = s
    /\ env' = Observe(v, umac, umac')
    /\ UNCHANGED work

------------------------------------------------------------------------------
(* Terminals.                                                              *)
HalfOf(blk) == CASE blk = "Block1" -> {1} [] blk = "Block2" -> {2} [] OTHER -> {1, 2}
Burst(kind, m, res, frag, msg, part, blk) ==
    [kind |-> kind, addr |-> m, res |-> res, frag |-> frag, msg |-> msg, part |-> part,
     len |-> IF msg = 0 THEN 0 ELSE 1, blk |-> blk]

\* MAC-ACCESS in a half slot open to random access: the access asks for capacity,
\* and carries the whole of its TM-SDU or the first of its fragments.
Access(n, half) ==
    /\ Due(n, "Access")
    /\ LET e == work.events[n]
           u == Burst("MacAccess", e.m, e.res, e.total > 1, n, 1, IF half = 1 THEN "Block1" ELSE "Block2")
           t == Slot(MsgTime(umac))
       IN  /\ t = e.t /\ half \in env.access[1].open \ env.used
           /\ ~ \E x \in env.ms[e.m].slots : x.ts = MsgTime(umac)
           /\ Step([Happened(n) EXCEPT
                      !.used = @ \cup {half},
                      !.waiting = @ \cup {[m |-> e.m, t |-> t, since |-> env.slot]},
                      !.ms[e.m] = [slots |-> @.slots, msg |-> n, next |-> 2, total |-> e.total]],
                   RxTmvSch(Quiet(umac), u))

\* A terminal with a slot it was granted sends the next fragment of its message, or
\* anything else; a burst may be lost on the way.
Mine(m) == {x \in env.ms[m].slots : x.ts = MsgTime(umac)}
InChain(m) == env.ms[m].next <= env.ms[m].total
ChainBurst(m, blk) ==
    LET c == env.ms[m]
        kind == IF c.next < c.total THEN "MacFrag" ELSE IF blk = "Both" THEN "MacEnd" ELSE "MacEndHu"
    IN  Burst(kind, None, NoRequest, FALSE, c.msg, c.next, blk)
AfterBurst(m, x) == [env EXCEPT !.ms[m].slots = @ \ {x}, !.used = @ \cup HalfOf(x.blk),
                                !.ms[m].next = IF InChain(m) THEN @ + 1 ELSE @]
Reserved(m, x) ==
    /\ x \in Mine(m) /\ HalfOf(x.blk) \cap env.used = {}
    /\ InChain(m) /\ (env.ms[m].next < env.ms[m].total => x.blk = "Both")
    /\ Step(AfterBurst(m, x), RxTmvSch(Quiet(umac), ChainBurst(m, x.blk)))
Spare(m, x, kind) ==
    /\ x \in Mine(m) /\ HalfOf(x.blk) \cap env.used = {} /\ x.blk = "Both"
    /\ ~ InChain(m) /\ kind \in work.spare
    /\ Step(AfterBurst(m, x),
            RxTmvSch(Quiet(umac), Burst(kind, m, IF kind = "MacUBlck" THEN 1 ELSE NoRequest, FALSE, 100, 1, x.blk)))
Lost(m, x) ==
    /\ x \in Mine(m) /\ HalfOf(x.blk) \cap env.used = {}
    /\ InChain(m) /\ env.losses > 0
    /\ Step([AfterBurst(m, x) EXCEPT !.losses = @ - 1], Quiet(umac))

------------------------------------------------------------------------------
(* The LLC and MM.                                                         *)
Request(n) ==
    /\ Due(n, "Request")
    /\ LET r == work.events[n].r
       IN  Step([Happened(n) EXCEPT !.here[r.h] = IF IsGssi(r.addr) THEN EconomyTargets(umac, r.addr) ELSE {}],
                TmaUnitdataReq(Quiet(umac), r))
Cancel(n) ==
    /\ Due(n, "Cancel") /\ \E p \in Range(umac.reports) : p.h = work.events[n].h
    /\ LET h == work.events[n].h
           s == TmaCancelReq(Quiet(umac), h)
       IN  Step([Happened(n) EXCEPT !.cancelled = IF \E p \in Range(s.reports) : p.h = h THEN @ ELSE @ \cup {h}], s)

Attach(n) ==
    /\ Due(n, "Attach")
    /\ LET e == work.events[n] IN Step(Happened(n), [Quiet(umac) EXCEPT !.members[e.g] = @ \cup {e.m}])
Detach(n) ==
    /\ Due(n, "Detach")
    /\ LET e == work.events[n]
       IN  Step([Happened(n) EXCEPT !.here = [h \in Handles |-> @[h] \ {e.m}]],
                [Quiet(umac) EXCEPT !.members[e.g] = @ \ {e.m}])

\* apply_energy_saving_information of MM: the terminal stays up until its cycle
\* starts; the suspensions in force are kept.
ApplyEnergySaving(s, m, mode) ==
    LET a == AllocateEnergySaving(s.now, IssiNumber[m], mode)
        start == StartTime(s.now, IssiNumber[m], mode)
        until == IF Diff(start, Add(s.now, T210)) > 0 THEN start ELSE Add(s.now, T210)
        old == IF m \in DOMAIN s.energy THEN s.energy[m].susp ELSE 0
        new == [a EXCEPT !.awake = until, !.susp = old]
    IN  [s EXCEPT !.energy = [x \in DOMAIN @ \cup {m} |-> IF x = m THEN new ELSE @[x]]]
Economize(n) ==
    /\ Due(n, "Economize")
    /\ LET e == work.events[n]
           counted == e.m \in DOMAIN umac.energy /\ IsEnergyEconomy(umac.energy[e.m])
           covered == \E k \in DOMAIN umac.susp : e.m \in umac.susp[k]
       IN  Step([Happened(n) EXCEPT !.early = IF covered /\ ~ counted THEN @ \cup {e.m} ELSE @],
                ApplyEnergySaving(Quiet(umac), e.m, e.mode))

------------------------------------------------------------------------------
(* Call control.                                                           *)
Claim(n) ==
    /\ Due(n, "Claim")
    /\ Step(Happened(n), [Quiet(umac) EXCEPT !.alloc[work.events[n].t] = "Cmce"])
Free(n) ==
    /\ Due(n, "Free") /\ umac.alloc[work.events[n].t] = "Cmce"
    /\ Step(Happened(n), [Quiet(umac) EXCEPT !.alloc[work.events[n].t] = None])
Open(n) ==
    /\ Due(n, "Open") /\ umac.alloc[work.events[n].t] = "Cmce"
    /\ LET e == work.events[n] IN Step(Happened(n), OpenCircuit(Quiet(umac), e.dir, e.t, e.c))
Close(n) ==
    /\ Due(n, "Close")
    /\ LET e == work.events[n] IN Step(Happened(n), CloseCircuits(Quiet(umac), e.dir, e.t))
Floor(n) ==
    /\ Due(n, "Floor")
    /\ LET e == work.events[n]
       IN  Step(Happened(n), CASE e.what = "Granted" -> FloorGranted(Quiet(umac), e.t, e.who, e.g)
                               [] e.what = "Released" -> FloorReleased(Quiet(umac), e.t)
                               [] e.what = "Ended" -> CallEnded(Quiet(umac), e.t))
Source(n) ==
    /\ Due(n, "Source")
    /\ LET e == work.events[n] IN Step(Happened(n), SetDlMediaSource(Quiet(umac), e.t, e.src))

\* Speech of a participant, of the network, and stolen signalling.
Voice(n) ==
    /\ Due(n, "Voice") /\ Slot(MsgTime(umac)) = work.events[n].t
    /\ LET e == work.events[n] IN Step(Happened(n), RxUlVoice(Quiet(umac), e.t, e.voice))
NetworkVoice(n) ==
    /\ Due(n, "NetworkVoice")
    /\ LET e == work.events[n] IN Step(Happened(n), RxDlVoice(Quiet(umac), e.t, e.voice))
Signal(n) ==
    /\ Due(n, "Signal")
    /\ LET e == work.events[n] IN Step(Happened(n), RxMacUSignal(Quiet(umac), e.t, [msg |-> n, ack |-> e.ack]))

------------------------------------------------------------------------------
(* tick_start.                                                             *)
MacTick(s0) ==
    LET aged == [Quiet(s0) EXCEPT !.now = Add(@, 1), !.given = <<>>,
                                  !.defrag = AgeBuffers(@, Add(s0.now, 1))]
    IN  RecoverIfTs2Free(DrainLossEvents(EmitCompletedReports(Finalize(FlushHeld(CheckInactivity(aged))))))

\* What the slot on air tells the terminals.
GrantedTo(s, m) == UNION {MsSlots(s.air.ts, p.pdu.grant) : p \in {x \in GrantsOnAir(s) : x.pdu.addr = m}}
OnAir(s) ==
    [env EXCEPT !.slot = @ + 1, !.used = {},
                !.access = Append(Tail(@), s.air.access),
                !.ms = [m \in Issis |-> [@[m] EXCEPT
                           !.slots = {x \in @ : Diff(x.ts, MsgTime(umac)) > 0} \cup GrantedTo(s, m)]],
                !.waiting = {w \in @ : w.m \notin Answered(s)},
                !.heard = [h \in Handles |-> [m \in Issis |-> HeardAfter(umac, s, m, h, @[h][m])]]]

Tick ==
    /\ env.slot < work.slots
    /\ \A n \in env.left : work.events[n].hi = env.slot => work.events[n].op \in {"Access", "Cancel", "Voice"}
    /\ \A m \in Issis : ~ InChain(m) \/ \A x \in Mine(m) : HalfOf(x.blk) \cap env.used # {}
    /\ umac' = MacTick(umac)
    /\ env' = Observe(OnAir(umac'), umac, umac')
    /\ UNCHANGED work

Done == /\ env.slot = work.slots
        /\ UNCHANGED vars

Next ==
    \/ Tick
    \/ \E n \in env.left :
          \/ \E half \in {1, 2} : Access(n, half)
          \/ Request(n) \/ Cancel(n)
          \/ Attach(n) \/ Detach(n) \/ Economize(n)
          \/ Claim(n) \/ Free(n) \/ Open(n) \/ Close(n)
          \/ Floor(n) \/ Source(n)
          \/ Voice(n) \/ NetworkVoice(n) \/ Signal(n)
    \/ \E m \in Issis : \E x \in Mine(m) :
          \/ Reserved(m, x) \/ Lost(m, x)
          \/ \E kind \in {"MacData", "MacUBlck"} : Spare(m, x, kind)
    \/ Done

Spec == Init /\ [][Next]_vars
------------------------------------------------------------------------------
(* Type invariant: receipts, queues, the assignment and the allocator.     *)
TypeOK ==
    /\ umac.rcpt \in [Handles -> {"Unsent", "Pending", "Transmitted", "Discarded"}]
    /\ \A i \in 1..5 : \A e \in Range(umac.q[i]) : e.k \in {"Ack", "Pending", "Res", "Frag", "Steal"}
    /\ umac.pd # None => umac.pd.addr \in Issis /\ umac.pd.dir \in {"Dl", "Ul", "Both"}
    /\ umac.alloc \in [2..4 -> {None, "Cmce", "PacketData"}]
    /\ \A t \in 1..4 : umac.speaker[t] \in Issis \cup {None}
    /\ umac.registered = Issis /\ umac.ctx \cup umac.lost \subseteq Issis

(* No assertion of the scheduler fails: a reservation never overwrites that *)
(* of another terminal (ul_reserve_grant asserts it), an answer finds the   *)
(* resource it was to go into, and no traffic is built for a slot that must *)
(* carry a broadcast block.                                                 *)
NoPanic == ~ umac.panic

(* A slot grant that goes on air in the slot it was computed for makes the  *)
(* terminal send in slots that are reserved for it.  (A grant whose         *)
(* resource did not fit goes out in a later slot, with the same delay.)     *)
GrantsReserved ==
    umac.air # None =>
        \A p \in GrantsOnAir(umac) : \A g \in Range(umac.given) :
            (g.to = p.pdu.addr /\ g.grant = p.pdu.grant) =>
                \A x \in MsSlots(umac.air.ts, g.grant) : SlotOwner(umac.ul, x.ts, x.blk) = g.to

(* What the LLC is given is one message of the terminal it is attributed    *)
(* to: it begins with the first fragment, ends with the last, and nothing   *)
(* of another message is in between.                                        *)
WholeMessages ==
    \A n \in DOMAIN umac.out :
        (umac.out[n].kind = "Ind" /\ umac.out[n].frags[1].msg # 100) =>
            LET f == umac.out[n].frags   e == work.events[f[1].msg]
            IN  /\ e.m = umac.out[n].addr
                /\ f[1].part = 1 /\ Last(f).part = e.total
                /\ \A i \in 1 .. Len(f) - 1 : f[i].msg = f[i + 1].msg /\ f[i].part < f[i + 1].part

(* A terminal whose random access was received is answered: until then the  *)
(* acknowledgement is queued, kept for the next stolen half slot, or part   *)
(* of a queued resource, and on the main control channel it takes no longer *)
(* than AnswerWithin slots.                                                 *)
AccessAnswered ==
    \A w \in env.waiting : /\ Owed(umac, w.m)
                           /\ w.t = 1 => env.slot - w.since <= AnswerWithin

(* A group message is reported sent only when every member that was saving  *)
(* energy when it was requested, and is still a member, has had all of it   *)
(* in slots it listens to.  (A broadcast to all is reported after its first *)
(* transmission.)                                                           *)
GroupReached ==
    \A n \in DOMAIN work.events :
        work.events[n].op = "Request" =>
            LET r == work.events[n].r
            IN  (r.h \in env.good /\ r.addr # AllOnes) =>
                    \A m \in env.here[r.h] : env.heard[r.h][m] = r.sdu.bits

(* Every request the upper MAC owes a report for gets exactly one, unless   *)
(* the LLC withdrew it while it was queued.                                 *)
ReportedOnce ==
    \A h \in Handles :
        /\ env.told[h] <= 1
        /\ h \in env.cancelled => env.told[h] = 0
        /\ (umac.rcpt[h] # "Unsent" /\ env.told[h] = 0 /\ h \notin env.cancelled) =>
               \E p \in Range(umac.reports) : p.h = h

(* After every slot the packet-data assignment, the allocator and the       *)
(* circuits agree: timeslot 2 is assigned exactly while packet data owns it,*)
(* and never under a circuit.                                               *)
ChannelAgrees ==
    umac.air # None =>
        /\ umac.pd # None <=> umac.alloc[PdSlot] = "PacketData"
        /\ umac.pd # None => ~ VoiceOn(umac, PdSlot)

(* A terminal saving energy is held awake once for every open circuit it    *)
(* was suspended for, whatever groups it joined or left meanwhile; a        *)
(* terminal that began to save energy during a circuit is not counted.      *)
SuspensionsBalanced ==
    \A m \in DOMAIN umac.energy \ env.early :
        umac.energy[m].susp = Cardinality({k \in DOMAIN umac.susp : m \in umac.susp[k]})

(* Speech recorded under one speaker is never queued for sending while      *)
(* another has the floor of the uplink slot it came from.                   *)
NoStaleSpeech ==
    \A t \in 1..4 : \A b \in Range(umac.tx[t]) :
        (b.from # None /\ b.who # None) => umac.speaker[b.from] \in {None, b.who}

(* The access assignment of the main control channel, and of frame 18,      *)
(* never opens a half slot that is reserved.                                *)
ReservedHalvesClosed ==
    (umac.air # None /\ (Slot(umac.air.ts) = 1 \/ Frame(umac.air.ts) = 18)) =>
        LET u == UlAt(umac.ul, umac.air.ts)
        IN  /\ 1 \in umac.air.access.open => u.ul1 = None
            /\ 2 \in umac.air.access.open => u.ul2 = None

(* A terminal that was told an energy-economy cycle can be reached: the     *)
(* scheduler takes it for asleep outside that cycle (an assignment that     *)
(* needs frame 18 is not honoured, and would be sent to while it sleeps),   *)
(* and in each cycle it listens in a frame whose main control channel can   *)
(* carry signalling.                                                        *)
EconomyReachable ==
    \A m \in DOMAIN umac.energy :
        LET e == umac.energy[m]
        IN  e.mode # 0 =>
                /\ IsEnergyEconomy(e)
                /\ \E k \in 0 .. Cycle[e.mode] - 1 :
                      LET ts == Add(ForwardToTimeslot(umac.now, 1), 4 * k)
                      IN  CanCarryScheduledSchf(ts) /\ ListensAt([e EXCEPT !.awake = Never, !.susp = 0], ts)

\* The tables of the scheduler agree with each other and with what went on the air.
SchedulerConsistent ==
    /\ TypeOK
    /\ NoPanic
    /\ GrantsReserved
    /\ AccessAnswered
    /\ ReportedOnce
    /\ ChannelAgrees
    /\ SuspensionsBalanced
    /\ NoStaleSpeech
    /\ ReservedHalvesClosed
    /\ EconomyReachable
=============================================================================

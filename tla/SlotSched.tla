----------------------------- MODULE SlotSched -----------------------------
(***************************************************************************)
(* What the channel scheduler of the upper MAC keeps: the uplink schedule, *)
(* and in the second part the downlink queues.                             *)
(*                                                                         *)
(* Reserved access on the uplink (bs_sched.rs, the ul_ functions): which   *)
(* future uplink slots belong to which terminal, how a capacity request    *)
(* becomes a slot grant, and what a received burst is attributed to.       *)
(*                                                                         *)
(* The schedule `ul` maps <<timeslot, frame index>> to the owners of the   *)
(* two half slots and the usage marker; it holds the slots that are        *)
(* reserved, the array entries of the code that are not empty.             *)
(***************************************************************************)
EXTENDS Integers, Sequences, FiniteSetsExt, Functions, SequencesExt

-----------------------------------------------------------------------------
(***************************************************************************)
(* TDMA time (tetra-core tdma_time.rs).  A time is its to_int image: the   *)
(* number of timeslots since hyperframe 0, modulo the 65536 hyperframes    *)
(* the u16 hyperframe number holds.  Slot, Frame and Multiframe are the    *)
(* fields the air interface numbers: 1..4, 1..18 and 1..60.                *)
(***************************************************************************)

TIME_INT_WRAP == 4 * 18 * 60 * 65536

Slot(i) == (i % 4) + 1
Frame(i) == ((i \div 4) % 18) + 1
Multiframe(i) == ((i \div 72) % 60) + 1

\* from_int truncates the hyperframe number to 16 bits.
Add(i, n) == (i + n) % TIME_INT_WRAP

\* time_int_diff: the signed distance, shortest way around.
Diff(a, b) == LET d == (a - b) % TIME_INT_WRAP
              IN  IF d >= TIME_INT_WRAP \div 2 THEN d - TIME_INT_WRAP ELSE d
Age(i, now) == Diff(now, i)

ForwardToTimeslot(i, t) == Add(i, (t + 4 - Slot(i)) % 4)

\* The slots of frame 18 that the cell must keep for the synchronisation and
\* broadcast blocks, and (uplink) for common linearisation.
IsMandatoryBsch(i) == Frame(i) = 18 /\ Slot(i) = 4 - ((Multiframe(i) + 1) % 4)
IsMandatoryBnch(i) == Frame(i) = 18 /\ Slot(i) = 4 - ((Multiframe(i) + 3) % 4)
IsMandatoryClch(i) == Frame(i) = 18 /\ Slot(i) = 4 - ((Multiframe(i) + 1) % 4)

-----------------------------------------------------------------------------
CONSTANT None

MACSCHED_NUM_FRAMES == 90
MAX_RESERVED_ACCESS_GRANT_CHUNK_SLOTS == 4
MaxGrantingDelay == 13
MAX_PACKET_DATA_PENDING_GRANT_WAIT_GRANTS == 24

FreeSlot == [ul1 |-> None, ul2 |-> None, marker |-> None]
NoReservations == [k \in {} |-> FreeSlot]

\* frame + 18 * multiframe + 1080 * hyperframe, modulo the array's length.
UlIndex(ts) == <<Slot(ts), (ts \div 4) % MACSCHED_NUM_FRAMES>>
UlAt(ul, ts) == IF UlIndex(ts) \in DOMAIN ul THEN ul[UlIndex(ts)] ELSE FreeSlot
UlPut(ul, ts, e) == [k \in DOMAIN ul \cup {UlIndex(ts)} |-> IF k = UlIndex(ts) THEN e ELSE ul[k]]
UlClear(ul, ts) == Restrict(ul, DOMAIN ul \ {UlIndex(ts)})
ClearFutureUplinkReservations(ul, t) == Restrict(ul, {k \in DOMAIN ul : k[1] # t})

------------------------------------------------------------------------------
(* What a terminal asked for and has not been granted yet. *)
NewDebt(slots) == [half |-> slots = 0, left |-> IF slots = 0 THEN 1 ELSE slots, waits |-> 0]
NextChunk(d) == IF d.half THEN 1 ELSE Min({d.left, MAX_RESERVED_ACCESS_GRANT_CHUNK_SLOTS})
RemainingAfterGrant(d, n) ==
    IF d.half \/ n >= d.left THEN None ELSE [d EXCEPT !.left = @ - n, !.waits = 0]
CoalesceMax(d, e) ==
    [(IF e.left > d.left THEN e ELSE d) EXCEPT !.waits = Max({d.waits, e.waits})]
AfterWaitGrant(d) == [d EXCEPT !.waits = @ + 1]
WaitBudgetExhausted(d) == d.waits >= MAX_PACKET_DATA_PENDING_GRANT_WAIT_GRANTS

\* The capacities a basic slot grant can name; a request is rounded up to one.
BasicGrantSlots == {1, 2, 3, 4, 5, 6, 8, 10, 13, 17, 24, 34, 51, 68}
CapAlloc(n) == IF n > 68 THEN 68 ELSE Min({c \in BasicGrantSlots : c >= n})
FirstSubslotGranted == 0
SecondSubslotGranted == 99
WaitForAnotherSlotgrantMessage == 15
WaitCapacity(d) == IF d.half THEN FirstSubslotGranted ELSE CapAlloc(d.left)

------------------------------------------------------------------------------
(* ul_find_grant_opportunity: the first n slots in a row on timeslot t at  *)
(* or after base, and how many opportunities come before them.  A common   *)
(* linearisation slot is jumped: it is counted when no slot has been       *)
(* collected yet, and not counted inside a run.  The code looks at         *)
(* MACSCHED_NUM_FRAMES - 1 frames and then refuses a delay that a grant    *)
(* cannot express; no slot beyond SearchFrames has one it can.             *)
SearchFrames == MaxGrantingDelay + MAX_RESERVED_ACCESS_GRANT_CHUNK_SLOTS + 3

Reusable(e, half, owner) ==
    \/ e.ul1 = None /\ e.ul2 = None
    \/ ~ half /\ owner # None /\ e.ul1 = owner /\ e.ul2 = owner
    \/ half /\ (e.ul1 = None \/ e.ul2 = None)

StepOver(ul, f, c, n, half, owner) ==
    IF Len(f.slots) = n THEN f
    ELSE IF IsMandatoryClch(c)
    THEN IF f.slots = <<>> THEN [f EXCEPT !.skips = @ + 1] ELSE f
    ELSE IF Reusable(UlAt(ul, c), half, owner) THEN [f EXCEPT !.slots = Append(@, c)]
    ELSE [slots |-> <<>>, skips |-> f.skips + Len(f.slots) + 1]

FindOpportunity(ul, base, t, n, half, owner) ==
    LET from == ForwardToTimeslot(base, t)
        after[i \in 0 .. SearchFrames] ==
            IF i = 0 THEN [slots |-> <<>>, skips |-> 0]
            ELSE StepOver(ul, after[i - 1], Add(from, 4 * (i - 1)), n, half, owner)
        found == after[SearchFrames]
    IN  IF Len(found.slots) = n THEN found ELSE None

\* ul_reserve_grant.  Whether the slots may be written is the code's assertion,
\* CanReserve; a half slot goes to the first half that is free.
CanReserve(ul, issi, slots, half) ==
    \A i \in 1..Len(slots) : LET e == UlAt(ul, slots[i]) IN
        IF half THEN e.ul1 = None \/ e.ul2 = None
        ELSE (e.ul1 = issi /\ e.ul2 = issi) \/ (e.ul1 = None /\ e.ul2 = None)

ReserveSlot(e, issi, half, marker) ==
    [ul1 |-> IF half /\ e.ul1 # None THEN e.ul1 ELSE issi,
     ul2 |-> IF half /\ e.ul1 = None THEN e.ul2 ELSE issi,
     marker |-> IF marker = None THEN e.marker ELSE marker]

ReserveGrant(ul, issi, slots, half, marker) ==
    LET done[i \in 0 .. Len(slots)] ==
            IF i = 0 THEN ul
            ELSE UlPut(done[i - 1], slots[i],
                       ReserveSlot(UlAt(done[i - 1], slots[i]), issi, half, marker))
    IN  done[Len(slots)]

NextUsageMarker(m) == IF m >= 62 THEN 4 ELSE m + 1

\* ul_process_pending_grant: the largest chunk whose delay can be expressed.  The
\* result is None, or the grant, the slots it stands for and how many they are.
ProcessPendingGrant(ul, marker, base, t, issi, debt, owner) ==
    LET Found(n) == FindOpportunity(ul, base, t, n, debt.half, owner)
        fits == {n \in 1 .. NextChunk(debt) :
                    Found(n) # None /\ Found(n).skips <= MaxGrantingDelay}
        n == Max(fits)
        op == Found(n)
        m == IF ~ debt.half /\ n >= 2 THEN marker ELSE None
        second == debt.half /\ UlAt(ul, op.slots[1]).ul1 # None
    IN  IF fits = {} THEN None
        ELSE [n |-> n, marker |-> m, slots |-> op.slots,
              safe |-> CanReserve(ul, issi, op.slots, debt.half),
              ul |-> ReserveGrant(ul, issi, op.slots, debt.half, m),
              grant |-> [cap |-> IF ~ debt.half THEN n
                                 ELSE IF second THEN SecondSubslotGranted ELSE FirstSubslotGranted,
                         delay |-> op.skips]]

WaitGrant(debt) == [cap |-> WaitCapacity(debt), delay |-> WaitForAnotherSlotgrantMessage]

------------------------------------------------------------------------------
(* Whose burst is it?  blk is "Block1", "Block2" or "Both".                *)
SlotOwner(ul, ts, blk) ==
    LET e == UlAt(ul, ts)
    IN  CASE blk = "Block1" -> e.ul1
          [] blk = "Block2" -> e.ul2
          [] OTHER -> IF e.ul1 = e.ul2 THEN e.ul1 ELSE None

\* ul_get_usage, for the access-assignment channel.
UlUsage(ul, ts) ==
    LET e == UlAt(ul, ts)
    IN  CASE e.ul1 = None -> "CommonOnly"
          [] e.marker # None -> "Traffic"
          [] e.ul2 # None -> "AssignedOnly"
          [] OTHER -> "CommonAndAssigned"

------------------------------------------------------------------------------
(***************************************************************************)
(* The downlink queues of the channel scheduler (bs_sched.rs): what waits  *)
(* for a slot, what is merged with what, what is thrown away when a queue  *)
(* is full, and when the addressed terminals can hear it.                  *)
(*                                                                         *)
(* s is the state record of UmacBs.  s.q[1..4] are the queues of the       *)
(* timeslots, s.q[NextSlot] is dltx_next_slot_queue.  An element is        *)
(*   Ack(addr)       a random access still to be acknowledged              *)
(*   Pending(...)    reserved access owed to a terminal                    *)
(*   Res(...)        a MAC-RESOURCE with its TM-SDU                        *)
(*   Frag(...)       a TM-SDU that is being sent in fragments              *)
(*   Steal(...)      a MAC-RESOURCE for half a traffic slot                *)
(* (the Grant element of the code is queued by its tests only).  A TM-SDU  *)
(* is [id, bits, kind, call]: kind is what the code finds by parsing the   *)
(* LLC, MLE and CMCE headers in it.                                        *)
(***************************************************************************)

CONSTANT DEFRAG_BUF_MAX_LEN

-----------------------------------------------------------------------------
(***************************************************************************)
(* How TM-SDUs are cut into MAC blocks and put together again: the lengths *)
(* of the downlink MAC headers, the downlink fragmenter (bs_frag.rs) and   *)
(* the uplink reassembly buffers (bs_defrag.rs).  Lengths are bits.        *)
(*                                                                         *)
(* A MAC-RESOURCE is [addr, marker, grant, ra, ca]: the usage marker, the  *)
(* slot grant and the channel allocation are None when absent, and ra is   *)
(* the random-access flag.  A TM-SDU is a record with its length `bits`.   *)
(* What a chunk puts on air is the header with the part                    *)
(* [from, from + len) of its TM-SDU.                                       *)
(***************************************************************************)
SCH_F_CAP == 268
STCH_CAP == 124
MIN_SLOT_CAP_FOR_RES_FRAG_START == 32
MIN_SLOT_CAP_FOR_FRAG == 16
DEFRAG_TS_BEFORE_TIMEOUT == 9 * 4

Given(x, n) == IF x = None THEN 0 ELSE n
ChanAllocLen(ca) == Given(ca, 2 + 4 + 2 + 1 + 1 + 12 + 1 + 2 + 2)
HeaderLen(pdu) == 16 + Given(pdu.marker, 6) + 24 + 1 + 1 + Given(pdu.grant, 8) + 1
                     + ChanAllocLen(pdu.ca)
MacEndLen(ca) == 2 + 1 + 1 + 1 + 6 + 1 + 1 + ChanAllocLen(ca)
MacFragLen == 4

RoundUp(n) == 8 * ((n + 7) \div 8)

\* Fill bits take a PDU to the next byte, or to the end of the slot if that is nearer.
FillBits(len, cap) == IF len >= cap THEN 0 ELSE Min({RoundUp(len), cap}) - len

MinimalResource(addr, grant, ra) ==
    [addr |-> addr, marker |-> None, grant |-> grant, ra |-> ra, ca |-> None]

------------------------------------------------------------------------------
(* The fragmenter of one TM-SDU: `left` bits are still to be sent, started *)
(* says that the MAC-RESOURCE is out, and ca is the channel allocation     *)
(* that a fragmented TM-SDU carries in its MAC-END.                        *)
NewFragger(pdu, sdu, rep, pdch) ==
    [pdu |-> pdu, sdu |-> sdu, left |-> sdu.bits, started |-> FALSE, ca |-> None,
     rep |-> rep, pdch |-> pdch]

CarriesChannelAllocation(f) == f.pdu.ca # None \/ f.ca # None

Part(f, kind, n, ca) == [kind |-> kind, pdu |-> f.pdu, sdu |-> f.sdu, from |-> f.sdu.bits - f.left,
                         len |-> n, ca |-> ca, heard |-> {}]
Written(f, done, bits, part) == [f |-> f, done |-> done, bits |-> bits, part |-> part]
NothingWritten(f) == Written(f, FALSE, 0, None)

ResourceChunk(f, cap) ==
    LET hdr == HeaderLen(f.pdu)
        whole == hdr + f.left + FillBits(hdr + f.left, cap)
        start == hdr - ChanAllocLen(f.pdu.ca)
        n == Min({cap - start, f.left})
    IN  CASE whole <= cap ->
               Written([f EXCEPT !.left = 0, !.started = TRUE], TRUE, whole,
                       Part(f, "MacResource", f.left, f.pdu.ca))
          [] whole > cap /\ (cap < MIN_SLOT_CAP_FOR_RES_FRAG_START \/ cap < start) ->
               NothingWritten(f)
          [] OTHER ->
               Written([f EXCEPT !.left = @ - n, !.started = TRUE, !.ca = f.pdu.ca,
                                 !.pdu.ca = None],
                       FALSE, cap, Part(f, "FragStart", n, None))

FragOrEndChunk(f, cap) ==
    LET end == MacEndLen(f.ca) + f.left
        n == Min({cap - MacFragLen, f.left})
    IN  CASE RoundUp(end) <= cap ->
               Written([f EXCEPT !.left = 0, !.ca = None], TRUE, RoundUp(end),
                       Part(f, "MacEnd", f.left, f.ca))
          [] RoundUp(end) > cap /\ (cap < MIN_SLOT_CAP_FOR_FRAG \/ f.left = 0) ->
               NothingWritten(f)
          [] OTHER -> Written([f EXCEPT !.left = @ - n], FALSE, cap, Part(f, "MacFrag", n, None))

FraggerChunk(f, cap) == IF f.started THEN FragOrEndChunk(f, cap) ELSE ResourceChunk(f, cap)

------------------------------------------------------------------------------
(* Uplink reassembly, one buffer per timeslot and terminal.  A buffer      *)
(* holds the fragments it was given, in order; resetting one that overflew *)
(* leaves it in the table, inactive.                                       *)
NoBuffers == [k \in {} |-> None]

Active(d, k) == k \in DOMAIN d /\ d[k].active
Keep(d, keep) == Restrict(d, keep)
Bits(frags) == LET sum[i \in 0 .. Len(frags)] == IF i = 0 THEN 0 ELSE sum[i - 1] + frags[i].len
               IN  sum[Len(frags)]
Buffer(d, k, b) == [j \in DOMAIN d \cup {k} |-> IF j = k THEN b ELSE d[j]]

AgeBuffers(d, now) ==
    Keep(d, {k \in DOMAIN d : d[k].active => Diff(now, d[k].last) < DEFRAG_TS_BEFORE_TIMEOUT})

DiscardIncomplete(d, k) == IF Active(d, k) THEN Keep(d, DOMAIN d \ {k}) ELSE d

InsertFirst(d, k, frag, t) == Buffer(d, k, [active |-> TRUE, last |-> t, frags |-> <<frag>>])

\* Mutant: what does not fit is left out.
InsertNextTruncating(d, k, frag, t) ==
    IF ~ Active(d, k) \/ Bits(d[k].frags) + frag.len > DEFRAG_BUF_MAX_LEN THEN d
    ELSE Buffer(d, k, [d[k] EXCEPT !.last = t, !.frags = Append(@, frag)])
InsertNext(d, k, frag, t) ==
    IF ~ Active(d, k) THEN d
    ELSE IF Bits(d[k].frags) + frag.len > DEFRAG_BUF_MAX_LEN
    THEN Buffer(d, k, [d[k] EXCEPT !.active = FALSE, !.frags = <<>>])
    ELSE Buffer(d, k, [d[k] EXCEPT !.last = t, !.frags = Append(@, frag)])

\* The table without the buffer, and what it held if it was complete.
InsertLast(d, k, frag, t) ==
    LET e == InsertNext(d, k, frag, t)
    IN  [d |-> Keep(e, DOMAIN e \ {k}), frags |-> IF Active(e, k) THEN e[k].frags ELSE None]

-----------------------------------------------------------------------------
(***************************************************************************)
(* Energy economy: when a terminal that sleeps between receive frames can  *)
(* be reached (EnergySavingAssignment, tetra-config state.rs) and how MM   *)
(* picks the frame its cycle starts at (mm_bs.rs).  An assignment is       *)
(* [mode, frame, multi, awake, susp]: awake is the time until which recent *)
(* signalling keeps the terminal up, or Never; susp counts the assigned    *)
(* channels and calls that suspend its sleep.                              *)
(***************************************************************************)

Never == -1
T210 == 18 * 4
HyperframeFrames == 18 * 60

\* sleep_frames + 1: the receive frame of mode EGn comes once per Cycle[n].
Cycle == <<2, 3, 6, 9, 18, 72, 360>>

StayAlive == [mode |-> 0, frame |-> 0, multi |-> 0, awake |-> Never, susp |-> 0]

FrameIndex(frame, multi) == (multi - 1) * 18 + frame - 1

\* The cycle that starts at frame/multi falls on frame `target` of some
\* multiframe.  (The code looks at a whole hyperframe; the frame numbers of a
\* cycle repeat after at most 18 turns.)
ReceiveCycleUsesFrame(mode, frame, multi, target) ==
    /\ mode \in DOMAIN Cycle
    /\ \E k \in 0..17 :
          ((FrameIndex(frame, multi) + k * Cycle[mode]) % 18) + 1 = target

IsEnergyEconomy(e) == /\ e.mode \in DOMAIN Cycle
                      /\ e.frame \in 1..17 /\ e.multi \in 1..60
                      /\ ~ ReceiveCycleUsesFrame(e.mode, e.frame, e.multi, 18)

ListensAt(e, ts) ==
    \/ ~ IsEnergyEconomy(e)
    \/ e.susp > 0
    \/ e.awake # Never /\ Diff(ts, e.awake) <= 0
    \/ ((FrameIndex(Frame(ts), Multiframe(ts)) - FrameIndex(e.frame, e.multi))
           % HyperframeFrames) % Cycle[e.mode] = 0

MarkAwakeFromSignallingActivity(e, at) ==
    IF IsEnergyEconomy(e) /\ (e.awake = Never \/ Diff(e.awake, Add(at, T210)) < 0)
    THEN [e EXCEPT !.awake = Add(at, T210)] ELSE e

\* The count is a u16 that saturates.
SuspendForAssignedChannel(e) ==
    IF IsEnergyEconomy(e) /\ e.susp < 65535 THEN [e EXCEPT !.susp = @ + 1] ELSE e

ResumeFromAssignedChannel(e, at) ==
    LET r == [e EXCEPT !.susp = IF @ > 0 THEN @ - 1 ELSE 0]
    IN  IF r.susp = 0 THEN MarkAwakeFromSignallingActivity(r, at) ELSE r

\* allocate_energy_saving_information: the cycle starts two multiframes and a
\* spread by identity from now, or up to 17 frames later so that it never
\* needs frame 18; without such a start the terminal stays alive.
StartTime(now, issi, mode) == Add(now, (36 + (issi % Cycle[mode])) * 4)
AllocateEnergySaving(now, issi, mode) ==
    LET At(k) == Add(StartTime(now, issi, mode), 4 * k)
        Safe(k) == ~ ReceiveCycleUsesFrame(mode, Frame(At(k)), Multiframe(At(k)), 18)
        safe == {k \in 0..17 : Safe(k)}
        first == CHOOSE k \in safe : \A j \in safe : k <= j
    IN  IF mode \notin DOMAIN Cycle \/ safe = {} THEN StayAlive
        ELSE [StayAlive EXCEPT !.mode = mode, !.frame = Frame(At(first)),
                               !.multi = Multiframe(At(first))]

-----------------------------------------------------------------------------
CONSTANTS Issis, Gssis, AllOnes, MAX_DLSCHED_ELEMS, MAX_PENDING_RA_ACKS

NextSlot == 5

NoSdu == [id |-> None, bits |-> 0, kind |-> "Empty", call |-> None]
CommonControl == 0

Ack(addr) == [k |-> "Ack", addr |-> addr]
\* origin: CommonControl, or the packet-data timeslot.
Pending(addr, debt, origin) == [k |-> "Pending", addr |-> addr, debt |-> debt, origin |-> origin]
Res(pdu, sdu, rep, gs) == [k |-> "Res", pdu |-> pdu, sdu |-> sdu, rep |-> rep, gs |-> gs]
Frag(f, gs) == [k |-> "Frag", f |-> f, gs |-> gs]
Steal(pdu, sdu, rep, gs) == [k |-> "Steal", pdu |-> pdu, sdu |-> sdu, rep |-> rep, gs |-> gs]

ElemAddr(e) == CASE e.k \in {"Ack", "Pending"} -> e.addr
                 [] e.k = "Frag" -> e.f.pdu.addr
                 [] OTHER -> e.pdu.addr

------------------------------------------------------------------------------
(* Receipts.  A receipt changes only while it is pending.                  *)
MarkIfPending(s, rep, to) ==
    IF rep # None /\ s.rcpt[rep] = "Pending" THEN [s EXCEPT !.rcpt[rep] = to] ELSE s
MarkDiscarded(s, rep) == MarkIfPending(s, rep, "Discarded")
MarkTransmitted(s, rep) == MarkIfPending(s, rep, "Transmitted")

GroupReporter(gs) == IF gs = None THEN None ELSE gs.rep
OwnOrGroup(rep, gs) == IF rep # None THEN rep ELSE GroupReporter(gs)

\* mark_sched_elem_discarded_if_reported; a fragmenter that is dropped also
\* discards the receipt it holds.
Discard(s, e) ==
    CASE e.k \in {"Res", "Steal"} -> MarkDiscarded(s, OwnOrGroup(e.rep, e.gs))
      [] e.k = "Frag" -> MarkDiscarded(MarkDiscarded(s, GroupReporter(e.gs)), e.f.rep)
      [] OTHER -> s

\* Take out of queue i the elements that are `Gone`, discarding them in order.
Purge(s, i, Gone(_)) ==
    LET gone == SelectSeq(s.q[i], Gone)
        kept == SelectSeq(s.q[i], LAMBDA e : ~ Gone(e))
        marked[n \in 0 .. Len(gone)] == IF n = 0 THEN s ELSE Discard(marked[n - 1], gone[n])
    IN  [marked[Len(gone)] EXCEPT !.q[i] = kept]

PurgeAll(s, Gone(_)) == LET p[i \in 0..5] == IF i = 0 THEN s ELSE Purge(p[i - 1], i, Gone)
                        IN  p[5]

------------------------------------------------------------------------------
(* What matters most when not everything can be kept or sent.              *)
\* "BlData" is any acknowledged basic-link message: the first bits of its LLC header
\* are those of D-CONNECT, and that is what the scheduler takes it for.
SetupKinds == {"Setup", "BlData"}
CmceKinds == SetupKinds \cup
    {"Info", "TxGranted", "TxGrantedOther", "TxOther", "TxCeased", "TxInterrupt"}
Uplink(ca) == ca # None /\ ca.dir \in {"Ul", "Both"}

Ordinary == 0
ChannelAllocation == 1
CmceChannelAllocation == 2
ListenerFloorGrant == 3
PositiveFloorGrant == 4
FloorWithdraw == 5

StealingSchedPriority(e) ==
    LET kind == e.sdu.kind   ca == e.pdu.ca
    IN  CASE kind \in {"TxInterrupt", "TxCeased"} -> FloorWithdraw
          [] kind = "TxGranted" -> IF ca = None \/ Uplink(ca) THEN PositiveFloorGrant ELSE Ordinary
          [] kind = "TxGrantedOther" -> ListenerFloorGrant
          [] kind = "TxOther" -> Ordinary
          [] OTHER -> IF ca = None THEN Ordinary
                      ELSE IF kind \in CmceKinds THEN CmceChannelAllocation ELSE ChannelAllocation

HasChannelAllocation(e) == \/ e.k = "Res" /\ e.pdu.ca # None
                           \/ e.k = "Frag" /\ CarriesChannelAllocation(e.f)
HasIntegratedGrantOrAck(e) == e.k = "Res" /\ (e.pdu.grant # None \/ e.pdu.ra)
IsSetupCallControl(e) == e.k = "Res" /\ e.sdu.kind \in SetupKinds

\* Ordinary < CmceCallControl < GrantOrAck < ChannelAllocation < the floor messages.
BackpressurePriority(e) ==
    CASE e.k = "Steal" -> <<0, 3, 3, 4, 5, 6>>[StealingSchedPriority(e) + 1]
      [] HasChannelAllocation(e) -> 3
      [] HasIntegratedGrantOrAck(e) \/ e.k \in {"Ack", "Pending"} -> 2
      [] IsSetupCallControl(e) -> 1
      [] OTHER -> 0

\* enforce_sched_queue_cap: the oldest element of the least priority goes first.
EnforceCap(s, i, cap) ==
    LET Victim(q) == CHOOSE n \in DOMAIN q : \A m \in DOMAIN q :
                        \/ BackpressurePriority(q[n]) < BackpressurePriority(q[m])
                        \/ BackpressurePriority(q[n]) = BackpressurePriority(q[m]) /\ n <= m
        DropOne(r) == [Discard(r, r.q[i][Victim(r.q[i])]) EXCEPT !.q[i] = RemoveAt(@, Victim(@))]
        cut[n \in 0 .. Len(s.q[i])] ==
            IF n = 0 THEN s ELSE IF Len(cut[n - 1].q[i]) <= cap THEN cut[n - 1] ELSE DropOne(cut[n - 1])
    IN  IF Len(s.q[i]) <= cap THEN s ELSE cut[Len(s.q[i])]

------------------------------------------------------------------------------
(* Queueing.  A floor withdrawal replaces an older one for the same call   *)
(* and address; a random-access acknowledgement rides on a resource to the *)
(* same terminal; debts to one terminal are merged.                        *)
WithdrawKey(e) == IF e.k = "Steal" /\ e.sdu.kind \in {"TxCeased", "TxInterrupt"}
                  THEN <<e.pdu.addr, e.sdu.call, e.sdu.kind>> ELSE None
CoalesceFloorWithdraw(s, i, e) ==
    IF WithdrawKey(e) = None THEN s ELSE Purge(s, i, LAMBDA o : WithdrawKey(o) = WithdrawKey(e))

Absorbs(o, e) ==
    \/ e.k = "Ack" /\ o.k = "Res" /\ o.pdu.addr = e.addr
    \/ e.k = "Ack" /\ o.k = "Ack" /\ o.addr = e.addr
    \/ e.k = "Pending" /\ o.k = "Pending" /\ o.addr = e.addr /\ o.origin = e.origin
Absorbed(o, e) == CASE e.k = "Pending" -> [o EXCEPT !.debt = CoalesceMax(@, e.debt)]
                    [] o.k = "Res" -> [o EXCEPT !.pdu.ra = TRUE]
                    [] OTHER -> o
\* coalesce_ready_grant_or_ack looks from the back of the queue.
CoalesceReady(q, e) ==
    LET taking == {n \in DOMAIN q : Absorbs(q[n], e)}
    IN  IF taking = {} THEN Append(q, e)
        ELSE ReplaceAt(q, Max(taking), Absorbed(q[Max(taking)], e))

PushWithCap(s, i, e, cap) ==
    LET c == CoalesceFloorWithdraw(s, i, e)
    IN  EnforceCap([c EXCEPT !.q[i] = CoalesceReady(@, e)], i, cap)
Push(s, i, e) == PushWithCap(s, i, e, MAX_DLSCHED_ELEMS)

------------------------------------------------------------------------------
(* Who has to hear it, and who can.  A group message is repeated until     *)
(* every sleeping member has had a turn: gs is                             *)
(* [targets, covered, batch, rep, t210, pdu, sdu].                         *)
IsIssi(addr) == addr \in Issis
IsGssi(addr) == addr \in Gssis

Listens(s, issi, ts) == issi \in DOMAIN s.energy => ListensAt(s.energy[issi], ts)
GroupTargets(s, g) == IF g = AllOnes THEN s.registered ELSE s.members[g]
EconomyTargets(s, g) ==
    {m \in GroupTargets(s, g) : m \in DOMAIN s.energy /\ IsEnergyEconomy(s.energy[m])}

IsComplete(gs) == gs.targets \subseteq gs.covered
\* Mutant: the first batch is taken for the last.
IsFinalBatchAlways(gs) == gs.batch # {}
IsFinalBatch(gs) == gs.targets \subseteq gs.covered \cup gs.batch
UncoveredListeners(s, gs, ts) == {m \in gs.targets \ gs.covered : Listens(s, m, ts)}
RetainTargets(gs, current) ==
    [gs EXCEPT !.targets = @ \cap current, !.covered = @ \cap current, !.batch = @ \cap current]
RetainCurrent(s, gs, g) == RetainTargets(gs, EconomyTargets(s, g))
BeginBatchIfNeeded(s, gs, ts) ==
    IF gs.batch = {} THEN [gs EXCEPT !.batch = UncoveredListeners(s, gs, ts)] ELSE gs
MarkBatchCovered(gs) == [gs EXCEPT !.covered = @ \cup gs.batch, !.batch = {}]

GroupStateFor(s, pdu, sdu, rep) ==
    IF ~ IsGssi(pdu.addr) \/ EconomyTargets(s, pdu.addr) = {} THEN None
    ELSE [targets |-> EconomyTargets(s, pdu.addr), covered |-> {}, batch |-> {}, rep |-> rep,
          t210 |-> pdu.addr # AllOnes, pdu |-> pdu, sdu |-> sdu]

GroupReady(s, gs, g, ts) ==
    IF gs # None
    THEN IF gs.batch # {} THEN \A m \in gs.batch : Listens(s, m, ts)
         ELSE UncoveredListeners(s, gs, ts) # {}
    ELSE GroupTargets(s, g) = {} \/ \E m \in GroupTargets(s, g) : Listens(s, m, ts)

ReadyForTx(s, e, ts) ==
    LET addr == ElemAddr(e)
        gs == IF e.k \in {"Res", "Frag", "Steal"} THEN e.gs ELSE None
    IN  CASE IsIssi(addr) -> Listens(s, addr, ts)
          [] IsGssi(addr) -> GroupReady(s, gs, addr, ts)
          [] OTHER -> TRUE

\* prune_completed_stale_group_states_for_slot: members that left or stopped
\* saving energy are forgotten; what has then reached everyone is done.
PruneGroupStates(s, i, ts) ==
    LET Current(e) == IF e.k \in {"Res", "Frag", "Steal"} /\ e.gs # None
                      THEN [e EXCEPT !.gs = RetainCurrent(s, @, ElemAddr(e))] ELSE e
        Done(e) == e.k \in {"Res", "Frag", "Steal"} /\ e.gs # None /\ IsComplete(e.gs)
        q == [n \in DOMAIN s.q[i] |-> Current(s.q[i][n])]
        done == SelectSeq(q, Done)
        marked[n \in 0 .. Len(done)] ==
            IF n = 0 THEN s
            ELSE LET r == MarkTransmitted(marked[n - 1], done[n].gs.rep)
                 IN  IF done[n].k = "Frag" THEN MarkDiscarded(r, done[n].f.rep) ELSE r
    IN  [marked[Len(done)] EXCEPT !.q[i] = SelectSeq(q, LAMBDA e : ~ Done(e))]

\* Signalling to a terminal keeps it awake for T210.
Awake(s, who, ts) ==
    [s EXCEPT !.energy = [m \in DOMAIN @ |->
        IF m \in who THEN MarkAwakeFromSignallingActivity(@[m], ts) ELSE @[m]]]
MarkAddrActivity(s, addr, ts) == IF IsIssi(addr) THEN Awake(s, {addr}, ts) ELSE s
MarkGroupActivity(s, gs, ts) == IF gs # None /\ gs.t210 THEN Awake(s, gs.batch, ts) ELSE s
MarkStealingActivity(s, addr, gs, ts) ==
    CASE gs # None -> MarkGroupActivity(s, gs, ts)
      [] gs = None /\ IsGssi(addr) /\ addr # AllOnes ->
           Awake(s, {m \in s.members[addr] : Listens(s, m, ts)}, ts)
      [] OTHER -> MarkAddrActivity(s, addr, ts)

------------------------------------------------------------------------------
(* Withdrawing what is queued: one request's elements, or the repeats of a *)
(* group message.                                                          *)
MatchesReporter(e, rep) ==
    /\ e.k \in {"Res", "Frag", "Steal"}
    /\ rep \in {GroupReporter(e.gs), IF e.k = "Frag" THEN e.f.rep ELSE e.rep}
Queued(s, rep) == \E i \in 1..5 : \E n \in DOMAIN s.q[i] : MatchesReporter(s.q[i][n], rep)
CancelByReporter(s, rep) ==
    IF Queued(s, rep)
    THEN MarkDiscarded(PurgeAll(s, LAMBDA e : MatchesReporter(e, rep)), rep) ELSE s

IsGroupRepeatOf(e, g) == e.k \in {"Res", "Frag", "Steal"} /\ e.gs # None /\ ElemAddr(e) = g
DropQueuedGssiRepeats(s, g) ==
    IF ~ IsGssi(g) THEN s
    ELSE LET Gone(e) == IsGroupRepeatOf(e, g)
             Both(r, e) == MarkDiscarded(Discard(r, e), GroupReporter(e.gs))
             all == SelectSeq(s.q[5] \o s.q[1] \o s.q[2] \o s.q[3] \o s.q[4], Gone)
             marked[n \in 0 .. Len(all)] == IF n = 0 THEN s ELSE Both(marked[n - 1], all[n])
         IN  [marked[Len(all)] EXCEPT !.q = [i \in 1..5 |-> SelectSeq(@[i], LAMBDA e : ~ Gone(e))]]
=============================================================================

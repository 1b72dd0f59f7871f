------------------------------ MODULE Circuits ------------------------------
(***************************************************************************)
(* Traffic-channel bookkeeping of the base station.  Four parties keep a   *)
(* picture of the same traffic timeslots:                                  *)
(*   - the central allocator (tetra-core/src/timeslot_alloc.rs), shared by *)
(*     call control and packet data;                                       *)
(*   - CMCE's circuit manager (cmce/components/circuit_mgr.rs) and the     *)
(*     call tables of cmce/subentities/cc_bs;                              *)
(*   - the UMAC's circuits, opened and closed by messages from CMCE;       *)
(*   - the UMAC scheduler's packet-data (PDCH) assignment on one slot.     *)
(* The actions are the set-up, connect, release and expiry paths of call   *)
(* control and the packet-data paths of the scheduler; floor control       *)
(* inside a call is in GroupCall.                                          *)
(***************************************************************************)
EXTENDS Naturals, Sequences, FiniteSets

CONSTANTS
    Slots,       \* traffic timeslots (2..4 in the code)
    PdSlot,      \* PACKET_DATA_ASSIGNED_SCCH_TS
    MaxCallId,   \* MAX_CALL_IDENTIFIER (0x3FFF in the code)
    MaxUsage,    \* usage numbers are 4..MaxUsage (63 in the code)
    Terminals,   \* subscribers of packet data
    MaxBacklog,  \* bound on the Open/Close messages queued for one slot
    None         \* no call, no circuit, no assignment

CallIds == 1..MaxCallId
Usages == 4..MaxUsage
Circuit == [call : CallIds, usage : Usages, duplex : BOOLEAN]
Call == [slots : SUBSET Slots,
         phase : {"setup", "active", "releasing"},
         pre : SUBSET Slots]

ASSUME SlotsAssumption == Slots \subseteq Nat /\ PdSlot \in Slots
ASSUME BoundsAssumption == /\ MaxCallId \in Nat /\ MaxCallId >= 4
                           /\ MaxUsage \in Nat /\ MaxUsage >= 4
                           /\ MaxBacklog \in Nat
ASSUME NoneAssumption == /\ None \notin Slots
                         /\ None \notin Circuit
                         /\ None \notin Call
                         /\ None \notin Terminals

VARIABLES
    owner,      \* TimeslotAllocator.owners
    circuit,    \* CircuitMgr.dl: every circuit CMCE allocates is Direction::Both
    calls,      \* active_calls, individual_calls and their pending releases
    nextCall,   \* CircuitMgr.next_call_identifier
    nextUsage,  \* CircuitMgr.next_usage_number
    ctl,        \* Open/Close messages from CMCE in the router's queue, per slot
    umac,       \* slots with a circuit open at the UMAC
    pd          \* BsChannelScheduler.packet_data_assignments[PdSlot]

cmceVars == <<calls, circuit, nextCall, nextUsage>>
vars == <<owner, circuit, calls, nextCall, nextUsage, ctl, umac, pd>>

TypeOK ==
    /\ owner \in [Slots -> {"free", "Cmce", "PacketData"}]
    /\ circuit \in [Slots -> Circuit \cup {None}]
    /\ calls \in [CallIds -> Call \cup {None}]
    /\ nextCall \in CallIds
    /\ nextUsage \in Usages
    /\ ctl \in [Slots -> Seq({"open", "close"})]
    /\ umac \subseteq Slots
    /\ pd \in Terminals \cup {None}

Init ==
    /\ owner = [s \in Slots |-> "free"]
    /\ circuit = [s \in Slots |-> None]
    /\ calls = [c \in CallIds |-> None]
    /\ nextCall = 4
    /\ nextUsage = 4
    /\ ctl = [s \in Slots |-> <<>>]
    /\ umac = {}
    /\ pd = None

-----------------------------------------------------------------------------
(* Identifiers *)

\* A cyclic successor, as call_identifier_after and get_next_usage_number.
After(n, first, last) == IF n >= last THEN first ELSE n + 1

\* occupied_call_ids: a call the tables still know, or one with a circuit left.
Occupied ==
    {c \in CallIds : calls[c] # None}
        \cup {circuit[s].call : s \in {t \in Slots : circuit[t] # None}}

\* The order in which get_next_call_id_avoiding tries the identifiers.
Distance(c) == (c + MaxCallId - nextCall) % MaxCallId

NextCallIds == {c \in CallIds \ Occupied :
                  \A d \in CallIds \ Occupied : Distance(c) <= Distance(d)}

-----------------------------------------------------------------------------
(* Slots: allocate_any_preempting_excluding and the retry loop round it *)

Usable(own) == {s \in Slots : own[s] \in {"free", "PacketData"}}

\* Fault: slots are tried in order, whether packet data holds them or not.
TriedInOrder(own, s, t) == s < t

\* A free slot is tried before one that packet data must give up.
TriedBefore(own, s, t) ==
    \/ own[s] = "free" /\ own[t] = "PacketData"
    \/ own[s] = own[t] /\ s < t

\* The slots insert_circuit accepts, and the first of them in the order above.
Vacant(own, cir) == {s \in Usable(own) : cir[s] = None}
Picks(own, cir) == {s \in Vacant(own, cir) :
                      \A t \in Vacant(own, cir) \ {s} : TriedBefore(own, s, t)}

\* The allocator once s is taken (or, for s = None, nothing could be): a slot
\* tried in vain was taken and released, which loses a packet-data owner.
Allocated(own, cir, s) ==
    [t \in Slots |->
        IF t = s THEN "Cmce"
        ELSE IF /\ t \in Usable(own) /\ cir[t] # None
                /\ s \in Slots => TriedBefore(own, t, s)
             THEN "free" ELSE own[t]]

\* Fault: the allocator is not told of a release.
ReleasedNever(own, S) == own

\* release(Cmce, s): an error, and no change, unless CMCE owns the slot.
Released(own, S) ==
    [t \in Slots |-> IF t \in S /\ own[t] = "Cmce" THEN "free" ELSE own[t]]

-----------------------------------------------------------------------------
(* Call set-up *)

NewCircuit(c, u, d) == [call |-> c, usage |-> u, duplex |-> d]
NewCall(S, ph) == [slots |-> S, phase |-> ph, pre |-> {}]

\* The messages CMCE adds for the slots of S.
Sent(S, m) == [s \in Slots |-> IF s \in S THEN Append(ctl[s], m) ELSE ctl[s]]
Room(S) == \A s \in S : Len(ctl[s]) < MaxBacklog

\* A call on one bearer: a group call (local or network), which opens the UMAC
\* circuit at once, or an individual one, which opens it when it connects (d:
\* duplex; a bridged or service call has a single bearer even so).
SetupCall(ph, d) ==
    /\ \E c \in NextCallIds :
        /\ nextCall' = After(c, 1, MaxCallId)
        /\ nextUsage' = After(nextUsage, 4, MaxUsage)
        /\ \E s \in Picks(owner, circuit) :
            /\ Room({s})
            /\ owner' = Allocated(owner, circuit, s)
            /\ circuit' = [circuit EXCEPT ![s] = NewCircuit(c, nextUsage, d)]
            /\ calls' = [calls EXCEPT ![c] = NewCall({s}, ph)]
            /\ ctl' = IF ph = "active" THEN Sent({s}, "open") ELSE ctl
    /\ UNCHANGED <<umac, pd>>

\* No slot is left: the set-up is rejected, its identifiers stay consumed.
SetupCongested ==
    /\ Picks(owner, circuit) = {}
    /\ \E c \in NextCallIds : nextCall' = After(c, 1, MaxCallId)
    /\ nextUsage' = After(nextUsage, 4, MaxUsage)
    /\ owner' = Allocated(owner, circuit, None)
    /\ UNCHANGED <<circuit, calls, ctl, umac, pd>>

\* A local duplex call takes two slots or none: capacity is checked before the
\* first allocation, and the first bearer is given back if the second fails.
SetupDuplex ==
    /\ \E s1, s2 \in Usable(owner) : s1 # s2
    /\ \E c \in NextCallIds, s \in Picks(owner, circuit) :
        LET own1 == Allocated(owner, circuit, s)
            cir1 == [circuit EXCEPT ![s] = NewCircuit(c, nextUsage, TRUE)]
            usage1 == After(nextUsage, 4, MaxUsage)
            second == Picks(own1, cir1)
        IN /\ nextCall' = After(c, 1, MaxCallId)
           /\ nextUsage' = After(usage1, 4, MaxUsage)
           /\ IF second = {}
              THEN /\ owner' = Released(Allocated(own1, cir1, None), {s})
                   /\ UNCHANGED <<circuit, calls>>
              ELSE \E t \in second :
                   /\ owner' = Allocated(own1, cir1, t)
                   /\ circuit' = [cir1 EXCEPT ![t] = NewCircuit(c, usage1, TRUE)]
                   /\ calls' = [calls EXCEPT ![c] = NewCall({s, t}, "setup")]
    /\ UNCHANGED <<ctl, umac, pd>>

\* Fault: the call connects without opening its bearers.
ConnectSilently(c) ==
    /\ calls[c] # None /\ calls[c].phase = "setup"
    /\ calls' = [calls EXCEPT ![c].phase = "active"]
    /\ UNCHANGED <<owner, circuit, nextCall, nextUsage, ctl, umac, pd>>

\* The individual call is answered: its bearers are opened at the UMAC.
Connect(c) ==
    /\ calls[c] # None /\ calls[c].phase = "setup"
    /\ Room(calls[c].slots)
    /\ calls' = [calls EXCEPT ![c].phase = "active"]
    /\ ctl' = Sent(calls[c].slots, "open")
    /\ UNCHANGED <<owner, circuit, nextCall, nextUsage, umac, pd>>

-----------------------------------------------------------------------------
(* Release *)

\* begin_group_release / begin_individual_release of a call on assigned
\* channels: D-RELEASE is on its way, the bearer stays.
BeginRelease(c) ==
    /\ calls[c] # None /\ calls[c].phase = "active"
    /\ calls' = [calls EXCEPT ![c].phase = "releasing"]
    /\ UNCHANGED <<owner, circuit, nextCall, nextUsage, ctl, umac, pd>>

\* The last part of both releases: close each circuit that is carried by the
\* pending release or still in the table, and give the slots back.
Cleanup(c) ==
    LET S == calls[c].slots
        pre == calls[c].pre
    IN /\ Room(S)
       /\ ctl' = Sent({s \in S : s \in pre \/ circuit[s] # None}, "close")
       /\ circuit' = [s \in Slots |-> IF s \in S \ pre THEN None ELSE circuit[s]]
       /\ owner' = Released(owner, S)
       /\ calls' = [calls EXCEPT ![c] = None]
       /\ UNCHANGED <<nextCall, nextUsage, umac, pd>>

\* D-RELEASE was transmitted, or the guard time is over.
CompleteRelease(c) == calls[c] # None /\ calls[c].phase = "releasing" /\ Cleanup(c)

\* An individual call that was never assigned a channel is released at once.
ReleaseSetup(c) == calls[c] # None /\ calls[c].phase = "setup" /\ Cleanup(c)

\* Fault: the expired circuit of an active call starts no release.
ExpireUnnoticed(s) ==
    /\ circuit[s] # None /\ ~circuit[s].duplex
    /\ circuit' = [circuit EXCEPT ![s] = None]
    /\ UNCHANGED <<owner, calls, nextCall, nextUsage, ctl, umac, pd>>

\* CircuitMgr closes a simplex circuit after six minutes and hands it to CMCE,
\* which drops it if the release is already pending, carries it through a new
\* release, or closes it at once if no call on an assigned channel is left.
Expire(s) ==
    /\ circuit[s] # None /\ ~circuit[s].duplex
    /\ ctl[s] = <<>>   \* six minutes on, what was queued at set-up is delivered
    /\ circuit' = [circuit EXCEPT ![s] = None]
    /\ LET c == circuit[s].call
           phase == IF calls[c] = None THEN "gone" ELSE calls[c].phase
       IN \/ /\ phase = "releasing"
             /\ UNCHANGED <<calls, ctl, owner>>
          \/ /\ phase = "active"
             /\ calls' = [calls EXCEPT ![c].phase = "releasing", ![c].pre = {s}]
             /\ UNCHANGED <<ctl, owner>>
          \/ /\ phase \in {"setup", "gone"}
             /\ ctl' = Sent({s}, "close")
             /\ owner' = Released(owner, {s})
             /\ calls' = [calls EXCEPT ![c] = None]
    /\ UNCHANGED <<nextCall, nextUsage, umac, pd>>

-----------------------------------------------------------------------------
(* The UMAC *)

\* rx_control_circuit_open / _close.  Opening a voice circuit drops a packet-
\* data assignment on the slot without telling the allocator.
Deliver(s) ==
    /\ ctl[s] # <<>>
    /\ ctl' = [ctl EXCEPT ![s] = Tail(@)]
    /\ \/ /\ Head(ctl[s]) = "open"
          /\ umac' = umac \cup {s}
          /\ pd' = IF s = PdSlot THEN None ELSE pd
       \/ /\ Head(ctl[s]) = "close"
          /\ umac' = umac \ {s}
          /\ UNCHANGED pd
    /\ UNCHANGED <<owner, circuit, calls, nextCall, nextUsage>>

\* The scheduler runs at the end of a tick, when the router has emptied its
\* queue.
Drained == \A s \in Slots : ctl[s] = <<>>

PdReleased == [owner EXCEPT ![PdSlot] = IF @ = "PacketData" THEN "free" ELSE @]

PdAvailable(a) == /\ PdSlot \notin umac
                  /\ owner[PdSlot] # "Cmce"
                  /\ pd \in {None, a}

\* A Replace or Additional channel allocation for a went out: it takes the
\* packet-data slot, or a gives up the assignment it can no longer keep.
PdAssign(a) ==
    /\ Drained
    /\ \/ /\ PdAvailable(a)
          /\ pd' = a
          /\ owner' = [owner EXCEPT ![PdSlot] = "PacketData"]
       \/ /\ ~PdAvailable(a) /\ pd = a
          /\ pd' = None
          /\ owner' = PdReleased
    /\ UNCHANGED <<cmceVars, ctl, umac>>

PdQuit(a) ==
    /\ Drained /\ pd = a
    /\ pd' = None
    /\ owner' = PdReleased
    /\ UNCHANGED <<cmceVars, ctl, umac>>

\* Fault: the assignment is not compared with the allocator.
PdTickExpiryOnly(expired) ==
    /\ Drained /\ pd # None /\ expired
    /\ pd' = None
    /\ owner' = PdReleased
    /\ UNCHANGED <<cmceVars, ctl, umac>>

\* At every slot the assignment is dropped if the slot was taken from it
\* (sync_packet_data_assignments_with_allocator), or if its time is over.
PdTick(expired) ==
    /\ Drained /\ pd # None
    /\ PdSlot \in umac \/ owner[PdSlot] # "PacketData" \/ expired
    /\ pd' = None
    /\ owner' = PdReleased
    /\ UNCHANGED <<cmceVars, ctl, umac>>

-----------------------------------------------------------------------------
CmceNext ==
    \/ \E ph \in {"active", "setup"}, d \in BOOLEAN : SetupCall(ph, d)
    \/ SetupCongested
    \/ SetupDuplex
    \/ \E c \in CallIds : \/ Connect(c)
                         \/ BeginRelease(c)
                         \/ CompleteRelease(c)
                         \/ ReleaseSetup(c)
    \/ \E s \in Slots : Expire(s)

UmacNext ==
    \/ \E s \in Slots : Deliver(s)
    \/ \E a \in Terminals : PdAssign(a) \/ PdQuit(a)
    \/ \E expired \in BOOLEAN : PdTick(expired)

Next == CmceNext \/ UmacNext

Spec == Init /\ [][Next]_vars

\* D-RELEASE is transmitted or its guard time runs out.  The router empties its
\* whole queue in every tick, and the UMAC then runs its scheduler.
Fairness == /\ \A c \in CallIds : WF_vars(CompleteRelease(c))
            /\ []<>Drained
            /\ SF_vars(PdTick(FALSE))

FairSpec == Spec /\ Fairness

-----------------------------------------------------------------------------
(* Properties *)

\* The allocator and the call tables agree: CMCE owns a slot exactly while one
\* call, and only one, has it (no leak after a failed set-up, a release or an
\* expiry, and no slot given to two calls).
SlotsBelongToCalls ==
    /\ \A s \in Slots : owner[s] = "Cmce" =>
          \E c \in CallIds : calls[c] # None /\ s \in calls[c].slots
    /\ \A c \in CallIds : calls[c] # None =>
          /\ \A s \in calls[c].slots : owner[s] = "Cmce"
          /\ \A d \in CallIds \ {c} :
                calls[d] # None => calls[c].slots \cap calls[d].slots = {}

\* The circuit table and the call tables agree: a circuit belongs to the call
\* named in it, a simplex one is the call's only bearer, and a call that is not
\* being released has all its circuits, so the expiry timer of circuit_mgr.rs
\* never takes a bearer from a live call without starting its release.
CircuitsBelongToCalls ==
    /\ \A s \in Slots : circuit[s] # None =>
          LET call == calls[circuit[s].call]
          IN /\ call # None /\ s \in call.slots \ call.pre
             /\ circuit[s].duplex \/ call.slots = {s}
    /\ \A c \in CallIds : calls[c] # None =>
          /\ calls[c].pre \subseteq calls[c].slots
          /\ calls[c].phase # "releasing" =>
               /\ calls[c].pre = {}
               /\ \A s \in calls[c].slots :
                     circuit[s] # None /\ circuit[s].call = c

\* What the UMAC's circuit on s will be once the queue is drained.
UmacSettles(s) == IF ctl[s] = <<>> THEN s \in umac ELSE ctl[s][Len(ctl[s])] = "open"

\* A connected call has its bearers open at the UMAC, whatever Open and Close
\* messages of earlier calls on the slot are still queued.
BearersOpen ==
    \A c \in CallIds : calls[c] # None /\ calls[c].phase = "active" =>
        \A s \in calls[c].slots : UmacSettles(s)

\* Packet data never keeps the slot reserved without an assignment that will
\* expire: preemption by voice clears the assignment without the allocator.
PacketDataReservationHeld == owner[PdSlot] = "PacketData" => pd # None

\* Voice takes the packet-data slot only when it takes the last free slot.
PacketDataPreemptedLast ==
    [][\A s \in Slots : owner[s] = "PacketData" /\ owner'[s] = "Cmce" =>
            \A t \in Slots : owner'[t] # "free"]_vars

\* A call identifier stays with its call from set-up to the end of its release,
\* across the wrap of the identifier space.
CallIdsStable ==
    [][\A c \in CallIds : calls[c] # None /\ calls'[c] # None =>
            calls'[c].slots = calls[c].slots]_vars

\* A release that has begun ends.
ReleasesEnd ==
    \A c \in CallIds :
        (calls[c] # None /\ calls[c].phase = "releasing") ~> (calls[c] = None)

\* An assignment whose slot was taken by voice is dropped, unless the slot
\* comes back first.
PreemptedAssignmentDropped ==
    (pd # None /\ owner[PdSlot] = "Cmce") ~> (pd = None \/ owner[PdSlot] # "Cmce")

\* A release ends, and so does an assignment of packet data whose slot voice has taken.
Settles ==
    /\ ReleasesEnd
    /\ PreemptedAssignmentDropped
=============================================================================

--------------------------- MODULE CircuitsProofs ---------------------------
(* Proofs about Circuits for every set of slots and every identifier space. *)
EXTENDS Circuits, SequenceTheorems, TLAPS

\* The inductive invariant: neither table agreement is inductive alone, since
\* what a release gives back is found through the circuit table and what an
\* allocation may take is found through the allocator.
IInv == TypeOK /\ SlotsBelongToCalls /\ CircuitsBelongToCalls

USE SlotsAssumption, BoundsAssumption, NoneAssumption

\* The identifiers stay in their cyclic ranges.
LEMMA AfterType ==
    /\ \A n \in CallIds : After(n, 1, MaxCallId) \in CallIds
    /\ \A n \in Usages : After(n, 4, MaxUsage) \in Usages
BY DEF After, CallIds, Usages

\* Under the invariant an allocation takes a slot that is not CMCE's, and
\* touches nothing else: the retry loop finds every usable slot vacant.
LEMMA AllocatedExact ==
    ASSUME NEW own \in [Slots -> {"free", "Cmce", "PacketData"}],
           NEW cir \in [Slots -> Circuit \cup {None}],
           \A t \in Slots : cir[t] # None => own[t] = "Cmce",
           NEW s \in Slots \cup {None}
    PROVE  Allocated(own, cir, s) = [t \in Slots |-> IF t = s THEN "Cmce" ELSE own[t]]
BY DEF Allocated, Usable

\* The inductive invariant holds initially.
LEMMA InitInv == Init => IInv
<1> SUFFICES ASSUME Init PROVE IInv
  OBVIOUS
<1>1. TypeOK
  BY DEF Init, TypeOK, CallIds, Usages
<1>2. SlotsBelongToCalls
  BY DEF Init, SlotsBelongToCalls, CallIds
<1>3. CircuitsBelongToCalls
  BY DEF Init, CircuitsBelongToCalls, CallIds
<1> QED
  BY <1>1, <1>2, <1>3 DEF IInv

\* Facts of the invariant that every action proof uses.
LEMMA InvFacts ==
    ASSUME IInv
    PROVE  /\ \A s \in Slots : circuit[s] # None =>
                 /\ owner[s] = "Cmce"
                 /\ circuit[s] \in Circuit
                 /\ circuit[s].call \in CallIds
           /\ \A c \in CallIds : calls[c] # None =>
                 /\ calls[c] \in Call
                 /\ calls[c].slots \subseteq Slots
                 /\ calls[c].pre \subseteq calls[c].slots
BY DEF IInv, TypeOK, SlotsBelongToCalls, CircuitsBelongToCalls, Circuit, Call

\* The queues to the UMAC keep their type when CMCE sends to some slots.
LEMMA SentType ==
    ASSUME TypeOK, NEW S, NEW m \in {"open", "close"}
    PROVE  Sent(S, m) \in [Slots -> Seq({"open", "close"})]
BY DEF Sent, TypeOK

\* The allocator keeps its type when slots are released.
LEMMA ReleasedType ==
    ASSUME NEW own \in [Slots -> {"free", "Cmce", "PacketData"}], NEW S
    PROVE  Released(own, S) \in [Slots -> {"free", "Cmce", "PacketData"}]
BY DEF Released

\* AllocatedExact, for a slot the retry loop picks in the current state.
LEMMA AllocatedNow ==
    ASSUME IInv, NEW s \in Slots \cup {None}
    PROVE  Allocated(owner, circuit, s)
             = [t \in Slots |-> IF t = s THEN "Cmce" ELSE owner[t]]
<1>1. \A t \in Slots : circuit[t] # None => owner[t] = "Cmce"
  BY InvFacts
<1>2. /\ owner \in [Slots -> {"free", "Cmce", "PacketData"}]
      /\ circuit \in [Slots -> Circuit \cup {None}]
  BY DEF IInv, TypeOK
<1> QED
  BY <1>1, <1>2, AllocatedExact

\* A new call c on slots S that CMCE did not own, with a circuit on each.
LEMMA AddCall ==
    ASSUME IInv, NEW c \in CallIds, NEW S \in SUBSET Slots,
           NEW ph \in {"active", "setup"},
           c \notin Occupied,
           \A s \in S : owner[s] # "Cmce",
           owner' = [t \in Slots |-> IF t \in S THEN "Cmce" ELSE owner[t]],
           calls' = [calls EXCEPT ![c] = NewCall(S, ph)],
           \A s \in S : circuit'[s] # None /\ circuit'[s].call = c,
           \A s \in S : circuit'[s].duplex = TRUE \/ S = {s},
           \A t \in Slots \ S : circuit'[t] = circuit[t]
    PROVE  SlotsBelongToCalls' /\ CircuitsBelongToCalls'
<1>1. calls[c] = None /\ \A t \in Slots : circuit[t] # None => circuit[t].call # c
  BY DEF Occupied
<1>2. /\ calls'[c] # None
      /\ calls'[c].slots = S /\ calls'[c].pre = {} /\ calls'[c].phase = ph
      /\ \A d \in CallIds \ {c} : calls'[d] = calls[d]
  <2>1. NewCall(S, ph) \in Call
    BY DEF NewCall, Call
  <2> QED
    BY <2>1, Zenon DEF IInv, TypeOK, NewCall
<1>3. ASSUME NEW d \in CallIds, calls[d] # None
      PROVE  calls[d].slots \cap S = {}
  <2>1. \A s \in calls[d].slots : owner[s] = "Cmce"
    BY <1>3 DEF IInv, SlotsBelongToCalls
  <2> QED
    BY <2>1, Zenon
<1>4. \A t \in Slots : owner'[t] = "Cmce" =>
        \E d \in CallIds : calls'[d] # None /\ t \in calls'[d].slots
  <2> SUFFICES ASSUME NEW t \in Slots, owner'[t] = "Cmce", t \notin S
               PROVE  \E d \in CallIds : calls'[d] # None /\ t \in calls'[d].slots
    BY <1>2
  <2>1. PICK d \in CallIds : calls[d] # None /\ t \in calls[d].slots
    BY DEF IInv, SlotsBelongToCalls
  <2> QED
    BY <2>1, <1>1, <1>2
<1>5. ASSUME NEW d \in CallIds, calls'[d] # None
      PROVE  /\ \A t \in calls'[d].slots : owner'[t] = "Cmce"
             /\ \A e \in CallIds \ {d} :
                   calls'[e] # None => calls'[d].slots \cap calls'[e].slots = {}
  <2>1. CASE d = c
    BY <2>1, <1>2, <1>3
  <2>2. CASE d # c
    <3>1. /\ calls'[d] = calls[d] /\ calls[d].slots \subseteq Slots
          /\ \A t \in calls[d].slots : owner[t] = "Cmce"
          /\ \A e \in CallIds \ {d} :
                calls[e] # None => calls[d].slots \cap calls[e].slots = {}
      BY <2>2, <1>2, <1>5, InvFacts DEF IInv, SlotsBelongToCalls
    <3>2. \A t \in calls'[d].slots : owner'[t] = "Cmce"
      BY <3>1
    <3>3. \A e \in CallIds \ {d} :
             calls'[e] # None => calls'[d].slots \cap calls'[e].slots = {}
      BY <3>1, <2>2, <1>2, <1>3, <1>5
    <3> QED
      BY <3>2, <3>3
  <2> QED
    BY <2>1, <2>2
<1>6. SlotsBelongToCalls'
  BY <1>4, <1>5 DEF SlotsBelongToCalls
<1>7. ASSUME NEW t \in Slots, circuit'[t] # None
      PROVE  /\ calls'[circuit'[t].call] # None
             /\ t \in calls'[circuit'[t].call].slots \ calls'[circuit'[t].call].pre
             /\ circuit'[t].duplex \/ calls'[circuit'[t].call].slots = {t}
  <2>1. CASE t \in S
    BY <2>1, <1>2, Zenon
  <2>2. CASE t \notin S
    BY <2>2, <1>1, <1>2, <1>7, InvFacts DEF IInv, CircuitsBelongToCalls
  <2> QED
    BY <2>1, <2>2
<1>8. ASSUME NEW d \in CallIds, calls'[d] # None
      PROVE  /\ calls'[d].pre \subseteq calls'[d].slots
             /\ calls'[d].phase # "releasing" =>
                  /\ calls'[d].pre = {}
                  /\ \A t \in calls'[d].slots :
                        circuit'[t] # None /\ circuit'[t].call = d
  <2>1. CASE d = c
    BY <2>1, <1>2, Zenon
  <2>2. CASE d # c
    <3>1. /\ calls'[d] = calls[d] /\ calls[d] # None
          /\ calls[d].slots \subseteq Slots \ S
      BY <2>2, <1>2, <1>3, <1>8, InvFacts
    <3>2. /\ calls[d].pre \subseteq calls[d].slots
          /\ calls[d].phase # "releasing" =>
               /\ calls[d].pre = {}
               /\ \A t \in calls[d].slots : circuit[t] # None /\ circuit[t].call = d
      BY <3>1 DEF IInv, CircuitsBelongToCalls
    <3> QED
      BY <3>1, <3>2, Zenon
  <2> QED
    BY <2>1, <2>2
<1>9. CircuitsBelongToCalls'
  BY <1>7, <1>8, Zenon DEF CircuitsBelongToCalls
<1> QED
  BY <1>6, <1>9

\* Call c and its slots S are given back.  A circuit may stay in the table only
\* on a slot of another call.
LEMMA RemoveCall ==
    ASSUME IInv, NEW c \in CallIds, calls[c] # None,
           owner' = Released(owner, calls[c].slots),
           calls' = [calls EXCEPT ![c] = None],
           \A s \in calls[c].slots : circuit'[s] = None,
           \A t \in Slots \ calls[c].slots : circuit'[t] = circuit[t]
    PROVE  SlotsBelongToCalls' /\ CircuitsBelongToCalls'
<1> DEFINE S == calls[c].slots
<1>1. S \subseteq Slots /\ \A s \in S : owner[s] = "Cmce"
  BY InvFacts, Zenon DEF IInv, SlotsBelongToCalls
<1>2. calls'[c] = None /\ \A d \in CallIds \ {c} : calls'[d] = calls[d]
  BY DEF IInv, TypeOK
<1>3. ASSUME NEW d \in CallIds, d # c, calls[d] # None
      PROVE  calls[d].slots \cap S = {} /\ calls[d].slots \subseteq Slots
  BY <1>3, InvFacts DEF IInv, SlotsBelongToCalls
<1>4. /\ \A s \in S : owner'[s] = "free"
      /\ \A t \in Slots \ S : owner'[t] = owner[t]
  BY <1>1 DEF Released, IInv, TypeOK
<1> HIDE DEF S
<1>5. ASSUME NEW t \in Slots, owner'[t] = "Cmce"
      PROVE  \E d \in CallIds : calls'[d] # None /\ t \in calls'[d].slots
  <2>1. t \notin S /\ owner[t] = "Cmce"
    BY <1>4, <1>5
  <2>2. PICK d \in CallIds : calls[d] # None /\ t \in calls[d].slots
    BY <2>1 DEF IInv, SlotsBelongToCalls
  <2> QED
    BY <2>1, <2>2, <1>2 DEF S
<1>6. ASSUME NEW d \in CallIds, calls'[d] # None
      PROVE  /\ \A t \in calls'[d].slots : owner'[t] = "Cmce"
             /\ \A e \in CallIds \ {d} :
                   calls'[e] # None => calls'[d].slots \cap calls'[e].slots = {}
  <2>1. d # c /\ calls'[d] = calls[d] /\ calls[d] # None
    BY <1>2, <1>6
  <2>2. /\ \A t \in calls[d].slots : owner[t] = "Cmce"
        /\ \A e \in CallIds \ {d} :
              calls[e] # None => calls[d].slots \cap calls[e].slots = {}
    BY <2>1 DEF IInv, SlotsBelongToCalls
  <2>3. \A t \in calls'[d].slots : owner'[t] = "Cmce"
    BY <2>1, <2>2, <1>3, <1>4, Zenon
  <2>4. ASSUME NEW e \in CallIds \ {d}, calls'[e] # None
        PROVE  calls'[d].slots \cap calls'[e].slots = {}
    BY <2>1, <2>2, <2>4, <1>2
  <2> QED
    BY <2>3, <2>4
<1>7. SlotsBelongToCalls'
  BY <1>5, <1>6, Zenon DEF SlotsBelongToCalls
<1>8. ASSUME NEW t \in Slots, circuit'[t] # None
      PROVE  /\ calls'[circuit'[t].call] # None
             /\ t \in calls'[circuit'[t].call].slots \ calls'[circuit'[t].call].pre
             /\ circuit'[t].duplex \/ calls'[circuit'[t].call].slots = {t}
  <2>1. t \notin S /\ circuit'[t] = circuit[t]
    BY <1>8, Zenon DEF S
  <2>2. /\ circuit[t].call \in CallIds /\ calls[circuit[t].call] # None
        /\ t \in calls[circuit[t].call].slots \ calls[circuit[t].call].pre
        /\ circuit[t].duplex \/ calls[circuit[t].call].slots = {t}
    BY <1>8, <2>1, InvFacts DEF IInv, CircuitsBelongToCalls
  <2> QED
    BY <2>1, <2>2, <1>2 DEF S
<1>9. ASSUME NEW d \in CallIds, calls'[d] # None
      PROVE  /\ calls'[d].pre \subseteq calls'[d].slots
             /\ calls'[d].phase # "releasing" =>
                  /\ calls'[d].pre = {}
                  /\ \A t \in calls'[d].slots :
                        circuit'[t] # None /\ circuit'[t].call = d
  <2>1. d # c /\ calls'[d] = calls[d] /\ calls[d] # None
    BY <1>2, <1>9
  <2>2. /\ calls[d].pre \subseteq calls[d].slots
        /\ calls[d].phase # "releasing" =>
             /\ calls[d].pre = {}
             /\ \A t \in calls[d].slots : circuit[t] # None /\ circuit[t].call = d
    BY <2>1 DEF IInv, CircuitsBelongToCalls
  <2> QED
    BY <2>1, <2>2, <1>3, Zenon DEF S
<1> QED
  BY <1>7, <1>8, <1>9 DEF CircuitsBelongToCalls

\* A step that keeps the slots of every call, keeps CMCE's ownership, and takes
\* a circuit from the table only for a call it puts into release.
LEMMA KeepCalls ==
    ASSUME IInv,
           \A s \in Slots : (owner'[s] = "Cmce") <=> (owner[s] = "Cmce"),
           \A d \in CallIds : (calls'[d] = None) <=> (calls[d] = None),
           \A d \in CallIds : calls[d] # None =>
              /\ calls'[d].slots = calls[d].slots
              /\ calls'[d].pre \subseteq calls[d].slots
              /\ \/ calls'[d].pre = calls[d].pre
                 \/ \A s \in calls'[d].pre : circuit'[s] = None
              /\ calls'[d].phase # "releasing" =>
                    /\ calls[d].phase # "releasing"
                    /\ calls'[d].pre = calls[d].pre
                    /\ \A s \in calls[d].slots : circuit'[s] = circuit[s],
           \A s \in Slots : circuit'[s] \in {circuit[s], None}
    PROVE  SlotsBelongToCalls' /\ CircuitsBelongToCalls'
<1>1. SlotsBelongToCalls'
  <2>1. ASSUME NEW t \in Slots, owner'[t] = "Cmce"
        PROVE  \E d \in CallIds : calls'[d] # None /\ t \in calls'[d].slots
    <3>1. PICK d \in CallIds : calls[d] # None /\ t \in calls[d].slots
      BY <2>1 DEF IInv, SlotsBelongToCalls
    <3> QED
      BY <3>1
  <2>2. ASSUME NEW d \in CallIds, calls'[d] # None
        PROVE  /\ \A t \in calls'[d].slots : owner'[t] = "Cmce"
               /\ \A e \in CallIds \ {d} :
                     calls'[e] # None => calls'[d].slots \cap calls'[e].slots = {}
    <3>1. calls[d] # None /\ calls'[d].slots = calls[d].slots
      BY <2>2
    <3>2. /\ calls[d].slots \subseteq Slots
          /\ \A t \in calls[d].slots : owner[t] = "Cmce"
          /\ \A e \in CallIds \ {d} :
                calls[e] # None => calls[d].slots \cap calls[e].slots = {}
      BY <3>1, InvFacts DEF IInv, SlotsBelongToCalls
    <3> QED
      BY <3>1, <3>2, Zenon
  <2> QED
    BY <2>1, <2>2 DEF SlotsBelongToCalls
<1>2. ASSUME NEW t \in Slots, circuit'[t] # None
      PROVE  /\ calls'[circuit'[t].call] # None
             /\ t \in calls'[circuit'[t].call].slots \ calls'[circuit'[t].call].pre
             /\ circuit'[t].duplex \/ calls'[circuit'[t].call].slots = {t}
  <2>1. circuit'[t] = circuit[t] /\ circuit[t] # None
    BY <1>2
  <2>2. /\ circuit[t].call \in CallIds /\ calls[circuit[t].call] # None
        /\ t \in calls[circuit[t].call].slots \ calls[circuit[t].call].pre
        /\ circuit[t].duplex \/ calls[circuit[t].call].slots = {t}
    BY <2>1, InvFacts DEF IInv, CircuitsBelongToCalls
  <2> QED
    BY <1>2, <2>1, <2>2
<1>3. ASSUME NEW d \in CallIds, calls'[d] # None
      PROVE  /\ calls'[d].pre \subseteq calls'[d].slots
             /\ calls'[d].phase # "releasing" =>
                  /\ calls'[d].pre = {}
                  /\ \A t \in calls'[d].slots :
                        circuit'[t] # None /\ circuit'[t].call = d
  <2>1. calls[d] # None
    BY <1>3
  <2>2. calls[d].phase # "releasing" =>
             /\ calls[d].pre = {}
             /\ \A t \in calls[d].slots : circuit[t] # None /\ circuit[t].call = d
    BY <2>1 DEF IInv, CircuitsBelongToCalls
  <2> QED
    BY <2>1, <2>2
<1> QED
  BY <1>1, <1>2, <1>3 DEF CircuitsBelongToCalls

-----------------------------------------------------------------------------
(* One lemma per action *)

\* A call on one bearer preserves the invariant.
LEMMA SetupCallInv ==
    ASSUME IInv, NEW ph \in {"active", "setup"}, NEW d \in BOOLEAN, SetupCall(ph, d)
    PROVE  IInv'
<1>1. PICK c \in NextCallIds, s \in Picks(owner, circuit) :
        /\ nextCall' = After(c, 1, MaxCallId)
        /\ nextUsage' = After(nextUsage, 4, MaxUsage)
        /\ owner' = Allocated(owner, circuit, s)
        /\ circuit' = [circuit EXCEPT ![s] = NewCircuit(c, nextUsage, d)]
        /\ calls' = [calls EXCEPT ![c] = NewCall({s}, ph)]
        /\ ctl' = IF ph = "active" THEN Sent({s}, "open") ELSE ctl
  BY Zenon DEF SetupCall
<1>2. c \in CallIds /\ c \notin Occupied
  BY DEF NextCallIds
<1>3. s \in Slots /\ owner[s] # "Cmce"
  BY DEF Picks, Vacant, Usable
<1>4. owner' = [t \in Slots |-> IF t = s THEN "Cmce" ELSE owner[t]]
  BY <1>1, <1>3, AllocatedNow
<1>5. NewCall({s}, ph) \in Call
  BY <1>3 DEF NewCall, Call
<1>6. NewCircuit(c, nextUsage, d) \in Circuit
  BY <1>2 DEF NewCircuit, Circuit, IInv, TypeOK
<1>7. TypeOK'
  <2>1. ctl' \in [Slots -> Seq({"open", "close"})]
    BY <1>1, SentType DEF IInv, TypeOK
  <2>2. nextCall' \in CallIds /\ nextUsage' \in Usages
    BY <1>1, <1>2, AfterType DEF IInv, TypeOK
  <2>3. owner' \in [Slots -> {"free", "Cmce", "PacketData"}]
    BY <1>4 DEF IInv, TypeOK
  <2> QED
    BY <1>1, <1>5, <1>6, <2>1, <2>2, <2>3, Zenon DEF IInv, TypeOK, SetupCall
<1>8. /\ circuit'[s] # None /\ circuit'[s].call = c
      /\ \A t \in Slots \ {s} : circuit'[t] = circuit[t]
  BY <1>1, <1>3, <1>6 DEF IInv, TypeOK, NewCircuit
<1>9. SlotsBelongToCalls' /\ CircuitsBelongToCalls'
  <2> DEFINE S == {s}
  <2>1. S \in SUBSET Slots /\ \A t \in S : owner[t] # "Cmce"
    BY <1>3
  <2>2. owner' = [t \in Slots |-> IF t \in S THEN "Cmce" ELSE owner[t]]
    BY <1>4
  <2>3. calls' = [calls EXCEPT ![c] = NewCall(S, ph)]
    BY <1>1
  <2>4. /\ \A t \in S : circuit'[t] # None /\ circuit'[t].call = c
        /\ \A t \in S : circuit'[t].duplex = TRUE \/ S = {t}
    <3>1. \A t \in S : t = s
      OBVIOUS
    <3>2. S = {s}
      OBVIOUS
    <3> HIDE DEF S
    <3> QED
      BY <1>8, <3>1, <3>2
  <2>5. \A t \in Slots \ S : circuit'[t] = circuit[t]
    BY <1>8
  <2> HIDE DEF S
  <2> QED
    BY <1>2, <2>1, <2>2, <2>3, <2>4, <2>5, AddCall, Zenon
<1> QED
  BY <1>7, <1>9 DEF IInv

\* A rejected set-up preserves it: only identifiers are consumed.
LEMMA SetupCongestedInv == ASSUME IInv, SetupCongested PROVE IInv'
<1>1. PICK c \in NextCallIds : nextCall' = After(c, 1, MaxCallId)
  BY DEF SetupCongested
<1>2. c \in CallIds
  BY DEF NextCallIds
<1>3. owner' = [t \in Slots |-> IF t = None THEN "Cmce" ELSE owner[t]]
  BY AllocatedNow, Zenon DEF SetupCongested
<1>4. \A t \in Slots : owner'[t] = owner[t]
  BY <1>3
<1>5. TypeOK'
  BY <1>1, <1>2, <1>3, AfterType DEF IInv, TypeOK, SetupCongested
<1>6. SlotsBelongToCalls' /\ CircuitsBelongToCalls'
  BY <1>4, KeepCalls, InvFacts DEF SetupCongested
<1> QED
  BY <1>5, <1>6 DEF IInv

\* Answering an individual call preserves it.
LEMMA ConnectInv == ASSUME IInv, NEW c \in CallIds, Connect(c) PROVE IInv'
<1>1. calls[c] \in Call /\ calls[c] # None
  BY DEF Connect, IInv, TypeOK
<1>2. calls' = [calls EXCEPT ![c] = [calls[c] EXCEPT !.phase = "active"]]
  BY DEF Connect
<1>3. [calls[c] EXCEPT !.phase = "active"] \in Call
  BY <1>1 DEF Call
<1>4. TypeOK'
  BY <1>2, <1>3, SentType DEF IInv, TypeOK, Connect
<1>5. /\ calls'[c] # None /\ calls'[c].slots = calls[c].slots
      /\ calls'[c].pre = calls[c].pre
      /\ calls[c].phase # "releasing"
      /\ \A d \in CallIds \ {c} : calls'[d] = calls[d]
  BY <1>1, <1>2, <1>3, ZenonT(60) DEF Call, Connect, IInv, TypeOK
<1>6. SlotsBelongToCalls' /\ CircuitsBelongToCalls'
  BY <1>1, <1>5, KeepCalls, InvFacts DEF Connect
<1> QED
  BY <1>4, <1>6 DEF IInv

\* Starting a release preserves it: the call keeps its slots.
LEMMA BeginReleaseInv == ASSUME IInv, NEW c \in CallIds, BeginRelease(c) PROVE IInv'
<1>1. calls[c] \in Call /\ calls[c] # None
  BY DEF BeginRelease, IInv, TypeOK
<1>2. calls' = [calls EXCEPT ![c] = [calls[c] EXCEPT !.phase = "releasing"]]
  BY DEF BeginRelease
<1>3. [calls[c] EXCEPT !.phase = "releasing"] \in Call
  BY <1>1 DEF Call
<1>4. TypeOK'
  BY <1>2, <1>3 DEF IInv, TypeOK, BeginRelease
<1>5. /\ calls'[c] # None /\ calls'[c].slots = calls[c].slots
      /\ calls'[c].pre = calls[c].pre /\ calls'[c].phase = "releasing"
      /\ \A d \in CallIds \ {c} : calls'[d] = calls[d]
  BY <1>1, <1>2, <1>3, Zenon DEF Call, IInv, TypeOK
<1>6. SlotsBelongToCalls' /\ CircuitsBelongToCalls'
  BY <1>1, <1>5, KeepCalls, InvFacts DEF BeginRelease
<1> QED
  BY <1>4, <1>6 DEF IInv

\* The end of a release preserves it, whichever phase it starts from.
LEMMA CleanupInv ==
    ASSUME IInv, NEW c \in CallIds, calls[c] # None, Cleanup(c)
    PROVE  IInv'
<1>1. /\ owner' = Released(owner, calls[c].slots)
      /\ calls' = [calls EXCEPT ![c] = None]
      /\ circuit' = [s \in Slots |-> IF s \in calls[c].slots \ calls[c].pre
                                     THEN None ELSE circuit[s]]
  BY DEF Cleanup
<1>2. \A s \in calls[c].pre : s \in Slots /\ circuit[s] = None
  <2> SUFFICES ASSUME NEW s \in calls[c].pre, circuit[s] # None PROVE FALSE
    BY InvFacts
  <2>1. s \in Slots /\ s \in calls[c].slots
    BY InvFacts
  <2>2. /\ circuit[s].call \in CallIds /\ calls[circuit[s].call] # None
        /\ s \in calls[circuit[s].call].slots \ calls[circuit[s].call].pre
    BY <2>1, InvFacts DEF IInv, CircuitsBelongToCalls
  <2>3. circuit[s].call = c
    BY <2>1, <2>2 DEF IInv, SlotsBelongToCalls
  <2> QED
    BY <2>2, <2>3
<1>3. /\ \A s \in calls[c].slots : circuit'[s] = None
      /\ \A t \in Slots \ calls[c].slots : circuit'[t] = circuit[t]
  BY <1>1, <1>2, InvFacts
<1>4. TypeOK'
  <2>1. owner' \in [Slots -> {"free", "Cmce", "PacketData"}]
    BY <1>1, ReleasedType DEF IInv, TypeOK
  <2>2. ctl' \in [Slots -> Seq({"open", "close"})]
    BY SentType DEF Cleanup, IInv
  <2>3. circuit' \in [Slots -> Circuit \cup {None}]
    BY <1>1 DEF IInv, TypeOK
  <2> QED
    BY <1>1, <2>1, <2>2, <2>3 DEF IInv, TypeOK, Cleanup
<1>5. SlotsBelongToCalls' /\ CircuitsBelongToCalls'
  BY <1>1, <1>3, RemoveCall, Zenon
<1> QED
  BY <1>4, <1>5 DEF IInv

\* The expiry of a circuit preserves it in each of its three cases.
LEMMA ExpireInv == ASSUME IInv, NEW s \in Slots, Expire(s) PROVE IInv'
<1> DEFINE c == circuit[s].call
<1>0. circuit[s] # None
  BY DEF Expire
<1>1. /\ c \in CallIds /\ calls[c] \in Call /\ calls[c] # None
      /\ s \in calls[c].slots
      /\ \A d \in CallIds \ {c} : calls[d] # None => s \notin calls[d].slots
  <2>1. c \in CallIds /\ calls[c] # None /\ s \in calls[c].slots
    BY <1>0, InvFacts DEF IInv, CircuitsBelongToCalls
  <2>2. calls[c] \in Call
    BY <2>1, InvFacts
  <2> HIDE DEF c
  <2>3. \A d \in CallIds \ {c} : calls[d] # None => s \notin calls[d].slots
    BY <2>1 DEF IInv, SlotsBelongToCalls
  <2> QED
    BY <2>1, <2>2, <2>3
<1>2. /\ circuit' = [circuit EXCEPT ![s] = None]
      /\ circuit'[s] = None /\ \A t \in Slots \ {s} : circuit'[t] = circuit[t]
  BY DEF Expire, IInv, TypeOK
<1> HIDE DEF c
<1>3. CASE calls[c].phase = "releasing"
  <2>1. UNCHANGED <<calls, ctl, owner, nextCall, nextUsage, umac, pd>>
    BY <1>1, <1>3 DEF Expire, c
  <2>2. TypeOK'
    BY <1>2, <2>1 DEF IInv, TypeOK
  <2>3. SlotsBelongToCalls' /\ CircuitsBelongToCalls'
    BY <1>1, <1>2, <1>3, <2>1, KeepCalls, InvFacts
  <2> QED
    BY <2>2, <2>3 DEF IInv
<1>4. CASE calls[c].phase = "active"
  <2> DEFINE new == [calls[c] EXCEPT !.phase = "releasing", !.pre = {s}]
  <2>1. /\ calls' = [calls EXCEPT ![c] = new]
        /\ UNCHANGED <<ctl, owner, nextCall, nextUsage, umac, pd>>
    BY <1>1, <1>4, Zenon DEF Expire, c
  <2>2. /\ new \in Call /\ new.slots = calls[c].slots
        /\ new.pre = {s} /\ new.phase = "releasing"
    BY <1>1, Zenon DEF Call
  <2> HIDE DEF new
  <2>3. TypeOK'
    BY <1>2, <2>1, <2>2, Zenon DEF IInv, TypeOK
  <2>4. calls'[c] = new /\ \A d \in CallIds \ {c} : calls'[d] = calls[d]
    BY <1>1, <2>1 DEF IInv, TypeOK
  <2>5. new # None
    BY <2>2
  <2>6. SlotsBelongToCalls' /\ CircuitsBelongToCalls'
    BY <1>1, <1>2, <2>1, <2>2, <2>4, <2>5, KeepCalls, InvFacts
  <2> QED
    BY <2>3, <2>6 DEF IInv
<1>5. CASE calls[c].phase = "setup"
  <2>1. /\ ctl' = Sent({s}, "close") /\ owner' = Released(owner, {s})
        /\ calls' = [calls EXCEPT ![c] = None]
        /\ UNCHANGED <<nextCall, nextUsage, umac, pd>>
    BY <1>1, <1>5 DEF Expire, c
  <2>2. TypeOK'
    <3>1. owner' \in [Slots -> {"free", "Cmce", "PacketData"}]
      BY <2>1, ReleasedType DEF IInv, TypeOK
    <3>2. ctl' \in [Slots -> Seq({"open", "close"})]
      BY <2>1, SentType DEF IInv
    <3> QED
      BY <1>2, <2>1, <3>1, <3>2, Zenon DEF IInv, TypeOK
  <2>3. calls[c].slots = {s}
    BY <1>0, <1>1 DEF Expire, IInv, CircuitsBelongToCalls, c
  <2>4. SlotsBelongToCalls' /\ CircuitsBelongToCalls'
    BY <1>1, <1>2, <2>1, <2>3, RemoveCall, Zenon
  <2> QED
    BY <2>2, <2>4 DEF IInv
<1> QED
  BY <1>1, <1>3, <1>4, <1>5 DEF Call

\* Two bearers for one call: the second allocation sees the first, and the
\* capacity check before both leaves it a slot, so nothing is rolled back.
LEMMA SetupDuplexInv == ASSUME IInv, SetupDuplex PROVE IInv'
<1>1. PICK c \in NextCallIds, s \in Picks(owner, circuit) :
        LET own1 == Allocated(owner, circuit, s)
            cir1 == [circuit EXCEPT ![s] = NewCircuit(c, nextUsage, TRUE)]
            usage1 == After(nextUsage, 4, MaxUsage)
            second == Picks(own1, cir1)
        IN /\ nextCall' = After(c, 1, MaxCallId)
           /\ nextUsage' = After(usage1, 4, MaxUsage)
           /\ IF second = {}
              THEN /\ owner' = Released(Allocated(own1, cir1, None), {s})
                   /\ UNCHANGED <<circuit, calls>>
              ELSE \E t \in second :
                   /\ owner' = Allocated(own1, cir1, t)
                   /\ circuit' = [cir1 EXCEPT ![t] = NewCircuit(c, usage1, TRUE)]
                   /\ calls' = [calls EXCEPT ![c] = NewCall({s, t}, "setup")]
  BY Zenon DEF SetupDuplex
<1> DEFINE own1 == Allocated(owner, circuit, s)
           new1 == NewCircuit(c, nextUsage, TRUE)
           cir1 == [circuit EXCEPT ![s] = new1]
           usage1 == After(nextUsage, 4, MaxUsage)
           new2 == NewCircuit(c, usage1, TRUE)
<1>2. c \in CallIds /\ c \notin Occupied
  BY DEF NextCallIds
<1>3. s \in Slots /\ owner[s] # "Cmce" /\ circuit[s] = None
  BY DEF Picks, Vacant, Usable
<1>4. own1 = [t \in Slots |-> IF t = s THEN "Cmce" ELSE owner[t]]
  BY <1>3, AllocatedNow
<1>5. /\ usage1 \in Usages
      /\ new1 \in Circuit /\ new1.call = c /\ new1.duplex = TRUE
      /\ new2 \in Circuit /\ new2.call = c /\ new2.duplex = TRUE
  BY <1>2, AfterType DEF NewCircuit, Circuit, IInv, TypeOK
<1>6. /\ own1 \in [Slots -> {"free", "Cmce", "PacketData"}]
      /\ cir1 \in [Slots -> Circuit \cup {None}]
      /\ \A t \in Slots : cir1[t] # None => own1[t] = "Cmce"
  <2>1. owner \in [Slots -> {"free", "Cmce", "PacketData"}]
    BY DEF IInv, TypeOK
  <2>2. circuit \in [Slots -> Circuit \cup {None}]
    BY DEF IInv, TypeOK
  <2>3. \A t \in Slots : circuit[t] # None => owner[t] = "Cmce"
    BY InvFacts
  <2> HIDE DEF own1, new1
  <2> QED
    BY <1>3, <1>4, <1>5, <2>1, <2>2, <2>3
<1>7. /\ nextCall' \in CallIds /\ nextUsage' \in Usages
      /\ UNCHANGED <<ctl, umac, pd>>
  BY <1>1, <1>2, <1>5, AfterType DEF SetupDuplex
<1>8. CASE Picks(own1, cir1) = {}
  <2>1. owner' = Released(Allocated(own1, cir1, None), {s}) /\ UNCHANGED <<circuit, calls>>
    BY <1>1, <1>8
  <2> HIDE DEF own1, cir1
  <2>2. Allocated(own1, cir1, None) = own1
    BY <1>6 DEF Allocated, Usable
  <2>3. \A t \in Slots : (owner'[t] = "Cmce") <=> (owner[t] = "Cmce")
    BY <1>3, <1>4, <2>1, <2>2 DEF Released
  <2>4. owner' \in [Slots -> {"free", "Cmce", "PacketData"}]
    BY <2>1, <2>2, <1>6, ReleasedType
  <2>5. TypeOK'
    BY <1>7, <2>1, <2>4, Zenon DEF IInv, TypeOK
  <2>6. SlotsBelongToCalls' /\ CircuitsBelongToCalls'
    BY <2>1, <2>3, KeepCalls, InvFacts, Zenon
  <2> QED
    BY <2>5, <2>6 DEF IInv
<1>9. CASE Picks(own1, cir1) # {}
  <2>1. PICK t \in Picks(own1, cir1) :
          /\ owner' = Allocated(own1, cir1, t)
          /\ circuit' = [cir1 EXCEPT ![t] = new2]
          /\ calls' = [calls EXCEPT ![c] = NewCall({s, t}, "setup")]
    BY <1>1, <1>9, Zenon
  <2> HIDE DEF own1, new1, new2
  <2>2. t \in Slots /\ own1[t] # "Cmce"
    BY DEF Picks, Vacant, Usable
  <2>3. t # s /\ owner[t] # "Cmce"
    BY <1>3, <1>4, <2>2
  <2> HIDE DEF cir1
  <2>4. owner' = [u \in Slots |-> IF u = t THEN "Cmce" ELSE own1[u]]
    BY <1>6, <2>1, <2>2, AllocatedExact
  <2> DEFINE S == {s, t}
  <2>5. S \in SUBSET Slots /\ \A u \in S : owner[u] # "Cmce"
    BY <1>3, <2>2, <2>3
  <2>6. owner' = [u \in Slots |-> IF u \in S THEN "Cmce" ELSE owner[u]]
    BY <1>4, <2>4
  <2>7. /\ circuit'[s] = new1 /\ circuit'[t] = new2
        /\ \A u \in Slots \ S : circuit'[u] = circuit[u]
        /\ circuit' \in [Slots -> Circuit \cup {None}]
    <3>1. cir1[s] = new1 /\ \A u \in Slots \ {s} : cir1[u] = circuit[u]
      BY <1>3 DEF cir1, IInv, TypeOK
    <3> QED
      BY <1>3, <1>5, <1>6, <2>1, <2>2, <2>3, <3>1
  <2>8. new1 # None /\ new2 # None
    BY <1>5
  <2>9. /\ \A u \in S : circuit'[u] # None /\ circuit'[u].call = c
        /\ \A u \in S : circuit'[u].duplex = TRUE \/ S = {u}
    BY <1>5, <2>7, <2>8
  <2>10. NewCall(S, "setup") \in Call
    BY <2>5 DEF NewCall, Call
  <2>11. calls' = [calls EXCEPT ![c] = NewCall(S, "setup")]
    BY <2>1
  <2> HIDE DEF S
  <2>12. TypeOK'
    BY <1>7, <2>6, <2>7, <2>10, <2>11, Zenon DEF IInv, TypeOK
  <2>13. SlotsBelongToCalls' /\ CircuitsBelongToCalls'
    BY <1>2, <2>5, <2>6, <2>7, <2>9, <2>11, AddCall, Zenon
  <2> QED
    BY <2>12, <2>13 DEF IInv
<1> QED
  BY <1>8, <1>9, Zenon

\* The UMAC's side changes an owner only between free and packet data, and no
\* table of CMCE.
LEMMA UmacInv == ASSUME IInv, UmacNext PROVE IInv'
<1> DEFINE Small == /\ UNCHANGED <<circuit, calls, nextCall, nextUsage>>
                    /\ owner' \in [Slots -> {"free", "Cmce", "PacketData"}]
                    /\ \A s \in Slots : (owner'[s] = "Cmce") <=> (owner[s] = "Cmce")
                    /\ ctl' \in [Slots -> Seq({"open", "close"})]
                    /\ umac' \subseteq Slots
                    /\ pd' \in Terminals \cup {None}
<1>1. Small
  <2>1. ASSUME NEW s \in Slots, Deliver(s) PROVE Small
    <3>1. ctl[s] \in Seq({"open", "close"}) /\ ctl[s] # <<>>
      BY <2>1 DEF Deliver, IInv, TypeOK
    <3>2. Tail(ctl[s]) \in Seq({"open", "close"})
      BY <3>1
    <3> QED
      BY <2>1, <3>2, Zenon DEF Deliver, IInv, TypeOK
  <2>2. ASSUME NEW a \in Terminals, PdAssign(a) PROVE Small
    BY <2>2 DEF PdAssign, PdAvailable, PdReleased, cmceVars, IInv, TypeOK
  <2>3. ASSUME NEW a \in Terminals, PdQuit(a) PROVE Small
    BY <2>3 DEF PdQuit, PdReleased, cmceVars, IInv, TypeOK
  <2>4. ASSUME NEW e \in BOOLEAN, PdTick(e) PROVE Small
    BY <2>4 DEF PdTick, PdReleased, cmceVars, IInv, TypeOK
  <2> QED
    BY <2>1, <2>2, <2>3, <2>4 DEF UmacNext
<1>2. TypeOK'
  BY <1>1 DEF IInv, TypeOK
<1>3. SlotsBelongToCalls' /\ CircuitsBelongToCalls'
  BY <1>1, KeepCalls, InvFacts
<1> QED
  BY <1>2, <1>3 DEF IInv

\* Every step preserves the inductive invariant.
LEMMA NextInv == ASSUME IInv, [Next]_vars PROVE IInv'
<1>1. CASE UNCHANGED vars
  BY <1>1 DEF vars, IInv, TypeOK, SlotsBelongToCalls, CircuitsBelongToCalls
<1>2. ASSUME NEW ph \in {"active", "setup"}, NEW d \in BOOLEAN, SetupCall(ph, d)
      PROVE  IInv'
  BY <1>2, SetupCallInv
<1>3. CASE SetupCongested
  BY <1>3, SetupCongestedInv
<1>4. CASE SetupDuplex
  BY <1>4, SetupDuplexInv
<1>5. ASSUME NEW c \in CallIds, Connect(c) PROVE IInv'
  BY <1>5, ConnectInv
<1>6. ASSUME NEW c \in CallIds, BeginRelease(c) PROVE IInv'
  BY <1>6, BeginReleaseInv
<1>7. ASSUME NEW c \in CallIds, CompleteRelease(c) \/ ReleaseSetup(c) PROVE IInv'
  BY <1>7, CleanupInv DEF CompleteRelease, ReleaseSetup
<1>8. ASSUME NEW s \in Slots, Expire(s) PROVE IInv'
  BY <1>8, ExpireInv
<1>9. CASE UmacNext
  BY <1>9, UmacInv
<1> QED
  BY <1>1, <1>2, <1>3, <1>4, <1>5, <1>6, <1>7, <1>8, <1>9 DEF Next, CmceNext

\* The inductive invariant holds in every reachable state.
THEOREM Invariance == Spec => []IInv
<1>1. IInv /\ [Next]_vars => IInv'
  BY NextInv
<1> QED
  BY InitInv, <1>1, PTL DEF Spec

\* Every variable of the traffic-channel bookkeeping keeps its type.
THEOREM TypeCorrect == Spec => []TypeOK
<1>1. IInv => TypeOK
  BY DEF IInv
<1> QED
  BY Invariance, <1>1, PTL

\* CMCE owns a slot in the central allocator exactly while one call has it,
\* for any number of slots, calls and identifiers.
THEOREM AllocatorAgrees == Spec => []SlotsBelongToCalls
<1>1. IInv => SlotsBelongToCalls
  BY DEF IInv
<1> QED
  BY Invariance, <1>1, PTL

\* The circuit table and the call tables agree, through the six-minute expiry
\* and through releases that overlap it.
THEOREM CircuitTableAgrees == Spec => []CircuitsBelongToCalls
<1>1. IInv => CircuitsBelongToCalls
  BY DEF IInv
<1> QED
  BY Invariance, <1>1, PTL

\* An allocation that takes a slot from packet data leaves no slot free.
LEMMA PreemptsLast ==
    ASSUME NEW own \in [Slots -> {"free", "Cmce", "PacketData"}],
           NEW cir \in [Slots -> Circuit \cup {None}],
           \A t \in Slots : cir[t] # None => own[t] = "Cmce",
           NEW s \in Picks(own, cir), own[s] = "PacketData"
    PROVE  \A t \in Slots : own[t] # "free"
BY DEF Picks, Vacant, Usable, TriedBefore

\* A step takes the slot of packet data for a call only when no slot is free.
LEMMA PreemptStep ==
    ASSUME IInv, [Next]_vars, NEW s \in Slots, owner[s] = "PacketData", owner'[s] = "Cmce"
    PROVE  \A t \in Slots : owner'[t] # "free"
<1>1. /\ owner \in [Slots -> {"free", "Cmce", "PacketData"}]
      /\ circuit \in [Slots -> Circuit \cup {None}]
      /\ \A t \in Slots : circuit[t] # None => owner[t] = "Cmce"
  BY InvFacts DEF IInv, TypeOK
<1>2. ASSUME NEW ph \in {"active", "setup"}, NEW d \in BOOLEAN, SetupCall(ph, d)
      PROVE  \A t \in Slots : owner'[t] # "free"
  <2>1. PICK p \in Picks(owner, circuit) : owner' = Allocated(owner, circuit, p)
    BY <1>2 DEF SetupCall
  <2>2. p \in Slots
    BY DEF Picks, Vacant, Usable
  <2>3. owner' = [t \in Slots |-> IF t = p THEN "Cmce" ELSE owner[t]]
    BY <1>1, <2>1, <2>2, AllocatedNow
  <2>4. p = s
    BY <2>3
  <2> QED
    BY <1>1, <2>3, <2>4, PreemptsLast
<1>3. CASE SetupDuplex
  <2>1. PICK c \in NextCallIds, p \in Picks(owner, circuit) :
          LET own1 == Allocated(owner, circuit, p)
              cir1 == [circuit EXCEPT ![p] = NewCircuit(c, nextUsage, TRUE)]
          IN \/ owner' = Released(Allocated(own1, cir1, None), {p})
             \/ \E t \in Picks(own1, cir1) : owner' = Allocated(own1, cir1, t)
    BY <1>3, Zenon DEF SetupDuplex
  <2> DEFINE own1 == Allocated(owner, circuit, p)
             new1 == NewCircuit(c, nextUsage, TRUE)
             cir1 == [circuit EXCEPT ![p] = new1]
  <2>2. p \in Slots /\ c \in CallIds
    BY DEF Picks, Vacant, Usable, NextCallIds
  <2>3. own1 = [t \in Slots |-> IF t = p THEN "Cmce" ELSE owner[t]]
    BY <2>2, AllocatedNow
  <2>4. new1 \in Circuit
    BY <2>2 DEF NewCircuit, Circuit, IInv, TypeOK
  <2>5. /\ own1 \in [Slots -> {"free", "Cmce", "PacketData"}]
        /\ cir1 \in [Slots -> Circuit \cup {None}]
        /\ \A t \in Slots : cir1[t] # None => own1[t] = "Cmce"
    <3> HIDE DEF own1, new1
    <3> QED
      BY <1>1, <2>2, <2>3, <2>4
  <2>6. \/ owner' = Released(Allocated(own1, cir1, None), {p})
        \/ \E t \in Picks(own1, cir1) : owner' = Allocated(own1, cir1, t)
    BY <2>1, Zenon
  <2> HIDE DEF own1, cir1
  <2>7. Allocated(own1, cir1, None) = own1
    BY <2>5 DEF Allocated, Usable
  <2>8. PICK q \in Picks(own1, cir1) : owner' = Allocated(own1, cir1, q)
    BY <2>2, <2>3, <2>6, <2>7 DEF Released
  <2>9. q \in Slots
    BY DEF Picks, Vacant, Usable
  <2>10. owner' = [t \in Slots |-> IF t = q THEN "Cmce" ELSE own1[t]]
    BY <2>5, <2>8, <2>9, AllocatedExact
  <2>11. CASE s = q
    <3>1. q = p \/ own1[q] = "PacketData"
      BY <2>3, <2>11
    <3>2. own1[q] = "PacketData"
      BY <2>2, <2>3, <3>1 DEF Picks, Vacant, Usable
    <3> QED
      BY <2>5, <2>10, <3>2, PreemptsLast
  <2>12. CASE s # q
    <3>1. s = p
      BY <2>3, <2>10, <2>12
    <3> QED
      BY <1>1, <2>3, <2>10, <3>1, PreemptsLast
  <2> QED
    BY <2>11, <2>12
<1>4. CASE SetupCongested
  BY <1>1, <1>4 DEF SetupCongested, Allocated, Usable
<1>5. ASSUME NEW c \in CallIds,
             Connect(c) \/ BeginRelease(c) \/ CompleteRelease(c) \/ ReleaseSetup(c)
      PROVE  FALSE
  BY <1>5 DEF Connect, BeginRelease, CompleteRelease, ReleaseSetup, Cleanup, Released
<1>6. ASSUME NEW t \in Slots, Expire(t) PROVE FALSE
  BY <1>6 DEF Expire, Released
<1>7. CASE UmacNext
  BY <1>1, <1>7 DEF UmacNext, Deliver, PdAssign, PdQuit, PdTick, PdReleased, PdAvailable
<1>8. CASE UNCHANGED vars
  BY <1>8 DEF vars
<1> QED
  BY <1>2, <1>3, <1>4, <1>5, <1>6, <1>7, <1>8 DEF Next, CmceNext

\* Voice reclaims the packet-data slot only when it takes the last free one,
\* for any number of slots and both bearers of a duplex call.
THEOREM PreemptedLast == Spec => PacketDataPreemptedLast
<1>1. IInv /\ [Next]_vars =>
        [\A s \in Slots : owner[s] = "PacketData" /\ owner'[s] = "Cmce" =>
            \A t \in Slots : owner'[t] # "free"]_vars
  BY PreemptStep
<1> QED
  BY Invariance, <1>1, PTL DEF Spec, PacketDataPreemptedLast

\* A step keeps the slots of a call it does not end.
LEMMA StableStep ==
    ASSUME IInv, [Next]_vars, NEW c \in CallIds, calls[c] # None, calls'[c] # None
    PROVE  calls'[c].slots = calls[c].slots
<1>1. calls \in [CallIds -> Call \cup {None}] /\ calls[c] \in Call
  BY DEF IInv, TypeOK
<1>2. ASSUME NEW ph \in {"active", "setup"}, NEW d \in BOOLEAN, SetupCall(ph, d)
      PROVE  calls'[c] = calls[c]
  BY <1>1, <1>2 DEF SetupCall, NextCallIds, Occupied
<1>3. CASE SetupDuplex
  BY <1>1, <1>3, Zenon DEF SetupDuplex, NextCallIds, Occupied
<1>4. CASE SetupCongested
  BY <1>4 DEF SetupCongested
<1>5. ASSUME NEW b \in CallIds, Connect(b) \/ BeginRelease(b)
      PROVE  calls'[c].slots = calls[c].slots
  BY <1>1, <1>5 DEF Connect, BeginRelease, Call
<1>6. ASSUME NEW b \in CallIds, CompleteRelease(b) \/ ReleaseSetup(b)
      PROVE  calls'[c] = calls[c]
  BY <1>1, <1>6 DEF CompleteRelease, ReleaseSetup, Cleanup
<1>7. ASSUME NEW s \in Slots, Expire(s) PROVE calls'[c].slots = calls[c].slots
  BY <1>1, <1>7 DEF Expire, Call
<1>8. CASE UmacNext
  BY <1>8 DEF UmacNext, Deliver, PdAssign, PdQuit, PdTick, cmceVars
<1>9. CASE UNCHANGED vars
  BY <1>9 DEF vars
<1> QED
  BY <1>2, <1>3, <1>4, <1>5, <1>6, <1>7, <1>8, <1>9 DEF Next, CmceNext

\* No identifier is handed to a second call before the first has ended, however
\* often the identifier space wraps.
THEOREM IdentifiersStable == Spec => CallIdsStable
<1>1. IInv /\ [Next]_vars =>
        [\A c \in CallIds : calls[c] # None /\ calls'[c] # None =>
            calls'[c].slots = calls[c].slots]_vars
  BY StableStep
<1> QED
  BY Invariance, <1>1, PTL DEF Spec, CallIdsStable

-----------------------------------------------------------------------------
(* The UMAC's circuits *)

\* What the UMAC will have on a slot changes only with the slot's own messages.
LEMMA SettlesKept ==
    ASSUME NEW s \in Slots, ctl'[s] = ctl[s], s \in umac' <=> s \in umac
    PROVE  UmacSettles(s)' <=> UmacSettles(s)
BY DEF UmacSettles

\* Once CMCE has sent Open for a slot, the slot will be open at the UMAC,
\* whatever is queued before it.
LEMMA OpenSettles ==
    ASSUME TypeOK, NEW S, NEW s \in Slots, s \in S, ctl' = Sent(S, "open")
    PROVE  UmacSettles(s)'
<1>1. ctl[s] \in Seq({"open", "close"})
  BY DEF TypeOK
<1>2. ctl'[s] = Append(ctl[s], "open")
  BY DEF Sent
<1>3. /\ ctl'[s] # <<>>
      /\ Len(ctl'[s]) = Len(ctl[s]) + 1
      /\ ctl'[s][Len(ctl[s]) + 1] = "open"
  BY <1>1, <1>2
<1> QED
  BY <1>3 DEF UmacSettles

\* Taking the first message of a queue leaves its last message last, unless it
\* was the only one.
LEMMA LastStays ==
    ASSUME NEW S, NEW q \in Seq(S), q # <<>>
    PROVE  /\ Tail(q) = <<>> => q[Len(q)] = Head(q)
           /\ Tail(q) # <<>> => Tail(q)[Len(Tail(q))] = q[Len(q)]
<1>1. /\ Tail(q) \in Seq(S) /\ Len(Tail(q)) = Len(q) - 1
      /\ \A i \in 1 .. Len(Tail(q)) : Tail(q)[i] = q[i + 1]
  BY HeadTailProperties
<1>2. Len(q) \in Nat \ {0}
  BY EmptySeq
<1>3. CASE Tail(q) = <<>>
  <2>1. Len(q) - 1 = 0
    BY <1>1, <1>3, EmptySeq, Zenon
  <2>2. Len(q) = 1
    BY <1>2, <2>1
  <2>3. Head(q) = q[1]
    BY DEF Head
  <2> QED
    BY <1>3, <2>2, <2>3
<1>4. CASE Tail(q) # <<>>
  <2>1. Len(Tail(q)) \in Nat \ {0}
    BY <1>1, <1>4, EmptySeq
  <2>2. Tail(q)[Len(Tail(q))] = q[Len(Tail(q)) + 1]
    BY <1>1, <2>1
  <2>3. Len(Tail(q)) + 1 = Len(q)
    BY <1>1, <1>2
  <2> QED
    BY <1>4, <2>2, <2>3
<1> QED
  BY <1>3, <1>4

\* Delivering a message does not change what the UMAC will have: the last
\* message of the queue stays last, or was the one delivered.
LEMMA DeliverSettles ==
    ASSUME TypeOK, NEW s \in Slots, Deliver(s), UmacSettles(s)
    PROVE  UmacSettles(s)'
<1>1. ctl[s] \in Seq({"open", "close"}) /\ ctl[s] # <<>>
  BY DEF TypeOK, Deliver
<1>2. ctl'[s] = Tail(ctl[s])
  BY DEF TypeOK, Deliver
<1>3. ctl[s][Len(ctl[s])] = "open"
  BY <1>1 DEF UmacSettles
<1>4. CASE Tail(ctl[s]) = <<>>
  <2>1. Head(ctl[s]) = "open"
    BY <1>1, <1>3, <1>4, LastStays
  <2>2. s \in umac'
    BY <2>1 DEF Deliver
  <2> QED
    BY <1>2, <1>4, <2>2 DEF UmacSettles
<1>5. CASE Tail(ctl[s]) # <<>>
  <2>1. Tail(ctl[s])[Len(Tail(ctl[s]))] = "open"
    BY <1>1, <1>3, <1>5, LastStays
  <2> QED
    BY <1>2, <1>5, <2>1 DEF UmacSettles
<1> QED
  BY <1>4, <1>5

\* A step that leaves alone the UMAC's circuits, and the queues of the slots of
\* the calls that stay connected, keeps their bearers open.
LEMMA SameBearers ==
    ASSUME IInv, BearersOpen, umac' = umac,
           \A c \in CallIds : calls'[c] # None /\ calls'[c].phase = "active" =>
              \A s \in calls'[c].slots :
                 /\ s \in Slots
                 /\ \/ UmacSettles(s)'
                    \/ /\ calls[c] # None /\ calls[c].phase = "active"
                       /\ s \in calls[c].slots /\ ctl'[s] = ctl[s]
    PROVE  BearersOpen'
<1> SUFFICES ASSUME NEW c \in CallIds, calls'[c] # None, calls'[c].phase = "active",
                    NEW s \in calls'[c].slots
             PROVE  UmacSettles(s)'
  BY DEF BearersOpen
<1>1. CASE /\ calls[c] # None /\ calls[c].phase = "active"
           /\ s \in calls[c].slots /\ ctl'[s] = ctl[s]
  <2>1. UmacSettles(s) /\ s \in Slots
    BY <1>1 DEF BearersOpen
  <2> QED
    BY <1>1, <2>1, SettlesKept
<1> QED
  BY <1>1

\* Every step keeps the bearers of the connected calls open.
LEMMA BearersStep == ASSUME IInv, BearersOpen, [Next]_vars PROVE BearersOpen'
<1> DEFINE Live(d) == calls[d] # None /\ calls[d].phase = "active"
           Open(d, s) == Live(d) /\ s \in calls[d].slots /\ ctl'[s] = ctl[s]
           Goal == \A d \in CallIds : calls'[d] # None /\ calls'[d].phase = "active" =>
                      \A s \in calls'[d].slots :
                         s \in Slots /\ (UmacSettles(s)' \/ Open(d, s))
<1>0. /\ calls \in [CallIds -> Call \cup {None}]
      /\ ctl \in [Slots -> Seq({"open", "close"})]
      /\ \A d \in CallIds : calls[d] # None =>
            calls[d] \in Call /\ calls[d].slots \subseteq Slots
  BY InvFacts DEF IInv, TypeOK
<1>a. \A d, e \in CallIds : d # e /\ calls[d] # None /\ calls[e] # None =>
         calls[d].slots \cap calls[e].slots = {}
  BY DEF IInv, SlotsBelongToCalls
<1>b. ASSUME Goal, umac' = umac PROVE BearersOpen'
  BY <1>b, SameBearers
<1>1. ASSUME NEW ph \in {"active", "setup"}, NEW d \in BOOLEAN, SetupCall(ph, d)
      PROVE  BearersOpen'
  <2>1. PICK c \in NextCallIds, s \in Picks(owner, circuit) :
          /\ calls' = [calls EXCEPT ![c] = NewCall({s}, ph)]
          /\ ctl' = IF ph = "active" THEN Sent({s}, "open") ELSE ctl
    BY <1>1, Zenon DEF SetupCall
  <2>2. c \in CallIds /\ s \in Slots /\ owner[s] # "Cmce"
    BY DEF NextCallIds, Picks, Vacant, Usable
  <2>3. /\ calls'[c].slots = {s} /\ calls'[c].phase = ph
        /\ \A b \in CallIds \ {c} : calls'[b] = calls[b]
    BY <1>0, <2>1, <2>2 DEF NewCall
  <2>4. \A t \in Slots \ {s} : ctl'[t] = ctl[t]
    BY <2>1 DEF Sent
  <2>5. ph = "active" => UmacSettles(s)'
    <3> SUFFICES ASSUME ph = "active" PROVE UmacSettles(s)'
      OBVIOUS
    <3>1. ctl' = Sent({s}, "open")
      BY <2>1
    <3> QED
      BY <2>2, <3>1, OpenSettles DEF IInv
  <2>6. \A b \in CallIds : calls[b] # None => s \notin calls[b].slots
    BY <2>2 DEF IInv, SlotsBelongToCalls
  <2>7. Goal
    BY <1>0, <2>2, <2>3, <2>4, <2>5, <2>6, ZenonT(60)
  <2> QED
    BY <1>1, <1>b, <2>7, Zenon DEF SetupCall
<1>2. CASE SetupCongested
  BY <1>0, <1>2, <1>b DEF SetupCongested
<1>3. CASE SetupDuplex
  <2>1. UNCHANGED <<ctl, umac>>
    BY <1>3 DEF SetupDuplex
  <2>2. \A d \in CallIds : calls'[d] # None /\ calls'[d].phase = "active" =>
           calls'[d] = calls[d]
    <3>1. CASE UNCHANGED calls
      BY <3>1
    <3>2. CASE \E c \in CallIds, S \in SUBSET Slots :
                  calls' = [calls EXCEPT ![c] = NewCall(S, "setup")]
      BY <1>0, <3>2 DEF NewCall
    <3>3. \A c \in NextCallIds : c \in CallIds
      BY DEF NextCallIds
    <3>4. \A own, cir : \A s \in Picks(own, cir) : s \in Slots
      BY DEF Picks, Vacant, Usable
    <3>5. UNCHANGED calls \/ \E c \in NextCallIds, s \in Picks(owner, circuit) :
             \E own, cir : \E t \in Picks(own, cir) :
                calls' = [calls EXCEPT ![c] = NewCall({s, t}, "setup")]
      BY <1>3, Zenon DEF SetupDuplex
    <3>6. UNCHANGED calls \/ \E c \in CallIds, S \in SUBSET Slots :
             calls' = [calls EXCEPT ![c] = NewCall(S, "setup")]
      <4>1. SUFFICES ASSUME NEW c \in NextCallIds, NEW s \in Picks(owner, circuit),
                            NEW own, NEW cir, NEW t \in Picks(own, cir),
                            calls' = [calls EXCEPT ![c] = NewCall({s, t}, "setup")]
                     PROVE  \E b \in CallIds, S \in SUBSET Slots :
                               calls' = [calls EXCEPT ![b] = NewCall(S, "setup")]
        BY <3>5, Zenon
      <4>2. c \in CallIds /\ {s, t} \in SUBSET Slots
        BY <3>3, <3>4
      <4> QED
        BY <4>1, <4>2, Zenon
    <3> QED
      BY <3>1, <3>2, <3>6
  <2> QED
    BY <1>0, <1>b, <2>1, <2>2
<1>4. ASSUME NEW c \in CallIds, Connect(c) PROVE BearersOpen'
  <2>1. /\ calls'[c].slots = calls[c].slots /\ calls[c].slots \subseteq Slots
        /\ \A b \in CallIds \ {c} : calls'[b] = calls[b]
    BY <1>0, <1>4 DEF Connect, Call
  <2>2. \A s \in calls[c].slots : UmacSettles(s)'
    BY <1>4, <2>1, OpenSettles DEF Connect, IInv
  <2>3. \A t \in Slots \ calls[c].slots : ctl'[t] = ctl[t]
    BY <1>4 DEF Connect, Sent
  <2>4. Goal
    BY <1>0, <1>4, <1>a, <2>1, <2>2, <2>3 DEF Connect
  <2> QED
    BY <1>4, <1>b, <2>4 DEF Connect
<1>5. ASSUME NEW c \in CallIds, BeginRelease(c) PROVE BearersOpen'
  <2>1. /\ calls'[c].phase = "releasing"
        /\ \A b \in CallIds \ {c} : calls'[b] = calls[b]
    BY <1>0, <1>5 DEF BeginRelease, Call
  <2>2. UNCHANGED <<ctl, umac>>
    BY <1>5 DEF BeginRelease
  <2> QED
    BY <1>0, <1>b, <2>1, <2>2
<1>6. ASSUME NEW c \in CallIds, CompleteRelease(c) \/ ReleaseSetup(c) PROVE BearersOpen'
  <2>1. /\ calls[c] # None /\ calls'[c] = None
        /\ \A b \in CallIds \ {c} : calls'[b] = calls[b]
    BY <1>0, <1>6 DEF CompleteRelease, ReleaseSetup, Cleanup
  <2>2. umac' = umac /\ \A t \in Slots \ calls[c].slots : ctl'[t] = ctl[t]
    BY <1>6 DEF CompleteRelease, ReleaseSetup, Cleanup, Sent
  <2>3. Goal
    BY <1>0, <1>a, <2>1, <2>2
  <2> QED
    BY <1>b, <2>2, <2>3
<1>7. ASSUME NEW s \in Slots, Expire(s) PROVE BearersOpen'
  <2>1. umac' = umac /\ \A t \in Slots \ {s} : ctl'[t] = ctl[t]
    BY <1>7 DEF Expire, Sent
  <2> DEFINE c == circuit[s].call
  <2>2. /\ c \in CallIds /\ calls[c] # None /\ s \in calls[c].slots /\ calls[c] \in Call
    BY <1>7, InvFacts, Zenon DEF Expire, IInv, CircuitsBelongToCalls
  <2>3. \/ calls' = calls /\ ctl' = ctl
        \/ /\ calls' = [calls EXCEPT ![c].phase = "releasing", ![c].pre = {s}]
           /\ ctl' = ctl
        \/ calls' = [calls EXCEPT ![c] = None]
    BY <1>7 DEF Expire
  <2> HIDE DEF c
  <2>4. /\ \A b \in CallIds \ {c} : calls'[b] = calls[b]
        /\ \/ calls'[c] = calls[c] /\ ctl' = ctl
           \/ calls'[c].phase = "releasing"
           \/ calls'[c] = None
    BY <1>0, <2>2, <2>3 DEF Call
  <2>5. Goal
    BY <1>0, <1>a, <2>1, <2>2, <2>4, ZenonT(60)
  <2> QED
    BY <1>b, <2>1, <2>5
<1>8. ASSUME NEW s \in Slots, Deliver(s) PROVE BearersOpen'
  <2>1. /\ calls' = calls
        /\ \A t \in Slots \ {s} : ctl'[t] = ctl[t] /\ (t \in umac' <=> t \in umac)
    BY <1>0, <1>8 DEF Deliver
  <2> SUFFICES ASSUME NEW c \in CallIds, calls[c] # None, calls[c].phase = "active",
                      NEW t \in calls[c].slots
               PROVE  UmacSettles(t)'
    BY <2>1 DEF BearersOpen
  <2>2. UmacSettles(t) /\ t \in Slots
    BY <1>0 DEF BearersOpen
  <2>3. CASE t = s
    BY <1>8, <2>2, <2>3, DeliverSettles DEF IInv
  <2>4. CASE t # s
    BY <2>1, <2>2, <2>4, SettlesKept
  <2> QED
    BY <2>3, <2>4
<1>9. ASSUME UNCHANGED <<calls, ctl, umac>> PROVE BearersOpen'
  BY <1>9 DEF BearersOpen, UmacSettles
<1>10. CASE UNCHANGED vars
  BY <1>9, <1>10 DEF vars
<1>11. ASSUME NEW a \in Terminals, PdAssign(a) \/ PdQuit(a) PROVE BearersOpen'
  BY <1>9, <1>11 DEF PdAssign, PdQuit, cmceVars
<1>12. ASSUME NEW e \in BOOLEAN, PdTick(e) PROVE BearersOpen'
  BY <1>9, <1>12 DEF PdTick, cmceVars
<1> QED
  BY <1>1, <1>2, <1>3, <1>4, <1>5, <1>6, <1>7, <1>8, <1>10, <1>11, <1>12
     DEF Next, CmceNext, UmacNext

\* A connected call finds its bearers open at the UMAC as soon as the messages
\* already queued are delivered, whatever calls used the slots before and
\* however long the queue is.
THEOREM BearersStayOpen == Spec => []BearersOpen
<1>1. Init => BearersOpen
  BY DEF Init, BearersOpen
<1>2. IInv /\ BearersOpen /\ [Next]_vars => BearersOpen'
  BY BearersStep
<1> QED
  BY Invariance, <1>1, <1>2, PTL DEF Spec

-----------------------------------------------------------------------------
(* Packet data *)

\* While packet data has its slot reserved it has an assignment, and no
\* message that would clear the assignment is queued for the slot.
Reserved == owner[PdSlot] = "PacketData" => pd # None /\ ctl[PdSlot] = <<>>

\* Every step preserves the reservation invariant.
LEMMA ReservedStep == ASSUME IInv, Reserved, [Next]_vars PROVE Reserved'
<1> SUFFICES ASSUME owner'[PdSlot] = "PacketData"
             PROVE  pd' # None /\ ctl'[PdSlot] = <<>>
  BY DEF Reserved
<1>1. /\ owner \in [Slots -> {"free", "Cmce", "PacketData"}]
      /\ ctl \in [Slots -> Seq({"open", "close"})]
      /\ \A c \in CallIds : calls[c] # None => \A s \in calls[c].slots : owner[s] = "Cmce"
      /\ \A s \in Slots : circuit[s] # None => owner[s] = "Cmce"
  BY InvFacts DEF IInv, TypeOK, SlotsBelongToCalls
<1>2. ASSUME NEW ph \in {"active", "setup"}, NEW d \in BOOLEAN, SetupCall(ph, d)
      PROVE  pd' # None /\ ctl'[PdSlot] = <<>>
  <2>1. PICK p \in Picks(owner, circuit) :
          /\ owner' = Allocated(owner, circuit, p)
          /\ ctl' = IF ph = "active" THEN Sent({p}, "open") ELSE ctl
          /\ pd' = pd
    BY <1>2, Zenon DEF SetupCall
  <2>2. p \in Slots
    BY DEF Picks, Vacant, Usable
  <2>3. owner' = [t \in Slots |-> IF t = p THEN "Cmce" ELSE owner[t]]
    BY <2>1, <2>2, AllocatedNow
  <2>4. PdSlot # p /\ owner[PdSlot] = "PacketData"
    BY <2>3
  <2> QED
    BY <2>1, <2>4 DEF Reserved, Sent
<1>3. CASE SetupDuplex \/ SetupCongested
  <2>1. UNCHANGED <<ctl, pd>>
    BY <1>3, Zenon DEF SetupDuplex, SetupCongested
  <2>2. ASSUME NEW own, NEW cir, NEW s, Allocated(own, cir, s)[PdSlot] = "PacketData"
        PROVE  own[PdSlot] = "PacketData"
    BY <2>2 DEF Allocated
  <2>3. ASSUME NEW own, NEW S, Released(own, S)[PdSlot] = "PacketData"
        PROVE  own[PdSlot] = "PacketData"
    BY <2>3 DEF Released
  <2>4. owner[PdSlot] = "PacketData"
    <3>1. CASE SetupCongested
      BY <2>2, <3>1 DEF SetupCongested
    <3>2. CASE SetupDuplex
      <4>1. PICK own, cir, t, S, p :
              /\ own = Allocated(owner, circuit, p)
              /\ \/ owner' = Allocated(own, cir, t)
                 \/ owner' = Released(Allocated(own, cir, t), S)
        BY <3>2, Zenon DEF SetupDuplex
      <4>2. Allocated(own, cir, t)[PdSlot] = "PacketData"
        BY <2>3, <4>1
      <4>3. own[PdSlot] = "PacketData"
        BY <2>2, <4>2
      <4> QED
        BY <2>2, <4>1, <4>3
    <3> QED
      BY <1>3, <3>1, <3>2
  <2> QED
    BY <2>1, <2>4 DEF Reserved
<1>4. ASSUME NEW c \in CallIds,
             Connect(c) \/ BeginRelease(c) \/ CompleteRelease(c) \/ ReleaseSetup(c)
      PROVE  pd' # None /\ ctl'[PdSlot] = <<>>
  <2>1. owner[PdSlot] = "PacketData" /\ pd' = pd
    BY <1>4 DEF Connect, BeginRelease, CompleteRelease, ReleaseSetup, Cleanup, Released
  <2>2. PdSlot \notin calls[c].slots
    BY <1>1, <1>4, <2>1 DEF Connect, BeginRelease, CompleteRelease, ReleaseSetup
  <2>3. ctl'[PdSlot] = ctl[PdSlot]
    BY <1>1, <1>4, <2>2 DEF Connect, BeginRelease, CompleteRelease, ReleaseSetup, Cleanup, Sent
  <2> QED
    BY <2>1, <2>3 DEF Reserved
<1>5. ASSUME NEW s \in Slots, Expire(s)
      PROVE  pd' # None /\ ctl'[PdSlot] = <<>>
  <2>1. owner[PdSlot] = "PacketData" /\ pd' = pd
    BY <1>5 DEF Expire, Released
  <2>2. PdSlot # s
    BY <1>1, <1>5, <2>1 DEF Expire
  <2> QED
    BY <1>5, <2>1, <2>2 DEF Expire, Sent, Reserved
<1>6. ASSUME NEW s \in Slots, Deliver(s)
      PROVE  pd' # None /\ ctl'[PdSlot] = <<>>
  BY <1>1, <1>6 DEF Deliver, Reserved
<1>7. ASSUME NEW a \in Terminals, PdAssign(a)
      PROVE  pd' # None /\ ctl'[PdSlot] = <<>>
  BY <1>1, <1>7 DEF PdAssign, PdReleased, Drained
<1>8. ASSUME PdTick(TRUE) \/ PdTick(FALSE) \/ \E a \in Terminals : PdQuit(a)
      PROVE  FALSE
  BY <1>1, <1>8 DEF PdTick, PdQuit, PdReleased
<1>9. CASE UNCHANGED vars
  BY <1>9 DEF vars, Reserved
<1> QED
  BY <1>2, <1>3, <1>4, <1>5, <1>6, <1>7, <1>8, <1>9, Zenon DEF Next, CmceNext, UmacNext

\* Packet data never holds its slot in the allocator without an assignment at
\* the scheduler that will give it back.
THEOREM ReservationHeld == Spec => []PacketDataReservationHeld
<1>1. Init => Reserved
  BY DEF Init, Reserved
<1>2. IInv /\ Reserved /\ [Next]_vars => Reserved'
  BY ReservedStep
<1>3. Reserved => PacketDataReservationHeld
  BY DEF Reserved, PacketDataReservationHeld
<1> QED
  BY Invariance, <1>1, <1>2, <1>3, PTL DEF Spec

=============================================================================

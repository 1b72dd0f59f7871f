----------------------------- MODULE FloorSystem -----------------------------
(***************************************************************************)
(* CMCE, the UMAC and Brew around a group call: the three entities share   *)
(* no state, only the router's FIFO queue, so each acts on what the others *)
(* were doing a few messages ago.                                          *)
(***************************************************************************)
EXTENDS UmacFloor, BrewGroup

\* History: the bearers whose last call ended without a Close to the UMAC, because its
\* circuit had expired under the pending release.
VARIABLE unclosed

vars == <<affil, ext, call, mq, umac, connected, active, hanging, fwd, server, unclosed>>

Init == GCInit /\ UmacInit /\ BrewInit /\ unclosed = {}

-----------------------------------------------------------------------------
\* CMCE handles a message (cmce_bs.rs, rx_prim).
CmceReceives(m, q) ==
    \/ m.type = "UlInactivityTimeout" /\ UlInactivityTimeout(m.bearer, q)
    \/ m.type = "NetworkCallStart" /\ NetworkCallStart(m.arg, q)
    \/ m.type = "NetworkCallEnd" /\ NetworkCallEnd(m.arg, q)
    \/ m.type = "Deaffiliate" /\ Deaffiliated(m.arg.issi, m.arg.group, q)
    \/ m.type = "Deregister" /\ ExternalDeparts(m.arg.issi, m.arg.group, q)

\* MessageRouter::deliver_message: the oldest message goes to its entity.
DeliverNext ==
    /\ mq # <<>>
    /\ LET m == Head(mq)
           q == Tail(mq)
       IN  \/ m.to = "umac" /\ UmacReceives(m, q) /\ UNCHANGED <<cmceVars, brewVars>>
           \/ m.to = "brew" /\ BrewReceives(m, q) /\ UNCHANGED <<cmceVars, umac>>
           \/ m.to = "cmce" /\ CmceReceives(m, q) /\ UNCHANGED <<umac, brewVars>>

CmceSteps ==
    /\ \/ \E i \in Radios : RadioSteps(i)
       \/ \E b \in Bearers : TickSteps(b)
       \/ connected /\ ExternalSteps
       \/ \E i \in Kickable : Kick(i)
    /\ UNCHANGED <<umac, brewVars>>

UmacSteps ==
    /\ \E b \in Bearers : Voice(b) \/ CheckUlInactivity(b)
    /\ UNCHANGED <<cmceVars, brewVars>>

BrewSteps ==
    /\ \/ Connect
       \/ Disconnect
       \/ \E n \in NetStart : GroupTx(n)
       \/ \E u \in Uuids : GroupIdle(u) \/ ReleaseZeroMedia(u)
       \/ \E g \in Groups : ExpireHanging(g)
    /\ UNCHANGED <<cmceVars, umac>>

NoteUnclosed ==
    unclosed' = {b \in Bearers : /\ call'[b] = None
                                 /\ b \in unclosed \/ (call[b] # None /\ call[b].circ = "gone")}

Next == (DeliverNext \/ CmceSteps \/ UmacSteps \/ BrewSteps) /\ NoteUnclosed

Spec == Init /\ [][Next]_vars

-----------------------------------------------------------------------------
(* Properties *)

\* Nothing is on its way: the entities have told each other everything.
Settled == mq = <<>>
Undecided(c) == c.act # None \/ c.ready # None \/ c.tail # None

\* The bearer of every call is open in the UMAC, and no bearer outlives its call, but
\* for the one case in which CMCE says nothing: the circuit of the call expired while
\* its release was pending.
BearersFollowCalls ==
    Settled => \A b \in Bearers : umac[b].open <=> call[b] # None \/ b \in unclosed

\* Whoever holds the floor is heard: the UMAC accepts the uplink of exactly the
\* radio CMCE granted the floor to, and is not in hangtime, after whatever mix of
\* hand-overs, network speakers, silent speakers and lost grants.
SpeakerHeard ==
    Settled => \A b \in Bearers : Live(b) /\ call[b].tx /\ ~Undecided(call[b]) =>
        ~umac[b].hang /\ umac[b].speaker = call[b].speaker

\* Speech goes to the bearer of its call: once CMCE has reported a network speaker ready,
\* Brew plays the session out on the bearer of the call that carries it, also when the
\* session took over the resources of one that hangs and those were already on their
\* way out ("NetworkCallReady, if it does come, will simply overwrite these").
PlayoutFollowsReady ==
    Settled => \A b \in Bearers :
        LET c == call[b]
        IN  /\ Live(b) /\ c.tx /\ c.speaker \in Remotes /\ c.ready = None
            /\ c.uuid # None /\ active[c.uuid] # None
            => active[c.uuid].bearer = b

\* The state of the three entities keeps its type: what each stores of a message
\* (a bearer, a speaker, a session) is what the sender can have put there.
SystemTypeOK == TypeOK /\ UmacTypeOK /\ BrewTypeOK

\* No session without a call: as long as Brew takes the speech of a network session for
\* playing it out, a call of CMCE carries the session, so its end or its refusal will
\* reach Brew (drop_network_call); a session that no call carries would feed a bearer
\* that is given to somebody else.
SessionsBacked ==
    Settled => \A u \in Uuids : active[u] # None =>
        \E b \in Bearers : call[b] # None /\ u \in {call[b].uuid, call[b].rel}

\* UMAC keeps of a bearer what CMCE keeps of it: circuits are open for the calls there
\* are, and for no others but those whose circuit expired under their release.
BearersAgree == SystemTypeOK /\ BearersFollowCalls

\* What Brew keeps of a session agrees with CMCE's calls: a call carries it, and its
\* speech goes to the bearer of that call.
SessionsAgree == SessionsBacked /\ PlayoutFollowsReady

-----------------------------------------------------------------------------
(* Bounds for TLC: who and what takes part in a behaviour.  Not every combination is   *)
(* small enough, so each cast names the subscribers, bearers and sessions it has, and  *)
(* which of floor requests, listeners behind Brew, silent speakers and expiring        *)
(* circuits there are.                                                                 *)

CONSTANT Casts
VARIABLE cast

InCast ==
    /\ \A i \in Radios \ cast, g \in Groups : ~Affiliated(i, g)
    /\ \A u \in Uuids : active[u] # None => {u, active[u].issi} \subseteq cast
    /\ \A b \in Bearers : call[b] # None =>
         /\ b \in cast /\ call[b].origin \in cast
         /\ "demands" \in cast \/ call[b].act = None
         /\ "expiry" \in cast \/ call[b].circ = "held"
    /\ \A a \in ext : a[1] \in cast /\ "external" \in cast
    /\ "silence" \in cast \/ \A n \in 1..Len(mq) : mq[n].type # "UlInactivityTimeout"

CastInit == Init /\ cast \in Casts
CastNext == UNCHANGED cast /\ Next /\ InCast'
CastSpec == CastInit /\ [][CastNext]_<<vars, cast>>

\* Nothing that the entities do depends on fwd and server.
View == <<affil, ext, call, mq, umac, connected, active, hanging, unclosed, cast>>
\* Bearers and sessions are interchangeable, and so are casts that differ only in them.
LOCAL INSTANCE TLC
Symmetry == Permutations(Bearers) \cup Permutations(Uuids)
=============================================================================

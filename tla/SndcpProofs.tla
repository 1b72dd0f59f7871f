---------------------------- MODULE SndcpProofs ---------------------------
(***************************************************************************)
(* SNDCP, the MLE and the lower layers agree on packet data, for every     *)
(* pool, workload, handle range and queue length.                          *)
(***************************************************************************)
EXTENDS SndcpSteps

------------------------------------------------------------------------------
(* Data that SNDCP receives *)

\* After a PDU, a request there was is as promised: its handle was given out before.
LEMMA PromiseReceived ==
    ASSUME NEW s, Good(s), NEW x, NEW i, Received(s, x, i), NEW S, NEW r, Promise(s, S, r)
    PROVE  Promise(x.s, S, r)
<1>1. s.next \in Nat /\ x.s.next \in Nat /\ x.s.next >= s.next
  BY Zenon DEF Good, Pending, Received
<1>2. Live(x.s, r) => Live(s, r) /\ x.s.handoffs[r.upper] = s.handoffs[r.upper]
  BY <1>1 DEF Live, Received, Promise
<1> QED
  BY <1>1, <1>2, SMTT(30) DEF Promise

\* The same of a message.
LEMMA MessageReceived ==
    ASSUME NEW s, Good(s), NEW x, NEW i, Received(s, x, i), NEW S, NEW m, Message(s, S, m)
    PROVE  Message(x.s, S, m)
<1>1. s.next \in Nat /\ x.s.next \in Nat /\ x.s.next >= s.next
  BY Zenon DEF Good, Pending, Received
<1>2. ASSUME m.to = "Sndcp", NEW h \in DOMAIN x.s.handoffs, Reports(m, h)
      PROVE  x.s.handoffs[h].issi \in S
  <2>1. h \in Nat /\ h < s.next
    BY <1>2, Zenon DEF Reports, Message
  <2>2. h \in DOMAIN s.handoffs /\ x.s.handoffs[h] = s.handoffs[h]
    BY <1>1, <2>1 DEF Received
  <2> QED
    BY <1>2, <2>2, Zenon DEF Message
<1> QED
  BY <1>1, <1>2, SMTT(30) DEF Message

\* A PDU alone puts nobody on the channel, unless that is assumed.
LEMMA OffReceived ==
    ASSUME NEW s, Good(s), NEW x, NEW i \in Issis, Received(s, x, i), NEW j \in Issis,
           NEW A, NEW S, \A r \in A : Promise(s, S, r),
           NEW Q, \A m \in Q : Message(s, S, m), NEW R \in SUBSET Q,
           Off(work.assume, s, A, Q, j)
    PROVE  Off(work.assume, x.s, A, R, j)
<1>1. s.next \in Nat
  BY Zenon DEF Good, Pending
<1>2. work.assume \/ ~ Ready(x.s, j)
  <2>1. CASE i = j
    BY <2>1, Zenon DEF Off, Received
  <2>2. CASE i # j
    BY <2>2, Zenon DEF Off, Received, Ready
  <2> QED
    BY <2>1, <2>2, Zenon
<1>3. \A r \in A : Live(x.s, r) => Live(s, r) /\ x.s.handoffs[r.upper] = s.handoffs[r.upper]
  BY <1>1, SMTT(30) DEF Live, Received, Promise
<1>4. ASSUME NEW m \in R, NEW h \in DOMAIN x.s.handoffs, Reports(m, h)
      PROVE  h \in DOMAIN s.handoffs /\ x.s.handoffs[h] = s.handoffs[h]
  <2>1. h \in Nat /\ h < s.next
    BY <1>4, Zenon DEF Reports, Message
  <2> QED
    BY <1>1, <2>1, SMTT(30) DEF Received
<1> QED
  BY <1>2, <1>3, <1>4, Zenon DEF Off

\* rx_ltpd_mle_unitdata_ind and the request to the MLE that may follow.
LEMMA UnitdataStep ==
    ASSUME SetFacts, IInv, SndcpUnitdata
    PROVE  IInv'
<1> DEFINE m == Head(inbox)
           i == m.from
           x == RxUnitdata(sn, i, m.pdu, m.link)
           t == LtpdMleUnitdataReq(mle, x.h)
           r == Request(t.h, "Sndcp", x.h, x.rep)
<1>1. /\ inbox # << >> /\ m.to = "Sndcp" /\ m.kind = "Unitdata" /\ Free(mle)
      /\ inbox' = Tail(inbox) /\ gone' = gone \ {i} /\ UNCHANGED <<work, umac, sentTo>>
      /\ sn' = x.s
      /\ x.rep = None => mle' = mle /\ air' = air
      /\ x.rep # None => mle' = t.m /\ air' = air \cup {r}
  <2> HIDE DEF x
  <2> QED
    BY ZenonT(60) DEF SndcpUnitdata, RespondWith, ToLlc, x
<1>2. /\ IsQueue(inbox) /\ IsQueue(Tail(inbox)) /\ m \in Range(inbox)
      /\ Range(inbox) = {m} \cup Range(Tail(inbox)) /\ Message(sn, sentTo, m)
  BY <1>1, TakeFacts, ZenonT(60) DEF IInv, Queued
<1>3. ASSUME NEW j, Told(Range(inbox), j) PROVE Told(Range(Tail(inbox)), j)
  BY <1>1, <1>2, <1>3, ZenonT(60) DEF Told
<1> HIDE DEF m
<1>4. Good(sn) /\ i \in Issis
  BY <1>1, <1>2 DEF IInv, Message
<1>5. Received(sn, x, i)
  <2>1. /\ m.link \in Links
        /\ m.pdu.k \in {"Activate", "Request"} => m.pdu.nsapi \in Nsapis
        /\ m.pdu.k = "Reconnect" => m.pdu.nsapi \in Nsapis \cup {None}
    BY <1>1, <1>2 DEF Message
  <2> QED
    BY <1>4, <2>1, UnitdataReceived, SMTT(30)
<1> HIDE DEF x, i
<1>6. Adds(mle, t, "Sndcp", x.h)
  <2>1. MleGood(mle) /\ Free(mle)
    BY <1>1, Zenon DEF IInv
  <2> QED
    BY <2>1, TrackFacts, Zenon DEF LtpdMleUnitdataReq
<1> HIDE DEF t
<1>7. IsRequest(r) /\ r.h = t.h /\ r.user = "Sndcp" /\ r.upper = x.h /\ r.rep = x.rep /\ r.stage = "Llc"
  BY Zenon DEF IsRequest, Request
<1> HIDE DEF r
<1>8. Kinds'
  BY <1>1, Zenon DEF IInv, Kinds
<1>9. MleGood(mle)' /\ Tracked(air, mle.pend)'
  <2>1. CASE x.rep = None
    BY <1>1, <2>1 DEF IInv, MleGood, Tracked
  <2>2. CASE x.rep # None
    <3>1. Tracked(air \cup {r}, t.m.pend)
      BY <1>6, <1>7, TrackedMore DEF IInv, Adds
    <3> QED
      BY <1>1, <1>6, <2>2, <3>1, Zenon DEF Adds
  <2> QED
    BY <2>1, <2>2
<1>10. x.rep # None => Promise(x.s, sentTo, r)
  <2>1. x.rep # None => /\ x.h = sn.next /\ x.s.next > sn.next /\ x.rep.issi = i /\ sn.next \in Nat
                        /\ x.h \notin DOMAIN sn.handoffs
    BY <1>4, <1>5 DEF Received, Good, Pending
  <2>2. x.rep # None /\ x.h \in DOMAIN x.s.handoffs =>
          x.s.handoffs[x.h].issi = i /\ x.rep.chan = "Replace"
    BY <1>5, <2>1, Zenon DEF Received
  <2> QED
    BY <1>4, <1>7, <2>1, <2>2, Zenon DEF Promise, Live
<1>11. \A q \in air : IsRequest(q) /\ Promise(sn, sentTo, q)
  BY Zenon DEF IInv, Promised
<1>12. Promised'
  <2>1. \A q \in air : Promise(x.s, sentTo, q)
    BY <1>4, <1>5, <1>11, PromiseReceived
  <2> QED
    BY <1>1, <1>7, <1>10, <1>11, <2>1, SMTT(30) DEF Promised
<1>13. \A n \in Range(inbox) : Message(sn, sentTo, n)
  BY Zenon DEF IInv, Queued
<1>14. Queued'
  <2>1. \A n \in Range(Tail(inbox)) : Message(x.s, sentTo, n)
    BY <1>2, <1>4, <1>5, <1>13, MessageReceived, SMTT(30)
  <2> QED
    BY <1>1, <1>2, <2>1, SMTT(30) DEF Queued
<1>15. ReadyWasTransmitted'
  BY <1>1, <1>5 DEF IInv, ReadyWasTransmitted, Received, Ready
<1>16. Silenced'
  <2>1. gone \subseteq Issis /\ \A j \in gone : Forgotten(sn, j)
    BY Zenon DEF IInv, Kinds, Silenced
  <2>2. \A j \in gone \ {i} : Forgotten(x.s, j)
    BY <1>5, <2>1, ForgottenReceived, SMTT(30)
  <2> QED
    BY <1>1, <2>2 DEF Silenced
<1>17. Lost'
  <2>1. ASSUME NEW j \in umac.lost
        PROVE  Told(Range(Tail(inbox)), j) \/ Off(work.assume, x.s, air', Range(Tail(inbox)), j)
    <3>1. j \in Issis
      BY Zenon DEF IInv, Kinds
    <3>2. CASE Told(Range(inbox), j)
      BY <1>3, <3>2, SMTT(30)
    <3>3. CASE Off(work.assume, sn, air, Range(inbox), j)
      <4>1. Off(work.assume, x.s, air, Range(Tail(inbox)), j)
        BY <1>2, <1>4, <1>5, <1>11, <1>13, <3>1, <3>3, OffReceived, SMTT(30)
      <4> QED
        BY <1>1, <1>7, <4>1, SMTT(30) DEF Off
    <3> QED
      BY <3>2, <3>3 DEF IInv, Lost
  <2> QED
    BY <1>1, <2>1, SMTT(30) DEF Lost
<1>18. Good(sn)'
  BY <1>1, <1>5 DEF Received
<1> QED
  BY <1>8, <1>9, <1>12, <1>14, <1>15, <1>16, <1>17, <1>18, SMTT(30) DEF IInv

------------------------------------------------------------------------------
(* Steps of the rest of the base station *)

\* More terminals were sent an allocation.
LEMMA SentMore ==
    ASSUME NEW s, NEW S, NEW U, S \subseteq U
    PROVE  /\ \A r : Promise(s, S, r) => Promise(s, U, r)
           /\ \A m : Message(s, S, m) => Message(s, U, m)
<1>1. \A r : Promise(s, S, r) => Promise(s, U, r)
  BY Zenon DEF Promise
<1>2. \A m : Message(s, S, m) => Message(s, U, m)
  BY Zenon DEF Message
<1> QED
  BY <1>1, <1>2, SMTT(30)

\* What SNDCP has is not touched.
LEMMA SndcpSame ==
    ASSUME IInv, sn' = sn, sentTo \subseteq sentTo', UNCHANGED <<work, gone>>
    PROVE  Good(sn)' /\ ReadyWasTransmitted' /\ Silenced'
BY Zenon DEF IInv, ReadyWasTransmitted, Silenced

\* A message more, or none.
LEMMA QueueMore ==
    ASSUME IInv, sn' = sn, sentTo \subseteq sentTo', NEW m, Message(sn, sentTo', m),
           inbox' = inbox \o <<m>> \/ inbox' = inbox
    PROVE  /\ Queued' /\ Range(inbox) \subseteq Range(inbox')
           /\ Range(inbox') \subseteq Range(inbox) \cup {m}
<1>1. IsQueue(inbox) /\ \A n \in Range(inbox) : Message(sn, sentTo, n)
  BY Zenon DEF IInv, Queued
<1>2. \A n \in Range(inbox) : Message(sn, sentTo', n)
  BY <1>1, SentMore, Zenon
<1>3. CASE inbox' = inbox
  BY <1>1, <1>2, <1>3 DEF Queued
<1>4. CASE inbox' = inbox \o <<m>>
  <2>1. IsQueue(inbox') /\ Range(inbox') = Range(inbox) \cup {m}
    BY <1>1, <1>4, EmitFacts, SMTT(30)
  <2> QED
    BY <1>2, <2>1 DEF Queued
<1> QED
  BY <1>3, <1>4

\* A loss that SNDCP is yet to hear of stays one, and a message that is no report of the
\* terminal changes nothing.
LEMMA LossStays ==
    ASSUME NEW assumed, NEW s, NEW A, NEW Q, NEW R, NEW m, NEW i, Q \subseteq R,
           R \subseteq Q \cup {m}, Told(Q, i) \/ Off(assumed, s, A, Q, i),
           \A h \in DOMAIN s.handoffs : s.handoffs[h].issi = i => ~ Reports(m, h)
    PROVE  Told(R, i) \/ Off(assumed, s, A, R, i)
<1>1. CASE Told(Q, i)
  BY <1>1, Zenon DEF Told
<1>2. CASE Off(assumed, s, A, Q, i)
  BY <1>2, Zenon DEF Off
<1> QED
  BY <1>1, <1>2

\* A message that is no report.
LEMMA PlainMessage ==
    ASSUME IInv, NEW m, m.kind # "Report", Message(sn, sentTo, m),
           UNCHANGED <<work, sn, mle, air, umac, sentTo, gone>>, inbox' = inbox \o <<m>>
    PROVE  IInv'
<1>1. /\ Queued' /\ Range(inbox) \subseteq Range(inbox')
      /\ Range(inbox') \subseteq Range(inbox) \cup {m}
  BY QueueMore, Zenon
<1>2. Lost'
  <2>1. \A i \in umac.lost : Told(Range(inbox'), i) \/ Off(work.assume, sn, air, Range(inbox'), i)
    BY <1>1, LossStays, Zenon DEF IInv, Lost, Reports
  <2> QED
    BY <2>1, Zenon DEF Lost
<1>3. Kinds' /\ MleGood(mle)' /\ Tracked(air, mle.pend)' /\ Promised'
  BY Zenon DEF IInv, Kinds, MleGood, Tracked, Promised
<1>4. Good(sn)' /\ ReadyWasTransmitted' /\ Silenced'
  BY SndcpSame, Zenon
<1> QED
  BY <1>1, <1>2, <1>3, <1>4, SMTT(30) DEF IInv

\* A PDU comes in.
LEMMA DataIndStep ==
    ASSUME IInv, NEW i \in work.issis, NEW d \in work.pdus, NEW link \in work.links,
           RxTlaDataInd(i, d, link)
    PROVE  IInv'
<1> DEFINE m == [to |-> "Sndcp", kind |-> "Unitdata", from |-> i, pdu |-> d, link |-> link]
<1>1. /\ i \in Issis /\ link \in Links
      /\ d.k \in {"Activate", "Request"} => d.nsapi \in Nsapis
      /\ d.k = "Reconnect" => d.nsapi \in Nsapis \cup {None}
  BY SndcpAssumption, Zenon DEF IInv, Kinds
<1>2. inbox' = inbox \o <<m>> /\ UNCHANGED <<work, sn, mle, air, umac, sentTo, gone>>
  BY Zenon DEF RxTlaDataInd, Emit, RoutePrefixedTlSdu
<1>3. /\ m.to = "Sndcp" /\ m.kind = "Unitdata" /\ m.from = i /\ m.pdu = d /\ m.link = link
  BY Zenon
<1> HIDE DEF m
<1>4. Message(sn, sentTo, m)
  BY <1>1, <1>3 DEF Message, Reports
<1> QED
  BY <1>2, <1>3, <1>4, PlainMessage, SMTT(30)

\* MM tells of a deregistration.
LEMMA DeregistersStep ==
    ASSUME IInv, NEW i \in work.issis, MmDeregisters(i)
    PROVE  IInv'
<1> DEFINE m == [to |-> "Sndcp", kind |-> "Deregister", from |-> i]
<1>1. i \in Issis
  BY SndcpAssumption, Zenon DEF IInv, Kinds
<1>2. inbox' = inbox \o <<m>> /\ UNCHANGED <<work, sn, mle, air, umac, sentTo, gone>>
  BY Zenon DEF MmDeregisters, Emit
<1>3. m.to = "Sndcp" /\ m.kind = "Deregister" /\ m.from = i
  BY Zenon
<1> HIDE DEF m
<1>4. Message(sn, sentTo, m)
  BY <1>1, <1>3 DEF Message, Reports
<1> QED
  BY <1>2, <1>3, <1>4, PlainMessage

\* A message that is not for SNDCP.
LEMMA OtherUserStep ==
    ASSUME IInv, OtherUser
    PROVE  IInv'
<1>1. /\ inbox # << >> /\ Head(inbox).to # "Sndcp" /\ inbox' = Tail(inbox)
      /\ UNCHANGED <<work, sn, mle, air, umac, sentTo, gone>>
  BY Zenon DEF OtherUser
<1>2. /\ IsQueue(inbox) /\ IsQueue(Tail(inbox)) /\ Range(inbox) = {Head(inbox)} \cup Range(Tail(inbox))
  BY <1>1, TakeFacts, Zenon DEF IInv, Queued
<1>3. Queued'
  BY <1>1, <1>2 DEF IInv, Queued
<1>4. Lost'
  <2>1. ASSUME NEW i \in umac.lost
        PROVE  Told(Range(Tail(inbox)), i) \/ Off(work.assume, sn, air, Range(Tail(inbox)), i)
    BY <1>1, <1>2, SMTT(30) DEF IInv, Lost, Told, Off
  <2> QED
    BY <1>1, <2>1, SMTT(30) DEF Lost
<1>5. Kinds' /\ MleGood(mle)' /\ Tracked(air, mle.pend)' /\ Promised'
  BY <1>1, Zenon DEF IInv, Kinds, MleGood, Tracked, Promised
<1>6. Good(sn)' /\ ReadyWasTransmitted' /\ Silenced'
  BY <1>1, SndcpSame
<1> QED
  BY <1>3, <1>4, <1>5, <1>6 DEF IInv

\* A request of MM or CMCE, or a broadcast.
LEMMA OtherRequestStep ==
    ASSUME SetFacts, IInv, NEW user, user # "Sndcp", NEW upper,
           OtherRequest(user, upper, TrackTlaDataRequest(mle, user, upper))
    PROVE  IInv'
<1> DEFINE t == TrackTlaDataRequest(mle, user, upper)
           r == Request(t.h, user, upper, None)
<1>1. /\ Free(mle) /\ mle' = t.m /\ air' = air \cup {r}
      /\ UNCHANGED <<work, sn, umac, inbox, sentTo, gone>>
  BY Zenon DEF OtherRequest, ToLlc
<1>2. Adds(mle, t, user, upper)
  <2>1. MleGood(mle)
    BY Zenon DEF IInv
  <2> QED
    BY <1>1, <2>1, TrackFacts, Zenon
<1> HIDE DEF t
<1>3. IsRequest(r) /\ r.h = t.h /\ r.user = user /\ r.upper = upper /\ r.rep = None
  BY Zenon DEF IsRequest, Request
<1> HIDE DEF r
<1>4. MleGood(mle)' /\ Tracked(air, mle.pend)'
  <2>1. Tracked(air \cup {r}, t.m.pend)
    BY <1>2, <1>3, TrackedMore, SMTT(30) DEF IInv, Adds
  <2> QED
    BY <1>1, <1>2, <2>1, SMTT(30) DEF Adds
<1>5. Promised'
  BY <1>1, <1>3, Zenon DEF IInv, Promised, Promise, Live
<1>6. Queued' /\ Kinds'
  BY <1>1, Zenon DEF IInv, Queued, Kinds
<1>7. Lost'
  <2>1. ASSUME NEW i \in umac.lost
        PROVE  Told(Range(inbox), i) \/ Off(work.assume, sn, air \cup {r}, Range(inbox), i)
    BY <1>3, Zenon DEF IInv, Lost, Off, Live
  <2> QED
    BY <1>1, <2>1, SMTT(30) DEF Lost
<1>8. Good(sn)' /\ ReadyWasTransmitted' /\ Silenced'
  BY <1>1, SndcpSame, Zenon
<1> QED
  BY <1>4, <1>5, <1>6, <1>7, <1>8, SMTT(30) DEF IInv

\* The UMAC's state field by field.
LEMMA UmacFields ==
    ASSUME NEW u, NEW a, NEW b, NEW c, NEW d,
           u = [owner |-> a, pd |-> b, known |-> c, lost |-> d], NEW o, NEW p, NEW k, NEW l
    PROVE  /\ [u EXCEPT !.known = k, !.lost = l] = [owner |-> a, pd |-> b, known |-> k, lost |-> l]
           /\ [u EXCEPT !.owner = o, !.pd = p] = [owner |-> o, pd |-> p, known |-> c, lost |-> d]
           /\ [u EXCEPT !.pd = p, !.lost = l] = [owner |-> a, pd |-> p, known |-> c, lost |-> l]
<1> DEFINE x == [u EXCEPT !.known = k]
           y == [u EXCEPT !.owner = o]
           z == [u EXCEPT !.pd = p]
<1>1. /\ x = [owner |-> a, pd |-> b, known |-> k, lost |-> d]
      /\ y = [owner |-> o, pd |-> b, known |-> c, lost |-> d]
      /\ z = [owner |-> a, pd |-> p, known |-> c, lost |-> d]
  OBVIOUS
<1> HIDE DEF x, y, z
<1>2. [x EXCEPT !.lost = l] = [owner |-> a, pd |-> b, known |-> k, lost |-> l]
  BY <1>1
<1>3. [y EXCEPT !.pd = p] = [owner |-> o, pd |-> p, known |-> c, lost |-> d]
  BY <1>1
<1>4. [z EXCEPT !.lost = l] = [owner |-> a, pd |-> p, known |-> c, lost |-> l]
  BY <1>1
<1> QED
  BY <1>2, <1>3, <1>4, ZenonT(60) DEF x, y, z

\* A state of the UMAC of the right shape.
LEMMA KindsAfter ==
    ASSUME Kinds, UNCHANGED <<work, gone>>, sentTo' \subseteq Issis,
           NEW o \in {"Free", "PacketData", "Voice"}, NEW p \in Issis \cup {None},
           NEW k \in SUBSET Issis, NEW l \in SUBSET Issis,
           umac' = [owner |-> o, pd |-> p, known |-> k, lost |-> l]
    PROVE  Kinds' /\ umac'.lost = l
<1>1. umac'.owner = o /\ umac'.pd = p /\ umac'.known = k /\ umac'.lost = l
  BY Zenon
<1> QED
  BY <1>1, Zenon DEF Kinds

\* A change of the UMAC's state that loses nobody.
LEMMA SlotStep ==
    ASSUME IInv, NEW o \in {"Free", "PacketData", "Voice"}, NEW p \in Issis \cup {None},
           umac' = [owner |-> o, pd |-> p, known |-> umac.known, lost |-> umac.lost],
           UNCHANGED <<work, sn, mle, air, inbox, sentTo, gone>>
    PROVE  IInv'
<1>1. Kinds' /\ umac'.lost = umac.lost
  BY Zenon DEF IInv, Kinds
<1>2. MleGood(mle)' /\ Tracked(air, mle.pend)' /\ Promised' /\ Queued'
  BY Zenon DEF IInv, MleGood, Tracked, Promised, Queued
<1>3. Lost'
  BY <1>1, Zenon DEF IInv, Lost
<1>4. Good(sn)' /\ ReadyWasTransmitted' /\ Silenced'
  BY SndcpSame, Zenon
<1> QED
  BY <1>1, <1>2, <1>3, <1>4, SMTT(30) DEF IInv

\* The end of an assignment.
LEMMA EndAssignmentIs ==
    ASSUME Kinds, NEW i
    PROVE  \E o \in {"Free", "PacketData", "Voice"}, p \in Issis \cup {None} :
             EndAssignmentOf(i) = [owner |-> o, pd |-> p, known |-> umac.known, lost |-> umac.lost]
<1>1. umac = [owner |-> umac.owner, pd |-> umac.pd, known |-> umac.known, lost |-> umac.lost]
  BY Zenon DEF Kinds
<1>2. CASE umac.pd = i
  <2> DEFINE o == IF umac.owner = "PacketData" THEN "Free" ELSE umac.owner
  <2>1. o \in {"Free", "PacketData", "Voice"}
    BY Zenon DEF Kinds
  <2>2. EndAssignmentOf(i) = [umac EXCEPT !.pd = None, !.owner = o]
    BY <1>2, <1>1 DEF EndAssignmentOf
  <2> HIDE DEF o
  <2>3. EndAssignmentOf(i) = [owner |-> o, pd |-> None, known |-> umac.known, lost |-> umac.lost]
    BY <1>1, <2>2, Zenon
  <2> QED
    BY <2>1, <2>3, Zenon
<1>3. CASE umac.pd # i
  <2>1. EndAssignmentOf(i) = umac
    BY <1>3, Zenon DEF EndAssignmentOf
  <2>2. umac.owner \in {"Free", "PacketData", "Voice"} /\ umac.pd \in Issis \cup {None}
    BY Zenon DEF Kinds
  <2> QED
    BY <1>1, <2>1, <2>2
<1> QED
  BY <1>2, <1>3

\* Calls take and leave the slot, and assignments run out.
LEMMA SlotSteps ==
    ASSUME IInv, CallTakesSlot \/ CallLeavesSlot \/ AssignmentExpires
    PROVE  IInv'
<1>0. /\ umac = [owner |-> umac.owner, pd |-> umac.pd, known |-> umac.known, lost |-> umac.lost]
      /\ umac.pd \in Issis \cup {None} /\ Kinds
  BY Zenon DEF IInv, Kinds
<1>1. UNCHANGED <<work, sn, mle, air, inbox, sentTo, gone>>
  BY Zenon DEF CallTakesSlot, CallLeavesSlot, AssignmentExpires
<1>2. CASE CallTakesSlot \/ CallLeavesSlot
  <2>1. PICK o \in {"Free", "Voice"} : umac' = [umac EXCEPT !.owner = o]
    BY <1>2 DEF CallTakesSlot, CallLeavesSlot
  <2>2. umac' = [owner |-> o, pd |-> umac.pd, known |-> umac.known, lost |-> umac.lost]
    BY <1>0, <2>1
  <2> QED
    BY <1>0, <1>1, <2>2, SlotStep
<1>3. CASE AssignmentExpires
  <2>1. umac' = EndAssignmentOf(umac.pd)
    BY <1>3 DEF AssignmentExpires
  <2>2. PICK o \in {"Free", "PacketData", "Voice"}, p \in Issis \cup {None} :
          umac' = [owner |-> o, pd |-> p, known |-> umac.known, lost |-> umac.lost]
    BY <1>0, <2>1, EndAssignmentIs, SMTT(30)
  <2> QED
    BY <1>1, <2>2, SlotStep
<1> QED
  BY <1>2, <1>3

\* The UMAC notices a loss and tells SNDCP, unless it did before.
LEMMA NoticesLossStep ==
    ASSUME IInv, UmacNoticesLoss
    PROVE  IInv'
<1> DEFINE i == umac.pd
           l == IF i \in umac.known THEN umac.lost \cup {i} ELSE umac.lost
           m == ConfigureInd(i, "Loss")
<1>1. /\ umac' = [umac EXCEPT !.pd = None, !.lost = l] /\ i # None
      /\ UNCHANGED <<work, sn, mle, air, sentTo, gone>>
  BY Zenon DEF UmacNoticesLoss
<1>2. inbox' = inbox \o (IF i \in umac.known \ umac.lost THEN <<m>> ELSE << >>)
  BY Zenon DEF UmacNoticesLoss, Emit
<1>3. Kinds /\ IsQueue(inbox) /\ i \in Issis /\ l \subseteq Issis
  BY <1>1, Zenon DEF IInv, Kinds, Queued
<1>4. umac' = [owner |-> umac.owner, pd |-> None, known |-> umac.known, lost |-> l]
  <2>1. umac = [owner |-> umac.owner, pd |-> umac.pd, known |-> umac.known, lost |-> umac.lost]
    BY <1>3, Zenon DEF Kinds
  <2> HIDE DEF l
  <2> QED
    BY <1>1, <2>1, UmacFields, Zenon
<1>5. Kinds' /\ umac'.lost = l
  <2> HIDE DEF l
  <2> QED
    BY <1>1, <1>3, <1>4, Zenon DEF Kinds
<1>6. m.to = "Sndcp" /\ m.kind = "Configure" /\ m.from = i /\ m.reason = "Loss"
  BY Zenon DEF ConfigureInd
<1> HIDE DEF m
<1>7. Message(sn, sentTo, m)
  BY <1>3, <1>6 DEF Message, Reports
<1>8. \/ inbox' = inbox \o <<m>>
      \/ inbox' = inbox /\ i \notin umac.known \ umac.lost
  BY <1>2, <1>3, EmitFacts, ZenonT(60)
<1>9. /\ Queued' /\ Range(inbox) \subseteq Range(inbox')
      /\ Range(inbox') \subseteq Range(inbox) \cup {m}
  BY <1>1, <1>7, <1>8, QueueMore
<1>10. Lost'
  <2>1. ASSUME NEW j \in l
        PROVE  Told(Range(inbox'), j) \/ Off(work.assume, sn, air, Range(inbox'), j)
    <3>1. CASE j \in umac.lost
      BY <1>6, <1>9, <3>1, LossStays, SMTT(30) DEF IInv, Lost, Reports
    <3>2. CASE j \notin umac.lost
      <4>1. j = i /\ inbox' = inbox \o <<m>>
        BY <1>8, <2>1, <3>2, SMTT(30)
      <4>2. m \in Range(inbox')
        BY <1>3, <4>1, EmitFacts
      <4> QED
        BY <1>6, <4>1, <4>2, SMTT(30) DEF Told
    <3> QED
      BY <3>1, <3>2, SMTT(30)
  <2> QED
    BY <1>1, <1>5, <2>1 DEF Lost
<1>11. MleGood(mle)' /\ Tracked(air, mle.pend)' /\ Promised'
  BY <1>1, Zenon DEF IInv, MleGood, Tracked, Promised
<1>12. Good(sn)' /\ ReadyWasTransmitted' /\ Silenced'
  BY <1>1, SndcpSame, Zenon
<1> QED
  BY <1>5, <1>9, <1>10, <1>11, <1>12, SMTT(30) DEF IInv

\* The slot is free again.
LEMMA RecoversStep ==
    ASSUME IInv, NEW i \in work.issis, UmacRecovers(i)
    PROVE  IInv'
<1> DEFINE l == umac.lost \ {i}
           m == ConfigureInd(i, "Recovery")
<1>1. /\ umac' = [umac EXCEPT !.lost = l] /\ inbox' = inbox \o <<m>>
      /\ UNCHANGED <<work, sn, mle, air, sentTo, gone>>
  BY Zenon DEF UmacRecovers, Emit
<1>2. i \in Issis /\ Kinds
  BY SndcpAssumption, Zenon DEF IInv, Kinds
<1>3. Kinds' /\ umac'.lost \subseteq umac.lost
  BY <1>1, <1>2, Zenon DEF Kinds
<1>4. m.to = "Sndcp" /\ m.kind = "Configure" /\ m.from = i
  BY Zenon DEF ConfigureInd
<1> HIDE DEF m
<1>5. Message(sn, sentTo, m)
  BY <1>2, <1>4 DEF Message, Reports
<1>6. /\ Queued' /\ Range(inbox) \subseteq Range(inbox')
      /\ Range(inbox') \subseteq Range(inbox) \cup {m}
  BY <1>1, <1>5, QueueMore
<1>7. Lost'
  <2>1. \A j \in umac.lost : Told(Range(inbox'), j) \/ Off(work.assume, sn, air, Range(inbox'), j)
    BY <1>4, <1>6, LossStays DEF IInv, Lost, Reports
  <2> QED
    BY <1>1, <1>3, <2>1, SMTT(30) DEF Lost
<1>8. MleGood(mle)' /\ Tracked(air, mle.pend)' /\ Promised'
  BY <1>1 DEF IInv, MleGood, Tracked, Promised
<1>9. Good(sn)' /\ ReadyWasTransmitted' /\ Silenced'
  BY <1>1, SndcpSame, SMTT(30)
<1> QED
  BY <1>3, <1>6, <1>7, <1>8, <1>9, SMTT(30) DEF IInv

\* A request goes down to the UMAC, for which the terminal is then no longer lost.
LEMMA HandsDownStep ==
    ASSUME IInv, NEW r \in air, LlcHandsDown(r)
    PROVE  IInv'
<1> DEFINE q == [r EXCEPT !.stage = "Mac"]
           i == r.rep.issi
           A == (air \ {r}) \cup {q}
<1>1. /\ r.stage = "Llc" /\ air' = A /\ UNCHANGED <<work, sn, mle, inbox, sentTo, gone>>
      /\ umac' = CASE Chan(r) = "Replace" -> [umac EXCEPT !.known = umac.known \cup {i},
                                                         !.lost = umac.lost \ {i}]
                   [] Chan(r) = "QuitAndGo" -> [umac EXCEPT !.known = umac.known \ {i}]
                   [] OTHER -> umac
  BY Zenon DEF LlcHandsDown
<1>2. Kinds /\ IsRequest(r) /\ Promise(sn, sentTo, r)
  BY Zenon DEF IInv, Promised
<1>3. /\ IsRequest(q) /\ q.h = r.h /\ q.user = r.user /\ q.upper = r.upper
      /\ q.rep = r.rep /\ q.stage = "Mac"
  BY <1>2, MoveFacts, SMTT(30)
<1>4. Chan(r) \in {"Replace", "QuitAndGo"} => r.rep # None /\ i \in Issis
  BY <1>2, PdpAssumption, SMTT(30) DEF Chan, Promise
<1> HIDE DEF q, i
<1>5. /\ Kinds' /\ umac'.lost \subseteq umac.lost
      /\ Chan(r) = "Replace" => i \notin umac'.lost
  <2>1. umac = [owner |-> umac.owner, pd |-> umac.pd, known |-> umac.known, lost |-> umac.lost]
    BY <1>2 DEF Kinds
  <2>2. CASE Chan(r) = "Replace"
    <3>1. umac' = [owner |-> umac.owner, pd |-> umac.pd, known |-> umac.known \cup {i},
                   lost |-> umac.lost \ {i}]
      BY <1>1, <2>1, <2>2, UmacFields, Zenon
    <3>2. /\ umac.owner \in {"Free", "PacketData", "Voice"} /\ umac.pd \in Issis \cup {None}
          /\ umac.known \cup {i} \in SUBSET Issis /\ umac.lost \ {i} \in SUBSET Issis
          /\ sentTo' \subseteq Issis
      BY <1>1, <1>2, <1>4, <2>2, SMTT(30) DEF Kinds
    <3>3. Kinds' /\ umac'.lost = umac.lost \ {i}
      BY <1>1, <1>2, <3>1, <3>2, KindsAfter, SMTT(30)
    <3> QED
      BY <3>3, SMTT(30)
  <2>3. CASE Chan(r) = "QuitAndGo"
    <3>1. umac' = [owner |-> umac.owner, pd |-> umac.pd, known |-> umac.known \ {i},
                   lost |-> umac.lost]
      BY <1>1, <2>1, <2>3
    <3> QED
      BY <1>1, <1>2, <2>3, <3>1, SMTT(30) DEF Kinds
  <2>4. CASE Chan(r) \notin {"Replace", "QuitAndGo"}
    <3>1. umac' = umac
      BY <1>1, <2>4
    <3> QED
      BY <1>1, <1>2, <2>4, <3>1 DEF Kinds
  <2> QED
    BY <2>2, <2>3, <2>4, SMTT(30)
<1>6. MleGood(mle)' /\ Tracked(air, mle.pend)'
  <2>1. Tracked(A, mle.pend)
    BY <1>3, TrackedMoved DEF IInv
  <2> QED
    BY <1>1, <2>1 DEF IInv, MleGood
<1>7. Promised'
  <2>1. Promise(sn, sentTo, q)
    BY <1>2, <1>3 DEF Promise, Live
  <2> QED
    BY <1>1, <1>3, <2>1, SMTT(30) DEF IInv, Promised
<1>8. Queued'
  BY <1>1 DEF IInv, Queued
<1>9. Lost'
  <2>1. ASSUME NEW j \in umac'.lost
        PROVE  Told(Range(inbox), j) \/ Off(work.assume, sn, A, Range(inbox), j)
    <3>1. Live(sn, q) => sn.handoffs[q.upper].issi # j
      <4>1. Live(sn, q) => Live(sn, r)
        BY <1>3, Zenon DEF Live
      <4>2. Live(sn, r) => Chan(r) = "Replace" /\ sn.handoffs[r.upper].issi = i
        BY <1>2, Zenon DEF Promise, Chan, i
      <4> QED
        BY <1>3, <1>5, <4>1, <4>2, SMTT(30)
    <3>2. Told(Range(inbox), j) \/ Off(work.assume, sn, air, Range(inbox), j)
      BY <1>5, Zenon DEF IInv, Lost
    <3> QED
      BY <3>1, <3>2, SMTT(30) DEF Off
  <2> QED
    BY <1>1, <2>1, SMTT(30) DEF Lost
<1>10. Good(sn)' /\ ReadyWasTransmitted' /\ Silenced'
  BY <1>1, SndcpSame, SMTT(30)
<1> QED
  BY <1>5, <1>6, <1>7, <1>8, <1>9, <1>10, SMTT(30) DEF IInv

\* A report of a request that was sent, or of one that failed, is about a hand-over sent.
LEMMA OutcomeMessage ==
    ASSUME NEW s, NEW S, NEW r, Promise(s, S, r),
           NEW result \in {"FirstComplete", "Success", "Failed"},
           Live(s, r) /\ result # "Failed" => r.rep.issi \in S
    PROVE  LET m == [to |-> r.user, kind |-> "Report", handle |-> r.upper, result |-> result]
           IN  /\ Message(s, S, m)
               /\ \A h \in DOMAIN s.handoffs : Reports(m, h) =>
                    Live(s, r) /\ result # "Failed" /\ s.handoffs[h].issi = r.rep.issi
<1> DEFINE m == [to |-> r.user, kind |-> "Report", handle |-> r.upper, result |-> result]
<1>1. m.to = r.user /\ m.kind = "Report" /\ m.handle = r.upper /\ m.result = result
  BY Zenon
<1> HIDE DEF m
<1>2. \A h \in DOMAIN s.handoffs : Reports(m, h) =>
        /\ Live(s, r) /\ result # "Failed" /\ s.handoffs[h].issi = r.rep.issi
        /\ s.handoffs[h].issi \in S
  BY <1>1, Zenon DEF Reports, Live, Promise
<1>3. Message(s, S, m)
  BY <1>1, <1>2, SMTT(30) DEF Message, Promise
<1> QED
  BY <1>2, <1>3 DEF m

\* What it is for the UMAC to send a request.
Sends(r) ==
    /\ r.stage = "Mac" /\ UNCHANGED <<work, sn, gone>>
    /\ umac' = CASE Chan(r) = "Replace" -> [umac EXCEPT !.owner = "PacketData", !.pd = r.rep.issi]
                 [] Chan(r) = "QuitAndGo" -> EndAssignmentOf(r.rep.issi)
                 [] OTHER -> umac
    /\ sentTo' = IF Chan(r) = "Replace" THEN sentTo \cup {r.rep.issi} ELSE sentTo

\* The terminal of an allocation is one that was sent to, and nobody is lost or found.
LEMMA SendsFacts ==
    ASSUME IInv, NEW r \in air, Sends(r)
    PROVE  /\ Kinds' /\ umac'.lost = umac.lost
           /\ sentTo \subseteq sentTo' /\ sentTo' \subseteq Issis
           /\ Live(sn, r) => r.rep.issi \in sentTo' /\ sn.handoffs[r.upper].issi = r.rep.issi
           /\ \A x \in air : IsRequest(x) /\ Promise(sn, sentTo', x)
<1> DEFINE i == r.rep.issi
<1>1. /\ UNCHANGED <<work, gone>>
      /\ umac' = CASE Chan(r) = "Replace" -> [umac EXCEPT !.owner = "PacketData", !.pd = i]
                   [] Chan(r) = "QuitAndGo" -> EndAssignmentOf(i)
                   [] OTHER -> umac
      /\ sentTo' = IF Chan(r) = "Replace" THEN sentTo \cup {i} ELSE sentTo
  BY Zenon DEF Sends
<1>2. Kinds /\ IsRequest(r) /\ Promise(sn, sentTo, r)
  BY Zenon DEF IInv, Promised
<1>4. Chan(r) \in {"Replace", "QuitAndGo"} => r.rep # None /\ i \in Issis
  BY <1>2, PdpAssumption, SMTT(30) DEF Chan, Promise
<1>5. Live(sn, r) => Chan(r) = "Replace" /\ r.rep # None /\ sn.handoffs[r.upper].issi = i
  BY <1>2 DEF Promise, Chan
<1> HIDE DEF i
<1>9. sentTo \subseteq sentTo' /\ sentTo' \subseteq Issis /\ (Live(sn, r) => i \in sentTo')
  BY <1>1, <1>2, <1>4, <1>5 DEF Kinds
<1>10. Kinds' /\ umac'.lost = umac.lost
  <2>1. /\ umac = [owner |-> umac.owner, pd |-> umac.pd, known |-> umac.known, lost |-> umac.lost]
        /\ umac.owner \in {"Free", "PacketData", "Voice"} /\ umac.pd \in Issis \cup {None}
        /\ umac.known \in SUBSET Issis /\ umac.lost \in SUBSET Issis
    BY <1>2 DEF Kinds
  <2>2. PICK o \in {"Free", "PacketData", "Voice"}, p \in Issis \cup {None} :
          umac' = [owner |-> o, pd |-> p, known |-> umac.known, lost |-> umac.lost]
    <3>1. CASE Chan(r) = "Replace"
      <4>1. umac' = [owner |-> "PacketData", pd |-> i, known |-> umac.known, lost |-> umac.lost]
        BY <1>1, <2>1, <3>1, UmacFields, ZenonT(60)
      <4> QED
        BY <1>4, <3>1, <4>1, SMTT(30)
    <3>2. CASE Chan(r) = "QuitAndGo"
      <4>1. umac' = EndAssignmentOf(i)
        BY <1>1, <3>2
      <4> QED
        BY <1>2, <4>1, EndAssignmentIs
    <3>3. CASE Chan(r) \notin {"Replace", "QuitAndGo"}
      <4>1. umac' = umac
        BY <1>1, <3>3
      <4> QED
        BY <2>1, <4>1
    <3> QED
      BY <3>1, <3>2, <3>3, SMTT(30)
  <2> QED
    BY <1>1, <1>2, <1>9, <2>1, <2>2, KindsAfter, SMTT(30)
<1>12. \A x \in air : IsRequest(x) /\ Promise(sn, sentTo', x)
  BY <1>9, SentMore DEF IInv, Promised
<1> QED
  BY <1>5, <1>9, <1>10, <1>12, Zenon DEF i

\* A request is sent, and the terminal of an allocation is one that was sent to.
LEMMA SendsStep ==
    ASSUME IInv, NEW r \in air, UmacSends(r, TRUE)
    PROVE  IInv'
<1> DEFINE q == [r EXCEPT !.stage = "Sent"]
           i == r.rep.issi
           A == (air \ {r}) \cup {q}
           result == IF r.rep = None \/ r.rep.ack THEN "FirstComplete" ELSE "NoSpecific"
           t == RxTlaReportInd(mle, r.h, result)
           m == [to |-> r.user, kind |-> "Report", handle |-> r.upper, result |-> "FirstComplete"]
<1>1. Sends(r) /\ air' = A /\ mle' = t.m /\ inbox' = inbox \o t.out
  <2> HIDE DEF t
  <2> QED
    BY Zenon DEF UmacSends, Sends, LlcReport, Emit, t
<1>2. /\ Kinds /\ IsRequest(r) /\ Promise(sn, sentTo, r) /\ MleGood(mle)
      /\ Tracked(air, mle.pend) /\ IsQueue(inbox)
  BY Zenon DEF IInv, Promised, Queued
<1>3. /\ IsRequest(q) /\ q.h = r.h /\ q.user = r.user /\ q.upper = r.upper
      /\ q.rep = r.rep /\ q.stage = "Sent"
  BY <1>2, MoveFacts, SMTT(30)
<1>5. /\ Kinds' /\ umac'.lost = umac.lost /\ r.stage = "Mac" /\ UNCHANGED <<work, sn, gone>>
      /\ sentTo \subseteq sentTo' /\ sentTo' \subseteq Issis
      /\ Live(sn, r) => i \in sentTo' /\ sn.handoffs[r.upper].issi = i
      /\ \A x \in air : IsRequest(x) /\ Promise(sn, sentTo', x)
  BY <1>1, SendsFacts, Zenon DEF Sends
<1>6. result \in {"FirstComplete", "NoSpecific"}
  BY Zenon
<1> HIDE DEF result
<1>7. t.m = mle /\ (t.out = << >> \/ t.out = <<m>>)
  <2>1. result \in {"FirstComplete", "NoSpecific", "Success", "Failed"}
    BY <1>6
  <2>2. Tells(mle, t, r, result)
    BY <1>2, <2>1, ReportFacts, ZenonT(60)
  <2> HIDE DEF t
  <2> QED
    BY <1>6, <2>2 DEF Tells
<1> HIDE DEF q, i, t
<1>8. inbox' = inbox \/ inbox' = inbox \o <<m>>
  BY <1>1, <1>2, <1>7, EmitFacts, Zenon
<1>11. MleGood(mle)' /\ Tracked(air, mle.pend)'
  <2>1. Tracked(A, mle.pend)
    BY <1>2, <1>3, TrackedMoved, SMTT(30)
  <2> QED
    BY <1>1, <1>2, <1>7, <2>1, SMTT(30)
<1>13. Promised'
  <2>1. Promise(sn, sentTo', q)
    BY <1>3, <1>5, SMTT(30) DEF Promise, Live, i
  <2> QED
    BY <1>1, <1>3, <1>5, <2>1, ZenonT(60) DEF Promised
<1>14. /\ Message(sn, sentTo', m)
       /\ \A h \in DOMAIN sn.handoffs : Reports(m, h) => Live(sn, r) /\ sn.handoffs[h].issi = i
  <2>1. Live(sn, r) => r.rep.issi \in sentTo'
    BY <1>5 DEF i
  <2> QED
    BY <1>5, <2>1, OutcomeMessage, Zenon DEF i
<1> HIDE DEF m
<1>15. /\ Queued' /\ Range(inbox) \subseteq Range(inbox')
       /\ Range(inbox') \subseteq Range(inbox) \cup {m}
  BY <1>5, <1>8, <1>14, QueueMore, Zenon
<1>16. Lost'
  <2>1. ASSUME NEW j \in umac.lost
        PROVE  Told(Range(inbox'), j) \/ Off(work.assume, sn, A, Range(inbox'), j)
    <3>1. Told(Range(inbox), j) \/ Off(work.assume, sn, air, Range(inbox), j)
      BY Zenon DEF IInv, Lost
    <3>2. CASE Told(Range(inbox), j)
      BY <1>15, <3>2, SMTT(30) DEF Told
    <3>3. CASE Off(work.assume, sn, air, Range(inbox), j)
      <4>1. Live(sn, r) => j # i
        BY <1>5, <3>3, SMTT(30) DEF Off
      <4>2. Off(work.assume, sn, A, Range(inbox), j)
        BY <1>3, <1>5, <3>3, <4>1 DEF Off, Live
      <4> QED
        BY <1>14, <1>15, <4>1, <4>2, LossStays, SMTT(30)
    <3> QED
      BY <3>1, <3>2, <3>3, SMTT(30)
  <2> QED
    BY <1>1, <1>5, <2>1, ZenonT(60) DEF Lost
<1>17. Good(sn)' /\ ReadyWasTransmitted' /\ Silenced'
  BY <1>5, SndcpSame
<1> QED
  BY <1>5, <1>11, <1>13, <1>15, <1>16, <1>17, ZenonT(60) DEF IInv

\* The LLC forgets a request: nobody hears of it any more.
LEMMA LessStep ==
    ASSUME IInv, NEW r \in air, r.user = "Sndcp", air' = air \ {r},
           UNCHANGED <<work, sn, mle, inbox, gone>>, Kinds', umac'.lost = umac.lost,
           sentTo \subseteq sentTo'
    PROVE  IInv'
<1>1. Good(sn)' /\ ReadyWasTransmitted' /\ Silenced'
  BY SndcpSame, Zenon
<1>2. MleGood(mle)' /\ Tracked(air, mle.pend)'
  <2>1. MleGood(mle) /\ Tracked(air, mle.pend)
    BY Zenon DEF IInv
  <2>2. Tracked(air \ {r}, mle.pend)
    BY <2>1, TrackedForgotten, Zenon
  <2> QED
    BY <2>1, <2>2
<1>3. Promised'
  <2>1. \A x \in air : IsRequest(x) /\ Promise(sn, sentTo', x)
    BY SentMore, Zenon DEF IInv, Promised
  <2> QED
    BY <2>1, Zenon DEF Promised
<1>4. Queued'
  <2>1. \A m \in Range(inbox) : Message(sn, sentTo', m)
    BY SentMore, Zenon DEF IInv, Queued
  <2> QED
    BY <2>1, Zenon DEF IInv, Queued
<1>5. Lost'
  <2>1. ASSUME NEW j \in umac.lost
        PROVE  Told(Range(inbox), j) \/ Off(work.assume, sn, air \ {r}, Range(inbox), j)
    BY Zenon DEF IInv, Lost, Off
  <2> QED
    BY <2>1, Zenon DEF Lost
<1> QED
  BY <1>1, <1>2, <1>3, <1>4, <1>5, Zenon DEF IInv

\* A request of a replaced link is sent, or not.
LEMMA ReplacedStep ==
    ASSUME IInv, NEW r \in air, UmacSends(r, FALSE) \/ LinkReplaced(r)
    PROVE  IInv'
<1>1. CASE UmacSends(r, FALSE)
  <2>1. /\ Sends(r) /\ air' = air \ {r} /\ r.user = "Sndcp" /\ UNCHANGED <<work, sn, mle, inbox, gone>>
    BY <1>1 DEF UmacSends, Sends, Forgettable
  <2>2. Kinds' /\ umac'.lost = umac.lost /\ sentTo \subseteq sentTo'
    BY <2>1, SendsFacts, Zenon
  <2> QED
    BY <2>1, <2>2, LessStep, Zenon
<1>2. CASE LinkReplaced(r)
  <2>1. /\ air' = air \ {r} /\ r.user = "Sndcp" /\ UNCHANGED <<work, sn, mle, umac, inbox, sentTo, gone>>
    BY <1>2, Zenon DEF LinkReplaced, Forgettable
  <2>2. Kinds' /\ umac'.lost = umac.lost /\ sentTo \subseteq sentTo'
    BY <2>1, Zenon DEF IInv, Kinds
  <2> QED
    BY <2>1, <2>2, LessStep, Zenon
<1> QED
  BY <1>1, <1>2

\* The LLC is done with a request.
LEMMA EndsStep ==
    ASSUME IInv, NEW r \in air, NEW result \in {"Success", "Failed"}, LlcEnds(r, result)
    PROVE  IInv'
<1> DEFINE i == r.rep.issi
           t == RxTlaReportInd(mle, r.h, result)
           m == [to |-> r.user, kind |-> "Report", handle |-> r.upper, result |-> result]
<1>1. /\ result = "Success" => r.stage = "Sent"
      /\ air' = air \ {r} /\ UNCHANGED <<work, sn, umac, sentTo, gone>>
      /\ mle' = t.m /\ inbox' = inbox \o t.out
  <2> HIDE DEF t
  <2> QED
    BY Zenon DEF LlcEnds, LlcReport, Emit, t
<1>2. /\ Kinds /\ IsRequest(r) /\ Promise(sn, sentTo, r) /\ MleGood(mle)
      /\ Tracked(air, mle.pend) /\ IsQueue(inbox)
  BY Zenon DEF IInv, Promised, Queued
<1>3. Tells(mle, t, r, result)
  <2>1. result \in {"FirstComplete", "NoSpecific", "Success", "Failed"}
    BY Zenon
  <2> QED
    BY <1>2, <2>1, ReportFacts, ZenonT(60)
<1> HIDE DEF t, i
<1>4. inbox' = inbox \/ inbox' = inbox \o <<m>>
  BY <1>1, <1>2, <1>3, EmitFacts, ZenonT(60) DEF Tells
<1>5. Kinds'
  BY <1>1, <1>2 DEF Kinds
<1>6. MleGood(mle)' /\ Tracked(air, mle.pend)'
  <2> DEFINE q == t.m.pend
  <2>1. MleGood(t.m) /\ Without(mle.pend, q, r.h)
    BY <1>3 DEF Tells
  <2>2. mle'.pend = q /\ MleGood(mle')
    BY <1>1, <2>1
  <2> HIDE DEF q
  <2>3. Tracked(air \ {r}, q)
    BY <1>2, <2>1, TrackedLess, ZenonT(60)
  <2> QED
    BY <1>1, <2>2, <2>3, SMTT(30)
<1>7. Promised'
  BY <1>1, SMTT(30) DEF IInv, Promised
<1>8. Live(sn, r) /\ result # "Failed" => r.rep.issi \in sentTo /\ r.stage = "Sent"
  BY <1>1, <1>2, SMTT(30) DEF Promise
<1>9. /\ Message(sn, sentTo, m)
      /\ \A h \in DOMAIN sn.handoffs : Reports(m, h) =>
           Live(sn, r) /\ result # "Failed" /\ sn.handoffs[h].issi = i
  <2>1. result \in {"FirstComplete", "Success", "Failed"}
    BY Zenon
  <2> QED
    BY <1>2, <1>8, <2>1, OutcomeMessage, ZenonT(60) DEF i
<1> HIDE DEF m
<1>10. /\ Queued' /\ Range(inbox) \subseteq Range(inbox')
       /\ Range(inbox') \subseteq Range(inbox) \cup {m}
  BY <1>1, <1>4, <1>9, QueueMore, SMTT(30)
<1>11. Lost'
  <2>1. ASSUME NEW j \in umac.lost
        PROVE  Told(Range(inbox'), j) \/ Off(work.assume, sn, air \ {r}, Range(inbox'), j)
    <3>1. Told(Range(inbox), j) \/ Off(work.assume, sn, air, Range(inbox), j)
      BY Zenon DEF IInv, Lost
    <3>2. CASE Told(Range(inbox), j)
      BY <1>10, <3>2, SMTT(30) DEF Told
    <3>3. CASE Off(work.assume, sn, air, Range(inbox), j)
      <4>1. Live(sn, r) /\ result # "Failed" => j # i
        BY <1>2, <1>8, <3>3, ZenonT(60) DEF Off, Promise, i
      <4>2. Off(work.assume, sn, air \ {r}, Range(inbox), j)
        BY <3>3, Zenon DEF Off
      <4> QED
        BY <1>9, <1>10, <4>1, <4>2, LossStays, SMTT(30)
    <3> QED
      BY <3>1, <3>2, <3>3, SMTT(30)
  <2> QED
    BY <1>1, <2>1, ZenonT(60) DEF Lost
<1>12. Good(sn)' /\ ReadyWasTransmitted' /\ Silenced'
  BY <1>1, SndcpSame, SMTT(30)
<1> QED
  BY <1>5, <1>6, <1>7, <1>10, <1>11, <1>12, SMTT(30) DEF IInv

------------------------------------------------------------------------------
(* The invariant *)

\* Every step keeps the invariant.
LEMMA Preserved ==
    ASSUME SetFacts
    PROVE  IInv /\ [Next]_vars => IInv'
<1> SUFFICES ASSUME IInv, [Next]_vars PROVE IInv'
  BY Zenon
<1>1. CASE Sndcp
  BY <1>1, UnitdataStep, ReportStep, ConfigureStep, ControlStep, SMTT(30) DEF Sndcp
<1>2. CASE OtherUser
  BY <1>2, OtherUserStep
<1>3. CASE Lower
  <2>1. ASSUME NEW r \in air, NEW heard \in BOOLEAN, UmacSends(r, heard) PROVE IInv'
    <3>1. UmacSends(r, TRUE) \/ UmacSends(r, FALSE)
      BY <2>1, Zenon
    <3> QED
      BY <3>1, SendsStep, ReplacedStep, Zenon
  <2> QED
    BY <1>3, <2>1, HandsDownStep, ReplacedStep, EndsStep, Zenon DEF Lower
<1>4. CASE \E i \in work.issis : \E d \in work.pdus, link \in work.links : RxTlaDataInd(i, d, link)
  BY <1>4, DataIndStep, Zenon
<1>5. CASE MmRequest \/ CmceRequest \/ MleBroadcast
  BY <1>5, OtherRequestStep DEF MmRequest, CmceRequest, MleBroadcast, LmmMleUnitdataReq,
       LcmcMleUnitdataReq, SendBroadcast
<1>6. CASE CallTakesSlot \/ CallLeavesSlot \/ AssignmentExpires
  BY <1>6, SlotSteps, SMTT(30)
<1>7. CASE UmacNoticesLoss
  BY <1>7, NoticesLossStep, Zenon
<1>8. CASE \E i \in work.issis : MmDeregisters(i)
  BY <1>8, DeregistersStep
<1>9. CASE \E i \in work.issis : UmacRecovers(i)
  BY <1>9, RecoversStep, SMTT(30)
<1>10. CASE UNCHANGED vars
  BY <1>10 DEF vars, IInv, Kinds, MleGood, Tracked, Promised, Queued, ReadyWasTransmitted,
       Silenced, Lost
<1> QED
  BY <1>1, <1>2, <1>3, <1>4, <1>5, <1>6, <1>7, <1>8, <1>9, <1>10, SMTT(30) DEF Next

\* The base station starts with nothing pending.
LEMMA Starts ==
    ASSUME SetFacts
    PROVE  Init => IInv
<1> SUFFICES ASSUME Init PROVE IInv
  BY Zenon
<1>1. Kinds
  BY Zenon DEF Init, Kinds
<1>2. Good(sn)
  <2>1. Shape(sn)
    BY Zenon DEF Init, Shape
  <2>2. /\ sn.ctx = [i \in Issis |-> NoContext] /\ sn.sm = [i \in Issis |-> Idle]
        /\ sn.pdch = [i \in Issis |-> None] /\ sn.next = 1
        /\ IsMap(sn.handoffs) /\ DOMAIN sn.handoffs = {}
        /\ IsMap(sn.wap) /\ DOMAIN sn.wap = {} /\ IsMap(sn.keys) /\ DOMAIN sn.keys = {}
    BY Zenon DEF Init, IsMap
  <2>3. DOMAIN NoContext = {} /\ IsMap(NoContext)
    BY Zenon DEF NoContext, IsMap
  <2>4. Sane(Idle) /\ Idle.n = 0
    BY Zenon DEF Sane, Idle, Machine
  <2>5. Counted(NoContext, Idle)
    BY <2>3, <2>4, CountNone, SMTT(30) DEF Counted
  <2>6. Contexts(sn)
    BY <2>2, <2>3, <2>5, SMTT(30) DEF Contexts, Unique, IsMap
  <2>7. Inverses(sn.wap, sn.keys) /\ Pending(sn)
    BY <2>2, SMTT(30) DEF Inverses, Pending
  <2> QED
    BY <2>1, <2>2, <2>6, <2>7, ZenonT(60) DEF Good
<1>3. MleGood(mle) /\ DOMAIN mle.pend = {}
  BY MleAssumption, SMTT(30) DEF Init, NewMle, MleGood
<1>4. Tracked(air, mle.pend) /\ Promised
  BY <1>3, Zenon DEF Init, Tracked, Promised
<1>5. Queued
  <2>1. inbox \in Seq({}) /\ Range(inbox) = {}
    BY SMTT(30) DEF Init, Range
  <2> QED
    BY <2>1, Zenon DEF Queued, IsQueue
<1>6. ReadyWasTransmitted /\ Silenced /\ Lost
  BY Zenon DEF Init, ReadyWasTransmitted, Ready, Silenced, Lost
<1> QED
  BY <1>1, <1>2, <1>3, <1>4, <1>5, <1>6, SMTT(30) DEF IInv

\* What the invariant says of packet data.
LEMMA Consistent ==
    ASSUME SetFacts
    PROVE  IInv => PacketDataConsistent
<1> SUFFICES ASSUME IInv PROVE PacketDataConsistent
  BY Zenon
<1>1. TypeOK
  <2>1. Good(sn) /\ Kinds /\ MleGood(mle)
    BY Zenon DEF IInv
  <2>2. /\ umac.owner \in {"Free", "PacketData", "Voice"} /\ umac.pd \in Issis \cup {None}
        /\ umac.known \cup umac.lost \cup sentTo \cup gone \subseteq Issis
    BY <2>1, Zenon DEF Kinds
  <2>3. \A i \in Issis : sn.pdch[i] \in Session \cup {None}
    BY <2>1 DEF Good
  <2>4. \A i \in Issis : DOMAIN sn.ctx[i] \subseteq Nsapis /\ sn.sm[i] \in Machine
    BY <2>1, Zenon DEF Good, Contexts, Counted, Sane
  <2>5. mle.next \in 1 .. MaxTlaHandle
    BY <2>1, Zenon DEF MleGood
  <2> QED
    BY <2>2, <2>3, <2>4, <2>5, Zenon DEF TypeOK
<1>2. AddressesUnique
  BY Zenon DEF IInv, Good, Contexts, Unique, AddressesUnique
<1>3. CountCovers
  BY Zenon DEF IInv, Good, Contexts, Counted, Sane, CountCovers
<1>4. KeysMatch
  BY ZenonT(60) DEF IInv, Good, Inverses, KeysMatch
<1>5. DeregisteredForgotten
  BY Zenon DEF IInv, Silenced, Forgotten, DeregisteredForgotten
<1>6. LostNotReady
  BY Zenon DEF IInv, Lost, Told, Off, LostNotReady
<1>7. EveryTransferTracked
  <2>1. MleGood(mle) /\ Tracked(air, mle.pend)
    BY Zenon DEF IInv
  <2> QED
    BY <2>1, Zenon DEF Tracked, EveryTransferTracked
<1> QED
  BY <1>1, <1>2, <1>3, <1>4, <1>5, <1>6, <1>7, SMTT(30) DEF PacketDataConsistent, IInv

------------------------------------------------------------------------------
(* Requests *)

\* Only the entity a message is for takes it off the queue.
LEMMA TakenByOwner ==
    ASSUME IInv, Next, inbox # << >>, inbox' = Tail(inbox), Head(inbox).to = "Sndcp",
           Head(inbox).kind = "Unitdata"
    PROVE  SndcpUnitdata
<1>1. Len(inbox') < Len(inbox) /\ IsQueue(inbox)
  <2>1. IsQueue(inbox)
    BY Zenon DEF IInv, Queued
  <2>2. PICK S : inbox \in Seq(S)
    BY <2>1, Zenon DEF IsQueue
  <2> QED
    BY <2>1, <2>2
<1>2. inbox' # inbox
  BY <1>1
<1>3. ASSUME NEW m PROVE inbox' # inbox \o <<m>> /\ inbox' # inbox \o << >>
  <2>1. PICK S : inbox \in Seq(S)
    BY <1>1, Zenon DEF IsQueue
  <2>2. inbox \in Seq(S \cup {m}) /\ <<m>> \in Seq(S \cup {m})
    BY <2>1
  <2>3. Len(inbox \o <<m>>) = Len(inbox) + 1 /\ inbox \o << >> = inbox /\ Len(inbox) \in Nat
    BY <2>2
  <2> QED
    BY <1>1, <1>2, <2>3
<1>4. CASE Sndcp
  BY <1>4, Zenon DEF Sndcp, SndcpReport, SndcpConfigure, SndcpControl
<1>5. ~ OtherUser
  BY Zenon DEF OtherUser
<1>6. ~ Lower
  <2>1. \A r \in air : ~ LlcHandsDown(r)
    BY <1>2 DEF LlcHandsDown
  <2>2. ASSUME NEW r \in air, NEW result, LlcReport(r, result) PROVE FALSE
    BY <1>3, <2>2 DEF LlcReport, Emit, RxTlaReportInd, PushMleReport
  <2>3. ASSUME NEW r \in air PROVE /\ \A heard : ~ UmacSends(r, heard)
                                   /\ \A x : ~ LlcEnds(r, x)
                                   /\ ~ LinkReplaced(r)
    BY <1>2, <2>2, Zenon DEF UmacSends, LlcEnds, LinkReplaced
  <2> QED
    BY <2>1, <2>3, Zenon DEF Lower
<1>7. \A i, d, link : ~ RxTlaDataInd(i, d, link)
  BY <1>3, Zenon DEF RxTlaDataInd, Emit, RoutePrefixedTlSdu
<1>8. ~ MmRequest /\ ~ CmceRequest /\ ~ MleBroadcast
  BY <1>2, Zenon DEF MmRequest, CmceRequest, MleBroadcast, OtherRequest
<1>9. ~ CallTakesSlot /\ ~ CallLeavesSlot /\ ~ AssignmentExpires
  BY <1>2, Zenon DEF CallTakesSlot, CallLeavesSlot, AssignmentExpires
<1>10. ~ UmacNoticesLoss
  BY <1>3, Zenon DEF UmacNoticesLoss, Emit
<1>11. \A i : ~ MmDeregisters(i) /\ ~ UmacRecovers(i)
  BY <1>3, Zenon DEF MmDeregisters, UmacRecovers, Emit
<1> QED
  BY <1>4, <1>5, <1>6, <1>7, <1>8, <1>9, <1>10, <1>11 DEF Next

\* Such a request puts a grant on its way.
LEMMA GrantStep ==
    ASSUME SetFacts, IInv, Next, NEW i \in Issis, Asks(i)
    PROVE  \E r \in air' \ air : r.rep.issi = i /\ r.rep.r.k = "Accepted" /\ r.rep.chan = "Replace"
<1> DEFINE d == Head(inbox).pdu
           link == Head(inbox).link
           x == RxUnitdata(sn, i, d, link)
           t == LtpdMleUnitdataReq(mle, x.h)
           r == Request(t.h, "Sndcp", x.h, x.rep)
<1>1. /\ SndcpUnitdata /\ Head(inbox).from = i /\ d.k = "Request" /\ umac.owner = "Free"
      /\ ResourceRequestSupported(d.res) /\ Has(sn, i, d.nsapi)
  BY TakenByOwner DEF Asks, Requests, Obtainable, Has
<1>2. d.nsapi \in Nsapis /\ link \in Links
  <2>1. Head(inbox) \in Range(inbox)
    BY TakeFacts, Zenon DEF IInv, Queued, Asks
  <2>2. Message(sn, sentTo, Head(inbox)) /\ Head(inbox).to = "Sndcp" /\ Head(inbox).kind = "Unitdata"
    BY <2>1, Zenon DEF IInv, Queued, Asks, Requests
  <2> QED
    BY <1>1, <2>2 DEF Message
<1>3. Grants(x, i, link, d.nsapi)
  <2>1. Good(sn)
    BY Zenon DEF IInv
  <2> HIDE DEF d, link
  <2> QED
    BY <1>1, <1>2, <2>1, RequestGranted, Zenon
<1> HIDE DEF d, link
<1>4. /\ x.rep # None /\ x.rep.issi = i /\ x.rep.r.k = "Accepted" /\ x.rep.chan = "Replace"
  <2> HIDE DEF x
  <2> QED
    BY <1>2, <1>3, GrantAssumption DEF Grants, Reply, Accepted
<1>5. air' = air \cup {r}
  <2>1. RespondWith(x)
    BY <1>1, Zenon DEF SndcpUnitdata, d, link
  <2> HIDE DEF x
  <2> QED
    BY <1>4, <2>1, SMTT(30) DEF RespondWith, ToLlc
<1>6. r.h = t.h /\ r.rep = x.rep
  <2> HIDE DEF x, t
  <2> QED
    BY Zenon DEF Request
<1> HIDE DEF x
<1>7. t.h \notin DOMAIN mle.pend
  <2>1. MleGood(mle) /\ Free(mle)
    BY <1>1, Zenon DEF IInv, SndcpUnitdata
  <2> QED
    BY <2>1, TrackFacts, Zenon DEF LtpdMleUnitdataReq, Adds
<1> HIDE DEF t, r
<1>8. r \notin air
  BY <1>6, <1>7, Zenon DEF IInv, Tracked
<1> QED
  BY <1>4, <1>5, <1>6, <1>8

------------------------------------------------------------------------------
(* The results *)

INSTANCE FiniteSetTheorems

\* The facts about numbers and finite sets that the counts of contexts and of pending
\* transfers rest on are the library's.
LEMMA Facts == SetFacts
<1>1. ASSUME NEW T, T \subseteq Nat, T # {}
      PROVE  \E x \in T : \A y \in T : x <= y
  <2> DEFINE R == OpToRel(<, Nat)
  <2>1. \A a, b \in Nat : <<a, b>> \in R <=> a < b
    BY Zenon DEF OpToRel
  <2>2. IsWellFoundedOn(R, Nat)
    BY NatLessThanWellFounded, Zenon
  <2> HIDE DEF R
  <2>3. PICK x \in T : \A y \in T : ~(<<y, x>> \in R)
    BY <1>1, <2>2, WFMin, Zenon
  <2>4. \A y \in T : ~(y < x)
    BY <1>1, <2>1, <2>3, Zenon
  <2> QED
    BY <1>1, <2>3, <2>4
<1>2. ASSUME NEW S, IsFiniteSet(S), NEW T, T \subseteq S
      PROVE  IsFiniteSet(T) /\ Cardinality(S \ T) = Cardinality(S) - Cardinality(T)
  <2>1. T \in SUBSET S /\ S \cap T = T
    BY <1>2
  <2>2. IsFiniteSet(T)
    BY <1>2, <2>1, FS_Subset, Zenon
  <2>3. Cardinality(S \ T) = Cardinality(S) - Cardinality(S \cap T)
    BY <1>2, FS_Difference, Zenon
  <2> QED
    BY <2>1, <2>2, <2>3, Zenon
<1>3. ASSUME NEW S, IsFiniteSet(S)
      PROVE  Cardinality(S) \in Nat /\ (Cardinality(S) = 0 <=> S = {})
  BY <1>3, FS_CardinalityType, FS_EmptySet
<1>4. ASSUME NEW S, NEW x, IsFiniteSet(S), x \notin S
      PROVE  Cardinality(S \cup {x}) = Cardinality(S) + 1
  BY <1>4, FS_AddElement
<1>5. IsFiniteSet({})
  BY FS_EmptySet
<1>6. ASSUME NEW n \in Nat
      PROVE  IsFiniteSet(1 .. n) /\ Cardinality(1 .. n) = n
  BY FS_Interval
<1> QED
  BY <1>1, <1>2, <1>3, <1>4, <1>5, <1>6, Zenon DEF SetFacts

\* SNDCP, the MLE and the UMAC agree on packet data in every behaviour: addresses are unique,
\* machines count their contexts, pending maps match, a lost terminal is not taken to be on
\* the channel and one that is was sent an allocation, unless the compatibility mode assumes
\* so, and every transfer is tracked.
THEOREM PacketData == Spec => []PacketDataConsistent
<1>1. Init => IInv
  BY Facts, Starts
<1>2. IInv /\ [Next]_vars => IInv'
  BY Facts, Preserved
<1>3. IInv => PacketDataConsistent
  BY Facts, Consistent
<1> QED
  BY <1>1, <1>2, <1>3, PTL DEF Spec

\* A terminal that asks for the channel while nobody has timeslot 2 and that has or can be given
\* a context is sent an allocation in that very step, whatever state, session and link earlier
\* losses and late reports left behind (prepare_packet_data_retry_after_bearer_break,
\* recover_missing_wap_ipv4_context_for_ms_transfer).
THEOREM FreeSlot == Spec => FreeSlotGranted
<1> DEFINE A == \A i \in Issis :
                  Asks(i) => \E r \in air' \ air :
                               r.rep.issi = i /\ r.rep.r.k = "Accepted" /\ r.rep.chan = "Replace"
<1>1. Init => IInv
  BY Facts, Starts, Zenon
<1>2. IInv /\ [Next]_vars => IInv'
  BY Facts, Preserved, Zenon
<1>3. IInv /\ [Next]_vars => [A]_vars
  BY Facts, GrantStep
<1> HIDE DEF A
<1>4. FreeSlotGranted <=> [][A]_vars
  BY Zenon DEF FreeSlotGranted, A
<1> QED
  BY <1>1, <1>2, <1>3, <1>4, PTL DEF Spec

==============================================================================

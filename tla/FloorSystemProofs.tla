------------------------- MODULE FloorSystemProofs -------------------------
(* Proofs about FloorSystem: what GroupCallProofs shows of CMCE when anything *)
(* may be sent to it holds beside the real UMAC and Brew too, and the UMAC,   *)
(* which only hears of the floor, ends up agreeing with CMCE, for every set   *)
(* of radios, groups, bearers and sessions and every backlog.                 *)
EXTENDS FloorSystemSteps

-----------------------------------------------------------------------------
(* The steps of CMCE *)

\* The calls' own part of the invariant.
Ours == TypeOK /\ \A b \in Bearers : OwnReady(call[b])

\* A step that changes one call pays what it owes in one of six ways.
LEMMA PutTells ==
    ASSUME Ours, NEW b \in Bearers, NEW d, NEW q \in Seq(Message), NEW out \in Seq(Message),
           Put(b, d, q, out), OwnReady(d),
           \/ call[b] # None /\ d # None /\ Silent(out) /\ Kept(call[b], d)
           \/ call[b] # None /\ d # None /\ Grants(out, b, d.speaker)
           \/ call[b] # None /\ d # None /\ Frees(out, b) /\ ~Commits(d)
           \/ d # None /\ Opening(out, b, d.speaker)
           \/ d = None /\ call[b] # None /\ ~Overtaken(call[b]) /\ Closing(out, b)
           \/ d = None /\ Overtaken(call[b]) /\ Frees(out, b)
    PROVE  Tells(q)
<1>1. /\ mq' = q \o out
      /\ \A a \in Bearers : call'[a] = IF a = b THEN d ELSE call[a]
  BY DEF Put, Ours, TypeOK
<1>2. \A a \in Bearers \ {b} : Free(out, Floors(a))
  BY DEF Silent, Grants, Frees, Opening, Closing, About
<1>3. ASSUME NEW a \in Bearers, a # b PROVE Told(a, out)
  <2>1. Free(out, Floors(a)) /\ Free(out, Switches(a)) /\ call'[a] = call[a]
    BY <1>1, <1>2, <1>3, SwitchesAreFloors, ZenonT(60)
  <2> QED
    BY <2>1, Zenon DEF Told, Ours
<1>4. Told(b, out)
  <2>1. Silent(out) => Free(out, Floors(b)) /\ Free(out, Switches(b))
    BY SwitchesAreFloors DEF Silent
  <2>2. call'[b] = d
    BY <1>1
  <2> QED
    BY <2>1, <2>2, Zenon DEF Told, Kept, Grants, Frees, Opening, Closing, Commits
<1> QED
  BY <1>1, <1>3, <1>4 DEF Tells

\* Nothing is sent.
LEMMA Nothing == <<>> \in Seq(Message) /\ Silent(<<>>)
<1>1. <<>> \in Seq(Message)
  OBVIOUS
<1>2. \A K : Free(<<>>, K)
  BY DEF Free
<1> QED
  BY <1>1, <1>2 DEF Silent

\* A step that changes one call and sends nothing.
LEMMA QuietTells ==
    ASSUME Ours, NEW b \in Bearers, call[b] # None, NEW q \in Seq(Message),
           NEW d, Kept(call[b], d), Put(b, d, q, <<>>)
    PROVE  Tells(q)
<1>1. OwnReady(d) /\ d # None
  BY NoneAssumption DEF Kept, Ours
<1> QED
  BY <1>1, Nothing, PutTells, Zenon

\* A step that leaves the calls alone.
LEMMA IdleTells ==
    ASSUME Ours, NEW q \in Seq(Message), call' = call,
           mq' = q \/ \E out \in Seq(Message) : Silent(out) /\ mq' = q \o out
    PROVE  Tells(q)
<1>1. PICK out \in Seq(Message) : Silent(out) /\ mq' = q \o out
  <2>1. CASE mq' = q
    <3>1. q \o <<>> = q
      OBVIOUS
    <3> QED
      BY <2>1, <3>1, Nothing, Zenon
  <2> QED
    BY <2>1
<1>2. ASSUME NEW b \in Bearers PROVE Told(b, out)
  <2>1. Free(out, Floors(b)) /\ Free(out, Switches(b)) /\ call'[b] = call[b]
    BY <1>1, SwitchesAreFloors DEF Silent
  <2> QED
    BY <2>1 DEF Told, Ours
<1> QED
  BY <1>1, <1>2 DEF Tells

\* A call that goes on is a call.
LEMMA CallType == ASSUME Ours, NEW b \in Bearers, call[b] # None PROVE call[b] \in Call
BY DEF Ours, TypeOK

\* Set-up of a call by a radio.
LEMMA SetupTells ==
    ASSUME Ours, NEW i \in Radios, NEW g \in Groups, NEW b \in Bearers, NEW p \in Priorities,
           SetupNew(i, g, b, p)
    PROVE  Tells(mq)
<1> DEFINE d == NewCall(g, i, None, i, p, None)
           out == <<ToUmac("Open", b, i)>> \o Both(g, "FloorGranted", b, i)
<1>1. i \in Issis
  BY DEF Issis
<1>2. d \in Call /\ d.speaker = i /\ d.ready = None
  <2>1. d.speaker = i /\ d.ready = None
    BY DEF NewCall
  <2>2. i \in Radios \cup Uuids /\ None \in Uuids \cup {None} /\ None \in Readiness \cup {None}
    OBVIOUS
  <2> QED
    BY <1>1, <2>1, <2>2, NewCallType, Zenon
<1>3. Opening(out, b, i)
  BY <1>1, SwitchMessages, Zenon
<1>4. out \in Seq(Message)
  <2>1. ToUmac("Open", b, i) \in Message /\ Both(g, "FloorGranted", b, i) \in Seq(Message)
    BY <1>1, Messages
  <2>2. <<ToUmac("Open", b, i)>> \in Seq(Message)
    BY <2>1
  <2> QED
    BY <2>1, <2>2, AppendedFacts
<1>5. Put(b, d, mq, out)
  BY DEF SetupNew
<1> HIDE DEF d, out
<1>6. OwnReady(d) /\ d # None /\ mq \in Seq(Message)
  BY <1>2, NoneAssumption DEF OwnReady, Ours, TypeOK
<1> QED
  BY <1>2, <1>3, <1>4, <1>5, <1>6, PutTells

\* A repeated set-up takes the floor and tells so at once.
LEMMA ReentryTells ==
    ASSUME Ours, NEW i \in Radios, NEW b \in Bearers, SetupReentry(i, b)
    PROVE  Tells(mq)
<1> DEFINE c == call[b]
           w == Without(c.queue, i)
           f == [c EXCEPT !.queue = w, !.speaker = i, !.tx = TRUE, !.regrant = FALSE]
           t == IF f.tail = i THEN None ELSE f.tail
           d == [f EXCEPT !.tail = t]
           out == Both(c.group, "FloorGranted", b, i)
<1>1. c # None /\ Put(b, d, mq, out) /\ mq \in Seq(Message) /\ i \in Issis
  BY DEF SetupReentry, Live, GrantFloor, Ours, TypeOK, Issis
<1>2. c \in Call
  BY <1>1, CallType
<1>3. w \in Seq(Radios)
  BY <1>2, WithoutFacts DEF Call
<1>4. OwnReady(c)
  BY DEF Ours
<1> HIDE DEF w, c
<1>5. /\ f \in Call /\ f.speaker = i /\ f.ready = c.ready /\ f.uuid = c.uuid
  BY <1>1, <1>2, <1>3, Zenon DEF Call
<1>6. t \in Radios \cup {None}
  BY <1>5, Zenon DEF Call
<1> HIDE DEF f, t
<1>7. d \in Call /\ d.speaker = i /\ d.ready = c.ready /\ d.uuid = c.uuid
  BY <1>5, <1>6 DEF Call
<1>8. out \in Seq(Message) /\ Grants(out, b, i)
  BY <1>1, Messages, GrantMessages
<1> HIDE DEF d, out
<1>9. OwnReady(d) /\ d # None
  BY <1>1, <1>4, <1>7, NoneAssumption DEF OwnReady
<1> QED
  BY <1>1, <1>7, <1>8, <1>9, PutTells, SMTT(30), ZenonT(30) DEF c

\* The floor passes to the waiter at place n.
LEMMA PassedOnKept ==
    ASSUME NEW c \in Call, NEW n \in 1..Len(c.queue)
    PROVE  /\ Kept(c, Granted(Through(c, n), c.queue[n]))
           /\ ~Commits(Granted(Through(c, n), c.queue[n]))
<1> DEFINE f == Through(c, n)
           i == c.queue[n]
<1>1. c.queue \in Seq(Radios) /\ Len(c.queue) \in Nat
  BY DEF Call
<1>2. n \in 0..Len(c.queue) /\ i \in Issis
  BY <1>1 DEF Issis
<1>3. Kept(c, f)
  BY <1>2, RequestsKept, Zenon
<1> HIDE DEF f, i
<1>4. Kept(f, Granted(f, i)) /\ ~Commits(Granted(f, i))
  BY <1>2, <1>3, GrantKept, Zenon DEF Kept
<1> QED
  BY <1>3, <1>4, KeptThrough DEF f, i

\* U-TX DEMAND.
LEMMA TxDemandTells ==
    ASSUME Ours, NEW i \in Radios, NEW b \in Bearers, NEW preemptive, TxDemand(b, i, preemptive)
    PROVE  Tells(mq)
<1> DEFINE c == call[b]
<1>1. c # None /\ i \in Issis /\ mq \in Seq(Message)
  BY DEF TxDemand, Live, Issis, Ours, TypeOK
<1>2. PICK d : /\ Put(b, d, mq, <<>>)
               /\ \/ d = Release(c)
                  \/ d = Queued(c, i)
                  \/ d = [Granted(c, i) EXCEPT !.tail = None]
                  \/ d = Granted(c, i)
                  \/ d = QueueActivation(c, i) /\ c.speaker = i
  BY DEF TxDemand, Speaks
<1>3. c \in Call
  BY <1>1, CallType
<1> HIDE DEF c
<1>4. Kept(c, d)
  BY <1>1, <1>2, <1>3, EndKept, RequestsKept, GrantKept, Zenon
<1> QED
  BY <1>1, <1>2, <1>4, QuietTells, SMTT(30), ZenonT(30) DEF c

\* U-TX CEASED.
LEMMA TxCeasedTells ==
    ASSUME Ours, NEW i \in Radios, NEW b \in Bearers, TxCeased(b, i)
    PROVE  Tells(mq)
<1> DEFINE c == call[b]
<1>1. c # None /\ mq \in Seq(Message)
  BY DEF TxCeased, Live, Ours, TypeOK
<1>2. PICK d : /\ Put(b, d, mq, <<>>)
               /\ \/ d = [c EXCEPT !.queue = Without(@, i)]
                  \/ \E n \in 1..Len(c.queue) : d = Granted(Through(c, n), c.queue[n])
                  \/ d = [c EXCEPT !.queue = <<>>, !.tail = i, !.act = None] /\ c.speaker = i
                  \/ d = [c EXCEPT !.queue = <<>>]
  BY DEF TxCeased, FirstOf
<1>3. c \in Call
  BY <1>1, CallType
<1> HIDE DEF c
<1>4. CASE d = [c EXCEPT !.queue = <<>>, !.tail = i, !.act = None] /\ c.speaker = i
  <2> DEFINE w == <<>>
  <2>1. w \in Seq(Radios) /\ d = [c EXCEPT !.queue = w, !.tail = i, !.act = None]
    BY <1>4
  <2> HIDE DEF w
  <2>2. /\ d \in Call /\ d.tail = d.speaker /\ d.ready = c.ready /\ d.uuid = c.uuid
    BY <1>3, <1>4, <2>1, ZenonT(60) DEF Call
  <2>3. Kept(c, d)
    BY <1>1, <2>2, SMTT(30), ZenonT(30) DEF Kept, Commits, OwnReady
  <2> QED
    BY <1>1, <1>2, <2>3, QuietTells DEF c
<1>5. CASE \/ d = [c EXCEPT !.queue = Without(@, i)]
           \/ \E n \in 1..Len(c.queue) : d = Granted(Through(c, n), c.queue[n])
           \/ d = [c EXCEPT !.queue = <<>>]
  <2>1. Kept(c, d)
    BY <1>3, <1>5, RequestsKept, PassedOnKept, Zenon
  <2> QED
    BY <1>1, <1>2, <2>1, QuietTells DEF c
<1> QED
  BY <1>2, <1>4, <1>5

\* The steps that begin the release of a call.
LEMMA ReleaseTells ==
    ASSUME Ours, NEW b \in Bearers, call[b] # None, NEW q \in Seq(Message),
           Put(b, Release(call[b]), q, <<>>)
    PROVE  Tells(q)
BY CallType, EndKept, QuietTells, ZenonT(60)

\* The lower layers' reports.
LEMMA ReportTells ==
    ASSUME Ours, NEW b \in Bearers,
           ReportReady(b) \/ \E st \in {"sent", "lost"} : ReportActivation(b, st)
    PROVE  Tells(mq)
<1> DEFINE c == call[b]
<1>1. c # None /\ mq \in Seq(Message)
  BY DEF ReportReady, ReportActivation, Ours, TypeOK
<1>2. c \in Call
  BY <1>1, CallType
<1>3. CASE ReportReady(b)
  <2> DEFINE r == [c.ready EXCEPT !.sent = TRUE]
             d == [c EXCEPT !.ready = r]
  <2>1. Put(b, d, mq, <<>>) /\ c.ready # None
    BY <1>3 DEF ReportReady
  <2>2. c.ready \in Readiness
    BY <1>2, <2>1 DEF Call
  <2>3. r \in Readiness /\ r.who = c.ready.who /\ r.uuid = c.ready.uuid
    BY <2>2, Zenon DEF Readiness
  <2>4. r # None
    BY <2>3, NoneAssumption, ZenonT(60)
  <2> HIDE DEF r, c
  <2>5. /\ d \in Call /\ d.rel = c.rel /\ d.tx = c.tx /\ d.speaker = c.speaker /\ d.act = c.act
        /\ d.ready = r /\ d.tail = c.tail /\ d.uuid = c.uuid
    BY <1>2, <2>3 DEF Call
  <2> HIDE DEF d
  <2>6. Kept(c, d)
    BY <1>1, <2>1, <2>3, <2>4, <2>5 DEF Kept, Commits, OwnReady
  <2> QED
    BY <1>1, <2>1, <2>6, QuietTells, SMTT(30), ZenonT(30) DEF c
<1>4. CASE \E st \in {"sent", "lost"} : ReportActivation(b, st)
  <2> PICK st \in {"sent", "lost"} : ReportActivation(b, st)
    BY <1>4
  <2> DEFINE a == [c.act EXCEPT !.st = st]
             d == [c EXCEPT !.act = a]
  <2>1. Put(b, d, mq, <<>>) /\ c.act # None
    BY DEF ReportActivation
  <2>2. c.act \in Activation
    BY <1>2, <2>1 DEF Call
  <2>3. a \in Activation /\ a.who = c.act.who
    BY <2>2 DEF Activation
  <2>4. a # None
    BY <2>3, NoneAssumption
  <2> HIDE DEF a, c
  <2>5. /\ d \in Call /\ d.rel = c.rel /\ d.tx = c.tx /\ d.speaker = c.speaker /\ d.act = a
        /\ d.ready = c.ready /\ d.tail = c.tail /\ d.uuid = c.uuid
    BY <1>2, <2>3, ZenonT(60) DEF Call
  <2> HIDE DEF d
  <2>6. Kept(c, d)
    BY <1>1, <2>1, <2>3, <2>4, <2>5 DEF Kept, Commits, OwnReady
  <2> QED
    BY <1>1, <2>1, <2>6, QuietTells DEF c
<1> QED
  BY <1>3, <1>4


\* The end of a tail: the floor passes on, the call goes to hangtime or is released.
LEMMA DrainTailTells ==
    ASSUME Ours, NEW b \in Bearers, DrainTail(b)
    PROVE  Tells(mq)
<1> DEFINE c == call[b]
           d == [c EXCEPT !.tail = None]
           rel == Both(c.group, "FloorReleased", b, None)
<1>1. c # None /\ mq \in Seq(Message) /\ OwnReady(c)
  BY DEF DrainTail, Ours, TypeOK
<1>2. PICK e, out :
        /\ Put(b, e, mq, out)
        /\ \/ ~Speaks(c, c.tail) /\ e = d /\ out = <<>>
           \/ /\ out = <<>>
              /\ \E n \in 1..Len(c.queue) :
                   c.queue[n] \in Members(c.group) /\ e = Granted(Through(d, n), c.queue[n])
           \/ /\ out = rel
              /\ \E n \in 0..Len(c.queue) :
                   \/ e = EnterHangtime(Through(d, n))
                   \/ e = Release(EnterHangtime(Through(d, n)))
  BY DrainTailCases DEF Ours
<1>3. c \in Call
  BY <1>1, CallType
<1>4. rel \in Seq(Message) /\ Frees(rel, b)
  BY Messages, ReleaseMessages, ZenonT(60)
<1> HIDE DEF c, rel
<1>5. /\ d \in Call /\ d.rel = c.rel /\ d.tx = c.tx /\ d.speaker = c.speaker /\ d.act = c.act
      /\ d.ready = c.ready /\ d.uuid = c.uuid /\ d.queue = c.queue
  BY <1>3 DEF Call
<1> HIDE DEF d
<1>6. OwnReady(d)
  BY <1>1, <1>5 DEF OwnReady
<1>7. CASE ~Speaks(c, c.tail) /\ e = d /\ out = <<>>
  <2>1. Kept(c, d)
    BY <1>1, <1>5, <1>6, <1>7, SMTT(30), ZenonT(30) DEF Kept, Commits, Speaks
  <2> QED
    BY <1>1, <1>2, <1>7, <2>1, QuietTells, ZenonT(60) DEF c
<1>8. CASE /\ out = <<>>
           /\ \E n \in 1..Len(c.queue) : e = Granted(Through(d, n), c.queue[n])
  <2>1. Kept(d, e) /\ ~Commits(e)
    BY <1>5, <1>8, PassedOnKept, SMTT(30), ZenonT(30)
  <2>2. Kept(c, e)
    BY <1>6, <2>1 DEF Kept
  <2> QED
    BY <1>1, <1>2, <1>8, <2>2, QuietTells, ZenonT(60) DEF c
<1>9. CASE /\ out = rel
           /\ \E n \in 0..Len(c.queue) :
                \/ e = EnterHangtime(Through(d, n))
                \/ e = Release(EnterHangtime(Through(d, n)))
  <2>1. PICK n \in 0..Len(c.queue) : \/ e = EnterHangtime(Through(d, n))
                                     \/ e = Release(EnterHangtime(Through(d, n)))
    BY <1>9
  <2>2. Through(d, n) \in Call /\ OwnReady(Through(d, n))
    BY <1>5, <1>6, RequestsKept, ZenonT(60) DEF Kept
  <2>3. EnterHangtime(Through(d, n)) \in Call /\ OwnReady(EnterHangtime(Through(d, n)))
        /\ ~Commits(EnterHangtime(Through(d, n)))
    BY <2>2, EndKept, ZenonT(60) DEF Kept
  <2>4. e \in Call /\ OwnReady(e) /\ ~Commits(e)
    BY <2>1, <2>3, EndKept, ZenonT(60) DEF Kept
  <2> QED
    BY <1>1, <1>2, <1>4, <1>9, <2>4, PutTells, NoneAssumption, Zenon DEF c
<1> QED
  BY <1>2, <1>7, <1>8, <1>9, SMTT(30), ZenonT(30)

\* A granted floor is activated when its D-TX GRANTED went out.
LEMMA DrainActivationTells ==
    ASSUME Ours, NEW b \in Bearers, DrainActivation(b)
    PROVE  Tells(mq)
<1> DEFINE c == call[b]
           i == c.act.who
           d == [c EXCEPT !.act = None]
           grant == <<ToUmac("SetDlMediaSource", b, LocalLoopback)>>
                    \o Both(c.group, "FloorGranted", b, i)
<1>1. c # None /\ c.act # None /\ mq \in Seq(Message) /\ OwnReady(c)
  BY DEF DrainActivation, Ours, TypeOK
<1>2. c \in Call
  BY <1>1, CallType
<1>3. i \in Issis
  BY <1>1, <1>2 DEF Call, Activation
<1>4. \/ Speaks(c, i) /\ Put(b, d, mq, grant)
      \/ Put(b, EnterHangtime(d), mq, <<>>)
      \/ ~Speaks(c, i) /\ Put(b, d, mq, <<>>)
  BY DEF DrainActivation
<1>5. Grants(grant, b, i) /\ grant \in Seq(Message)
  <2>1. LocalLoopback \in Media
    BY DEF Media
  <2>2. /\ ToUmac("SetDlMediaSource", b, LocalLoopback) \in Message
        /\ Both(c.group, "FloorGranted", b, i) \in Seq(Message)
    BY <1>3, <2>1, Messages
  <2>3. <<ToUmac("SetDlMediaSource", b, LocalLoopback)>> \in Seq(Message)
    BY <2>2
  <2> QED
    BY <1>3, <2>1, <2>2, <2>3, GrantMessages, AppendedFacts, SMTT(30), ZenonT(30)
<1> HIDE DEF grant, c
<1>6. /\ d \in Call /\ d.rel = c.rel /\ d.tx = c.tx /\ d.speaker = c.speaker /\ d.act = None
      /\ d.ready = c.ready /\ d.uuid = c.uuid /\ d.tail = c.tail
  BY <1>2 DEF Call
<1>7. OwnReady(d) /\ d # None
  BY <1>1, <1>6, NoneAssumption DEF OwnReady
<1> HIDE DEF d, i
<1>8. CASE Speaks(c, i) /\ Put(b, d, mq, grant)
  <2>1. d.speaker = i
    BY <1>6, <1>8 DEF Speaks
  <2> QED
    BY <1>1, <1>5, <1>7, <1>8, <2>1, PutTells, ZenonT(60) DEF c
<1>9. CASE Put(b, EnterHangtime(d), mq, <<>>)
  <2>1. Kept(c, EnterHangtime(d))
    BY <1>6, <1>7, EndKept, ZenonT(60) DEF Kept
  <2> QED
    BY <1>1, <1>9, <2>1, QuietTells, SMTT(30), ZenonT(30) DEF c
<1>10. CASE ~Speaks(c, i) /\ Put(b, d, mq, <<>>)
  <2>1. Kept(c, d)
    BY <1>1, <1>6, <1>7, <1>10, SMTT(30), ZenonT(30) DEF Kept, Commits, Speaks, i
  <2> QED
    BY <1>1, <1>10, <2>1, QuietTells, SMTT(30), ZenonT(30) DEF c
<1> QED
  BY <1>4, <1>8, <1>9, <1>10, SMTT(30), ZenonT(30)


\* A network speaker is ready when the set-up signalling went out.
LEMMA DrainReadyTells ==
    ASSUME Ours, NEW b \in Bearers, DrainReady(b)
    PROVE  Tells(mq)
<1> DEFINE c == call[b]
           i == c.ready.who
           u == c.ready.uuid
           d == [c EXCEPT !.ready = None]
           current == Speaks(c, i) /\ c.uuid = u
           out == <<ToUmac("SetDlMediaSource", b, SwMI), ToUmac("FloorGranted", b, i),
                    ToBrew("NetworkCallReady", b, u)>>
<1>1. c # None /\ c.ready # None /\ mq \in Seq(Message) /\ OwnReady(c)
  BY DEF DrainReady, Ours, TypeOK
<1>2. c \in Call
  BY <1>1, CallType
<1>3. i \in Issis /\ u \in Uuids
  BY <1>1, <1>2 DEF Call, Readiness, Issis
<1>4. \/ current /\ Put(b, d, mq, out)
      \/ ~current /\ Put(b, d, mq, <<>>)
      \/ Put(b, Release(d), mq, <<>>)
  BY DEF DrainReady
<1>5. Grants(out, b, i)
  BY <1>3, GrantMessages
<1>6. out \in Seq(Message)
  <2>1. SwMI \in Media
    BY DEF Media
  <2>2. /\ ToUmac("SetDlMediaSource", b, SwMI) \in Message /\ ToUmac("FloorGranted", b, i) \in Message
        /\ ToBrew("NetworkCallReady", b, u) \in Message
    BY <1>3, <2>1, Messages
  <2> QED
    BY <2>2
<1> HIDE DEF out, c
<1>7. /\ d \in Call /\ d.rel = c.rel /\ d.tx = c.tx /\ d.speaker = c.speaker /\ d.act = c.act
      /\ d.ready = None /\ d.uuid = c.uuid /\ d.tail = c.tail
  BY <1>2 DEF Call
<1>8. OwnReady(d) /\ d # None
  BY <1>7, NoneAssumption DEF OwnReady
<1> HIDE DEF d
<1>9. CASE current /\ Put(b, d, mq, out)
  <2>1. d.speaker = i
    BY <1>7, <1>9 DEF Speaks
  <2> HIDE DEF i
  <2> QED
    BY <1>1, <1>5, <1>6, <1>8, <1>9, <2>1, PutTells, Zenon DEF c
<1>10. CASE ~current /\ Put(b, d, mq, <<>>)
  <2>1. ~Speaks(c, i)
    BY <1>1, <1>10 DEF OwnReady
  <2>2. Kept(c, d)
    BY <1>1, <1>7, <1>8, <2>1 DEF Kept, Commits, Speaks
  <2> QED
    BY <1>1, <1>10, <2>2, QuietTells DEF c
<1>11. CASE Put(b, Release(d), mq, <<>>)
  <2>1. Kept(c, Release(d))
    BY <1>7, <1>8, EndKept, Zenon DEF Kept
  <2> QED
    BY <1>1, <1>11, <2>1, QuietTells, SMTT(30), ZenonT(30) DEF c
<1> QED
  BY <1>4, <1>9, <1>10, <1>11

\* The end of a release closes the bearer.
LEMMA CompleteReleaseTells ==
    ASSUME Ours, NEW b \in Bearers, CompleteRelease(b)
    PROVE  Tells(mq)
<1> DEFINE c == call[b]
           e == <<ToUmac("CallEnded", b, None)>>
           t == CASE c.group \notin Routable -> <<>>
                  [] c.group \in Routable /\ c.rel \in Radios -> <<ToBrew("CallEnded", b, None)>>
                  [] OTHER -> <<ToBrew("NetworkCallEnd", None, c.rel)>>
           s == CloseMessages(b, c)
<1>1. c # None /\ c.rel # None /\ Put(b, None, mq, s \o EndMessages(b, c)) /\ mq \in Seq(Message)
  BY DEF CompleteRelease, Ours, TypeOK
<1>2. c \in Call
  BY <1>1, CallType, SMTT(30), ZenonT(30)
<1>3. c.speaker \in Issis /\ (c.rel \notin Radios => c.rel \in Uuids)
  BY <1>1, <1>2 DEF Call
<1>4. e \in Seq(Message) /\ <<ToUmac("Close", b, None)>> \in Seq(Message)
  <2>1. ToUmac("Close", b, None) \in Message /\ ToUmac("CallEnded", b, None) \in Message
    BY Messages
  <2> QED
    BY <2>1
<1>5. t \in Seq(Message) /\ Silent(t)
  <2>1. \/ t = <<>>
        \/ t = <<ToBrew("CallEnded", b, None)>>
        \/ c.rel \in Uuids /\ t = <<ToBrew("NetworkCallEnd", None, c.rel)>>
    <3> HIDE DEF c
    <3>1. CASE c.group \notin Routable
      BY <3>1
    <3>2. CASE c.group \in Routable /\ c.rel \in Radios
      BY <3>2
    <3>3. CASE c.group \in Routable /\ c.rel \notin Radios
      BY <1>3, <3>3
    <3> QED
      BY <3>1, <3>2, <3>3
  <2> HIDE DEF t
  <2>2. ToBrew("CallEnded", b, None) \in Message
    BY Messages
  <2>3. \A u \in Uuids : ToBrew("NetworkCallEnd", None, u) \in Message
    BY EndMessage
  <2>4. \A x \in Message : <<x>> \in Seq(Message)
    OBVIOUS
  <2> QED
    BY <2>1, <2>2, <2>3, <2>4, Nothing, ReleaseMessages, Zenon
<1>6. EndMessages(b, c) = e \o t
  BY DEF EndMessages
<1> DEFINE r == EndMessages(b, c)
<1> HIDE DEF t
<1>7. r \in Seq(Message) /\ Frees(r, b)
  <2>1. Frees(e \o t, b)
    BY <1>3, <1>5, SwitchMessages, ZenonT(60)
  <2> HIDE DEF e
  <2> QED
    BY <1>4, <1>5, <1>6, <2>1, AppendedFacts
<1> HIDE DEF r
<1>8. OwnReady(None)
  BY DEF OwnReady
<1>9. CASE Overtaken(c)
  <2>1. s = <<>>
    BY <1>9 DEF CloseMessages, Overtaken
  <2>2. s \o r = r
    BY <1>7, <2>1
  <2> QED
    BY <1>1, <1>7, <1>8, <1>9, <2>2, PutTells, Zenon DEF r
<1>10. CASE ~Overtaken(c)
  <2>1. s = <<ToUmac("Close", b, None)>>
    BY <1>1, <1>10 DEF CloseMessages, Overtaken
  <2>2. Closing(s \o r, b)
    BY <1>3, <1>7, <2>1, SwitchMessages, ZenonT(60)
  <2> HIDE DEF s
  <2>3. s \o r \in Seq(Message)
    BY <1>4, <1>7, <2>1, AppendedFacts
  <2> QED
    BY <1>1, <1>8, <1>10, <2>2, <2>3, PutTells, Zenon DEF r
<1> QED
  BY <1>9, <1>10

\* A circuit that reaches its age limit is no business of the UMAC.
LEMMA CircuitExpiresTells ==
    ASSUME Ours, NEW b \in Bearers, CircuitExpires(b)
    PROVE  Tells(mq)
<1> DEFINE c == call[b]
           r == Release(c)
           d == IF c.rel = None THEN [r EXCEPT !.circ = "carried"] ELSE [c EXCEPT !.circ = "gone"]
<1>1. c # None /\ Put(b, d, mq, <<>>) /\ mq \in Seq(Message)
  BY DEF CircuitExpires, Ours, TypeOK
<1>2. c \in Call
  BY <1>1, CallType, SMTT(30), ZenonT(30)
<1>3. OwnReady(c)
  BY DEF Ours
<1>4. r \in Call /\ r.rel # None /\ r.ready = None
  BY <1>2, ReleaseSound DEF Sound
<1>5. d \in Call /\ d.rel # None /\ (d.ready = None \/ (d.ready = c.ready /\ d.uuid = c.uuid))
  <2> HIDE DEF r
  <2> QED
    BY <1>2, <1>4 DEF Call
<1>6. d # None
  BY <1>5, NoneAssumption
<1> HIDE DEF d
<1>7. Kept(c, d)
  BY <1>1, <1>3, <1>5, <1>6 DEF Kept, Commits, OwnReady
<1> QED
  BY <1>1, <1>7, QuietTells DEF c

\* A speaker who went silent.
LEMMA UlInactivityTells ==
    ASSUME Ours, NEW b \in Bearers, NEW q \in Seq(Message), UlInactivityTimeout(b, q)
    PROVE  Tells(q)
<1> DEFINE c == call[b]
           rel == Both(c.group, "FloorReleased", b, None)
           f == [c EXCEPT !.regrant = TRUE]
           e == [c EXCEPT !.queue = <<>>]
<1>1. CASE mq' = q /\ UNCHANGED cmceVars
  BY <1>1, IdleTells DEF cmceVars
<1>2. CASE \E d, out : /\ c # None /\ Put(b, d, q, out)
                       /\ \/ out = <<>> /\ \E n \in 1..Len(c.queue) :
                               d = Granted(Through(c, n), c.queue[n])
                          \/ out = <<>> /\ d = QueueActivation(f, c.speaker)
                          \/ out = rel /\ d = EnterHangtime(e)
  <2>1. PICK d, out : /\ c # None /\ Put(b, d, q, out)
                       /\ \/ out = <<>> /\ \E n \in 1..Len(c.queue) :
                               d = Granted(Through(c, n), c.queue[n])
                          \/ out = <<>> /\ d = QueueActivation(f, c.speaker)
                          \/ out = rel /\ d = EnterHangtime(e)
    BY <1>2
  <2>2. c \in Call /\ OwnReady(c)
    BY <2>1, CallType DEF Ours
  <2>3. rel \in Seq(Message) /\ Frees(rel, b)
    BY Messages, ReleaseMessages, ZenonT(60)
  <2> HIDE DEF c, rel
  <2>4. CASE out = <<>> /\ \E n \in 1..Len(c.queue) : d = Granted(Through(c, n), c.queue[n])
    <3>1. Kept(c, d)
      BY <2>2, <2>4, PassedOnKept, ZenonT(60)
    <3> QED
      BY <2>1, <2>4, <3>1, QuietTells DEF c
  <2>5. CASE out = <<>> /\ d = QueueActivation(f, c.speaker)
    <3>1. f \in Call /\ f.speaker = c.speaker /\ f.ready = c.ready /\ f.uuid = c.uuid
      BY <2>2, Zenon DEF Call
    <3>2. OwnReady(f)
      BY <2>1, <2>2, <3>1, SMTT(30), ZenonT(30) DEF OwnReady
    <3> HIDE DEF f
    <3>3. Kept(c, d)
      BY <2>5, <3>1, <3>2, GrantKept DEF Kept
    <3> QED
      BY <2>1, <2>5, <3>3, QuietTells DEF c
  <2>6. CASE out = rel /\ d = EnterHangtime(e)
    <3>1. e \in Call /\ OwnReady(e)
      BY <2>2, RequestsKept DEF Kept
    <3> HIDE DEF e
    <3>2. d \in Call /\ OwnReady(d) /\ ~Commits(d)
      BY <2>6, <3>1, EndKept, ZenonT(60) DEF Kept
    <3> QED
      BY <2>1, <2>3, <2>6, <3>2, PutTells, NoneAssumption, SMTT(30), ZenonT(30) DEF c
  <2> QED
    BY <2>1, <2>4, <2>5, <2>6
<1> QED
  BY <1>1, <1>2, ZenonT(60) DEF UlInactivityTimeout, Live, FirstOf


\* A network session asks for a call.
LEMMA NetworkCallStartTells ==
    ASSUME Ours, NEW n \in NetStart, NEW q \in Seq(Message), NetworkCallStart(n, q)
    PROVE  Tells(q)
<1> DEFINE g == n.group
           r == [uuid |-> n.uuid, who |-> n.issi, sent |-> FALSE]
           no == <<ToBrew("NetworkCallEnd", None, n.uuid)>>
<1>1. /\ n.uuid \in Uuids /\ n.issi \in Issis /\ g \in Groups /\ n.pri \in Priorities
      /\ r \in Readiness /\ r.uuid = n.uuid /\ r.who = n.issi
  BY DEF NetStart, Readiness, Issis
<1>2. no \in Seq(Message) /\ Silent(no)
  <2>1. ToBrew("NetworkCallEnd", None, n.uuid) \in Message
    BY <1>1, EndMessage
  <2>2. \A b \in Bearers : ToBrew("NetworkCallEnd", None, n.uuid) \notin Floors(b)
    BY DEF ToBrew, Floors, Msg
  <2>3. no \in Seq(Message)
    BY <2>1
  <2>4. \A b \in Bearers : Free(no, Floors(b))
    BY <2>2, One, ZenonT(60)
  <2> QED
    BY <2>3, <2>4 DEF Silent
<1>3. CASE \E listened \in BOOLEAN : call' = DropUnlistened(call, g, listened) /\ mq' = q \o no
  <2> PICK listened \in BOOLEAN : call' = DropUnlistened(call, g, listened)
    BY <1>3
  <2> SUFFICES ASSUME NEW b \in Bearers PROVE Told(b, no)
    BY <1>2, <1>3, Zenon DEF Tells
  <2>1. Free(no, Floors(b)) /\ Free(no, Switches(b)) /\ OwnReady(call[b])
    BY <1>2, SwitchesAreFloors DEF Silent, Ours
  <2>2. CASE call'[b] = call[b]
    BY <2>1, <2>2, Zenon DEF Told
  <2>3. CASE call[b] # None /\ call'[b] = Release(call[b])
    <3>1. Kept(call[b], call'[b])
      BY <2>3, CallType, EndKept, Zenon
    <3> QED
      BY <2>1, <2>3, <3>1, NoneAssumption, Zenon DEF Told, Kept
  <2> QED
    BY <2>2, <2>3 DEF DropUnlistened
<1>4. CASE RefuseNetworkCall(n, q)
  BY <1>2, <1>4, IdleTells, Zenon DEF RefuseNetworkCall, cmceVars
<1>5. CASE \E b \in LiveFor(g) : NetworkTakesFloor(n, b, q)
  <2> PICK b \in LiveFor(g) : NetworkTakesFloor(n, b, q)
    BY <1>5
  <2> DEFINE c == call[b]
             w == Without(c.queue, n.issi)
             d == [c EXCEPT !.queue = w, !.speaker = n.issi, !.tx = TRUE, !.regrant = FALSE,
                            !.tail = None, !.pri = n.pri, !.uuid = n.uuid, !.origin = n.uuid,
                            !.ready = r]
  <2>1. b \in Bearers /\ c # None
    BY DEF LiveFor, Live
  <2>2. c \in Call
    BY <2>1, CallType
  <2>3. w \in Seq(Radios)
    BY <2>2, WithoutFacts DEF Call
  <2>4. Put(b, d, q, <<>>)
    BY DEF NetworkTakesFloor, GrantFloor
  <2> HIDE DEF c, w, r
  <2>5. d \in Call /\ d.ready = r /\ d.speaker = n.issi /\ d.uuid = n.uuid
    BY <1>1, <2>2, <2>3, ZenonT(60) DEF Call
  <2>6. r # None
    BY <1>1, NoneAssumption
  <2> HIDE DEF d
  <2>7. Kept(c, d)
    BY <1>1, <2>5, <2>6 DEF Kept, Commits, OwnReady
  <2> QED
    BY <2>1, <2>4, <2>7, QuietTells, SMTT(30), ZenonT(30) DEF c
<1>6. CASE \E b \in Bearers : /\ call[b] = None
                              /\ Put(b, NewCall(g, n.uuid, n.uuid, n.issi, n.pri, r),
                                     q, <<ToUmac("Open", b, n.issi)>>)
  <2> PICK b \in Bearers : /\ call[b] = None
                           /\ Put(b, NewCall(g, n.uuid, n.uuid, n.issi, n.pri, r),
                                  q, <<ToUmac("Open", b, n.issi)>>)
    BY <1>6
  <2> DEFINE d == NewCall(g, n.uuid, n.uuid, n.issi, n.pri, r)
             out == <<ToUmac("Open", b, n.issi)>>
  <2>1. ToUmac("Open", b, n.issi) \in Message
    BY <1>1, Messages, Zenon
  <2>2. out \in Seq(Message)
    BY <2>1
  <2>3. Opening(out, b, n.issi)
    BY <1>1, SwitchMessages, Zenon
  <2> HIDE DEF r
  <2>4. d \in Call /\ d.speaker = n.issi /\ d.ready = r /\ d.uuid = n.uuid
    <3>1. d.speaker = n.issi /\ d.ready = r /\ d.uuid = n.uuid
      BY DEF NewCall
    <3>2. /\ n.uuid \in Radios \cup Uuids /\ n.uuid \in Uuids \cup {None}
          /\ r \in Readiness \cup {None}
      BY <1>1
    <3> QED
      BY <1>1, <3>1, <3>2, NewCallType, ZenonT(60)
  <2> HIDE DEF d, out
  <2>5. OwnReady(d) /\ d # None
    BY <1>1, <2>4, NoneAssumption DEF OwnReady
  <2> QED
    BY <2>2, <2>3, <2>4, <2>5, PutTells, Zenon DEF d, out
<1> HIDE DEF no
<1> QED
  <2>1. \/ call' = DropUnlistened(call, g, HasListener(affil, ext, g)) /\ mq' = q \o no
        \/ RefuseNetworkCall(n, q)
        \/ \E b \in LiveFor(g) : NetworkTakesFloor(n, b, q)
        \/ \E b \in Bearers : /\ call[b] = None
                              /\ Put(b, NewCall(g, n.uuid, n.uuid, n.issi, n.pri, r),
                                     q, <<ToUmac("Open", b, n.issi)>>)
    BY Zenon DEF NetworkCallStart, no
  <2>2. HasListener(affil, ext, g) \in BOOLEAN
    BY DEF HasListener, HasLocalListener
  <2> QED
    BY <1>3, <1>4, <1>5, <1>6, <2>1, <2>2, ZenonT(60)

\* The end of a network session.
LEMMA NetworkCallEndTells ==
    ASSUME Ours, NEW u \in Uuids, NEW q \in Seq(Message), NetworkCallEnd(u, q)
    PROVE  Tells(q)
<1>1. CASE mq' = q /\ UNCHANGED cmceVars
  BY <1>1, IdleTells DEF cmceVars
<1>2. ASSUME NEW b \in Bearers, call[b] # None, Put(b, Release(call[b]), q, <<>>)
      PROVE  Tells(q)
  BY <1>2, ReleaseTells
<1>3. ASSUME NEW b \in Bearers, call[b] # None, call[b].ready = None,
             Put(b, [EnterHangtime(call[b]) EXCEPT !.uuid = None], q,
                 <<ToUmac("FloorReleased", b, None)>>)
      PROVE  Tells(q)
  <2> DEFINE c == call[b]
             f == EnterHangtime(c)
             d == [f EXCEPT !.uuid = None]
             out == <<ToUmac("FloorReleased", b, None)>>
  <2>1. ToUmac("FloorReleased", b, None) \in Message
    BY Messages
  <2>2. out \in Seq(Message) /\ Frees(out, b)
    BY <2>1, ReleaseMessages
  <2>3. c \in Call /\ Put(b, d, q, out)
    BY <1>3, CallType
  <2> HIDE DEF c, out
  <2>4. f \in Call /\ ~f.tx /\ f.ready = c.ready
    BY <2>3, Zenon DEF EnterHangtime, Call
  <2> HIDE DEF f
  <2>5. d \in Call /\ ~d.tx /\ d.ready = c.ready
    BY <2>4, SMTT(30), ZenonT(30) DEF Call
  <2> HIDE DEF d
  <2>6. OwnReady(d) /\ ~Commits(d) /\ d # None
    BY <1>3, <2>5, NoneAssumption DEF OwnReady, Commits, c
  <2> QED
    BY <1>3, <2>2, <2>3, <2>6, PutTells
<1> QED
  BY <1>1, <1>2, <1>3, Zenon DEF NetworkCallEnd


\* What a departure makes of a call.
LEMMA DepartedKept ==
    ASSUME NEW c \in Call, NEW i, NEW listened \in BOOLEAN
    PROVE  LET d == Departed(c, i, listened)
               e == IF ~listened THEN Release(d) ELSE d
           IN  /\ Kept(c, e)
               /\ listened /\ Speaks(c, i) /\ c.rel = None => ~Commits(e)
<1> DEFINE d == Departed(c, i, listened)
           w == [c EXCEPT !.queue = <<>>]
<1>1. Kept(c, w) /\ Kept(c, c) /\ Kept(c, [c EXCEPT !.queue = Without(@, i)])
  BY RequestsKept, Zenon
<1>2. w \in Call
  BY <1>1 DEF Kept
<1> HIDE DEF w
<1>3. Kept(w, EnterHangtime(w)) /\ ~Commits(EnterHangtime(w))
  BY <1>2, EndKept, Zenon
<1>4. Kept(c, EnterHangtime(w))
  BY <1>1, <1>3, KeptThrough
<1>5. Kept(c, d) /\ (listened /\ Speaks(c, i) /\ c.rel = None => ~Commits(d))
  BY <1>1, <1>3, <1>4 DEF Departed, w
<1> HIDE DEF d
<1>6. Kept(c, Release(d))
  <2>1. Kept(d, Release(d))
    BY <1>5, EndKept, Zenon DEF Kept
  <2> QED
    BY <1>5, <2>1, KeptThrough
<1> QED
  BY <1>5, <1>6 DEF d

\* A subscriber leaves a group.
LEMMA DepartTells ==
    ASSUME Ours, NEW i, NEW g, NEW q \in Seq(Message), Depart(i, g, q)
    PROVE  Tells(q)
<1> DEFINE listened == HasListener(affil', ext', g)
           after == [b \in Bearers |-> IF call[b] # None /\ call[b].group = g
                                       THEN Departed(call[b], i, listened) ELSE call[b]]
           left == {b \in LiveFor(g) : Speaks(call[b], i) /\ listened}
<1>1. call' = DropUnlistened(after, g, listened) /\ listened \in BOOLEAN
  BY DEF Depart, HasListener, HasLocalListener
<1>2. \/ mq' = q
      \/ \E b \in left : mq' = q \o Both(g, "FloorReleased", b, None)
  BY DEF Depart
<1>3. PICK out \in Seq(Message) :
        /\ mq' = q \o out
        /\ Silent(out) \/ \E b \in left : Frees(out, b)
  <2>1. CASE mq' = q
    <3>1. q \o <<>> = q
      OBVIOUS
    <3> QED
      BY <2>1, <3>1, Nothing, Zenon
  <2>2. CASE \E b \in left : mq' = q \o Both(g, "FloorReleased", b, None)
    <3> PICK b \in left : mq' = q \o Both(g, "FloorReleased", b, None)
      BY <2>2
    <3>1. b \in Bearers
      BY DEF LiveFor
    <3> QED
      BY <3>1, Messages, ReleaseMessages, Zenon
  <2> QED
    BY <1>2, <2>1, <2>2, Zenon
<1> HIDE DEF listened
<1>4. ASSUME NEW b \in Bearers
      PROVE  /\ call[b] = None => call'[b] = None
             /\ call[b] # None => call'[b] # None /\ Kept(call[b], call'[b])
             /\ b \in left => ~Commits(call'[b])
  <2> DEFINE c == call[b]
             d == Departed(c, i, listened)
             e == IF ~listened THEN Release(d) ELSE d
  <2>1. CASE c = None \/ c.group # g
    <3>1. call'[b] = c /\ b \notin left
      BY <1>1, <2>1, Zenon DEF DropUnlistened, LiveFor, Live
    <3>2. c # None => Kept(c, c)
      BY CallType, RequestsKept, Zenon
    <3> QED
      BY <3>1, <3>2, Zenon
  <2>2. CASE c # None /\ c.group = g
    <3>1. c \in Call
      BY <2>2, CallType
    <3> HIDE DEF c
    <3>2. Kept(c, e) /\ (listened /\ Speaks(c, i) /\ c.rel = None => ~Commits(e))
      BY <1>1, <3>1, DepartedKept, Zenon
    <3>3. d \in Call /\ d.group = g
      <4>1. c.queue \in Seq(Radios)
        BY <3>1 DEF Call
      <4>2. Without(c.queue, i) \in Seq(Radios) /\ <<>> \in Seq(Radios)
        BY <4>1, WithoutFacts
      <4>3. \A w \in Seq(Radios) : LET z == [c EXCEPT !.queue = w]
                                   IN  z \in Call /\ z.group = g
        BY <2>2, <3>1, Zenon DEF Call
      <4>4. \A z \in Call : EnterHangtime(z) \in Call /\ EnterHangtime(z).group = z.group
        BY ZenonT(60) DEF EnterHangtime, Call
      <4> QED
        BY <2>2, <3>1, <4>2, <4>3, <4>4, Zenon DEF Departed
    <3>4. call'[b] = e
      <4>1. after[b] = d
        BY <2>2 DEF c
      <4>2. d # None
        BY <3>3, NoneAssumption
      <4> HIDE DEF after, d
      <4> QED
        BY <1>1, <3>3, <4>1, <4>2 DEF DropUnlistened
    <3>5. b \in left => listened /\ Speaks(c, i) /\ c.rel = None
      BY DEF LiveFor, Live, c
    <3>6. e # None
      BY <3>2, NoneAssumption DEF Kept
    <3> HIDE DEF e, left
    <3> QED
      BY <2>2, <3>2, <3>4, <3>5, <3>6, ZenonT(60) DEF c
  <2> QED
    BY <2>1, <2>2, Zenon
<1> HIDE DEF left
<1>5. left \subseteq Bearers
  BY DEF left, LiveFor
<1>6. ASSUME NEW b \in Bearers PROVE Told(b, out)
  <2>1. OwnReady(call'[b])
    BY <1>4 DEF Kept, Ours, OwnReady
  <2>2. CASE Free(out, Floors(b))
    <3>1. Free(out, Switches(b))
      BY <2>2, SwitchesAreFloors
    <3> QED
      BY <1>4, <2>1, <2>2, <3>1, Zenon DEF Told, Kept, Commits
  <2>3. CASE b \in left /\ Frees(out, b)
    BY <1>4, <2>1, <2>3, Zenon DEF Told, Frees
  <2> QED
    BY <1>3, <1>5, <2>2, <2>3 DEF Silent, Frees, About
<1> QED
  BY <1>3, <1>6 DEF Tells


-----------------------------------------------------------------------------
(* The steps of the system *)

\* Reports to CMCE tell the UMAC nothing.
LEMMA SilentReports == ASSUME NEW out \in Seq(CmceMsg) PROVE Silent(out)
<1>1. \A m \in CmceMsg, b \in Bearers : m \notin Floors(b)
  BY DEF CmceMsg, Floors, Msg
<1> QED
  BY <1>1 DEF Silent, Free

\* Every step CMCE takes of its own accord pays what it owes.
LEMMA CmceTells ==
    ASSUME Ours, CmceSteps
    PROVE  Tells(mq)
<1>1. mq \in Seq(Message)
  BY DEF Ours, TypeOK
<1>2. ASSUME NEW i \in Radios, RadioSteps(i) PROVE Tells(mq)
  <2>1. ASSUME NEW g \in Groups, NEW b \in Bearers, NEW p \in Priorities, SetupNew(i, g, b, p)
        PROVE  Tells(mq)
    BY <2>1, SetupTells
  <2>2. ASSUME NEW b \in Bearers, SetupReentry(i, b) PROVE Tells(mq)
    BY <2>2, ReentryTells
  <2>3. ASSUME NEW b \in Bearers, NEW preemptive \in BOOLEAN, TxDemand(b, i, preemptive)
        PROVE  Tells(mq)
    BY <2>3, TxDemandTells
  <2>4. ASSUME NEW b \in Bearers, TxCeased(b, i) PROVE Tells(mq)
    BY <2>4, TxCeasedTells
  <2>5. ASSUME NEW b \in Bearers, UDisconnect(b, i) PROVE Tells(mq)
    BY <1>1, <2>5, ReleaseTells DEF UDisconnect, Live
  <2>6. ASSUME NEW g \in Groups, Affiliate(i, g) PROVE Tells(mq)
    BY <1>1, <2>6, IdleTells DEF Affiliate
  <2>7. ASSUME NEW g \in Groups, Leave(i, g) PROVE Tells(mq)
    BY <1>1, <2>7, DepartTells DEF Leave
  <2> QED
    BY <1>2, <2>1, <2>2, <2>3, <2>4, <2>5, <2>6, <2>7, Zenon DEF RadioSteps
<1>3. ASSUME NEW b \in Bearers, TickSteps(b) PROVE Tells(mq)
  <2>1. CASE CallTimeout(b) \/ HangtimeExpired(b)
    BY <1>1, <2>1, ReleaseTells DEF CallTimeout, HangtimeExpired, Live
  <2> QED
    BY <1>3, <2>1, ReportTells, DrainTailTells, DrainActivationTells, DrainReadyTells,
       CompleteReleaseTells, CircuitExpiresTells, Zenon DEF TickSteps
<1>4. ASSUME NEW i \in Remotes, NEW g \in Groups, ExternalAffiliate(i, g) \/ ExternalLeave(i, g)
      PROVE  Tells(mq)
  BY <1>1, <1>4, IdleTells, DepartTells DEF ExternalAffiliate, ExternalLeave, ExternalDeparts
<1>5. ASSUME NEW i \in Kickable, Kick(i) PROVE Tells(mq)
  <2>1. i \in Radios
    BY SetsAssumption
  <2> DEFINE out == SetToSeq({[to |-> "cmce", type |-> "Deaffiliate", bearer |-> None,
                               arg |-> [issi |-> i, group |-> g]] :
                                 g \in {h \in Groups : Affiliated(i, h)}})
  <2>2. out \in Seq(CmceMsg)
    BY <2>1, KickReports
  <2>3. mq' = mq \o out /\ call' = call
    BY <1>5 DEF Kick
  <2> HIDE DEF out
  <2>4. out \in Seq(Message) /\ Silent(out)
    BY <2>2, SilentReports, ReportsAreMessages
  <2> QED
    BY <1>1, <2>3, <2>4, IdleTells
<1> QED
  BY <1>2, <1>3, <1>4, <1>5, Zenon DEF CmceSteps, ExternalSteps

\* And so does every message it handles.
LEMMA ReceiptTells ==
    ASSUME Ours, NEW m \in Message, m.to = "cmce", NEW q \in Seq(Message), CmceReceives(m, q)
    PROVE  Tells(q)
<1>1. CASE m.type = "UlInactivityTimeout" /\ UlInactivityTimeout(m.bearer, q)
  BY <1>1, MessageFacts, UlInactivityTells
<1>2. CASE m.type = "NetworkCallStart" /\ NetworkCallStart(m.arg, q)
  BY <1>2, MessageFacts, NetworkCallStartTells
<1>3. CASE m.type = "NetworkCallEnd" /\ NetworkCallEnd(m.arg, q)
  BY <1>3, MessageFacts, NetworkCallEndTells
<1>4. CASE Deaffiliated(m.arg.issi, m.arg.group, q)
  BY <1>4, DepartTells DEF Deaffiliated
<1>5. CASE ExternalDeparts(m.arg.issi, m.arg.group, q)
  BY <1>5, DepartTells, IdleTells DEF ExternalDeparts
<1> QED
  BY <1>1, <1>2, <1>3, <1>4, <1>5, SMTT(30), ZenonT(30) DEF CmceReceives


\* Every step of the system keeps CMCE and the UMAC in agreement.
LEMMA StepAgrees ==
    ASSUME FloorInv, [Next]_vars
    PROVE  \A b \in Bearers : Agrees(b, mq)'
<1>1. /\ TypeOK /\ UmacTypeOK /\ mq \in Seq(Message) /\ Ours
      /\ \A b \in Bearers : Agrees(b, mq)
  BY DEF FloorInv, IInv, TypeOK, Agrees, Ours
<1>2. umac' = umac => StandsBy
  BY DEF StandsBy
<1>0. ASSUME NEW b \in Bearers PROVE Noted(b)
  <2>1. CASE NoteUnclosed
    BY <1>0, <2>1 DEF NoteUnclosed, Noted, Overtaken
  <2>2. CASE UNCHANGED vars
    <3>1. call' = call /\ unclosed' = unclosed /\ (b \in unclosed => call[b] = None)
      BY <1>0, <1>1, <2>2, Zenon DEF vars, Agrees
    <3> QED
      BY <3>1, Zenon DEF Noted, Overtaken
  <2> QED
    BY <2>1, <2>2, Zenon DEF Next
<1>3. ASSUME UNCHANGED cmceVars, StandsBy, NEW q \in Seq(Message), \A b \in Bearers : Agrees(b, q),
             mq' = q \/ \E out \in Seq(CmceMsg) : mq' = q \o out
      PROVE  \A b \in Bearers : Agrees(b, mq)'
  <2>1. mq' = q \/ \E out \in Seq(Message) : Silent(out) /\ mq' = q \o out
    BY <1>3, SilentReports, ReportsAreMessages
  <2>2. Tells(q)
    BY <1>1, <1>3, <2>1, IdleTells, ZenonT(60) DEF cmceVars
  <2> QED
    BY <1>0, <1>1, <1>3, <2>2, TellingAgrees
<1>4. CASE CmceSteps
  <2>1. Tells(mq) /\ StandsBy
    BY <1>1, <1>2, <1>4, CmceTells DEF CmceSteps
  <2> QED
    BY <1>0, <1>1, <2>1, TellingAgrees
<1>5. CASE UmacSteps \/ BrewSteps
  <2>1. UNCHANGED cmceVars /\ (mq' = mq \/ \E out \in Seq(CmceMsg) : mq' = mq \o out)
    BY <1>1, <1>5, OthersSend
  <2>2. ASSUME NEW b \in Bearers, Voice(b) \/ CheckUlInactivity(b) PROVE StandsBy
    <3>1. \A a \in Bearers : umac[a] \in UmacBearer
      BY <1>1 DEF UmacTypeOK
    <3>2. PICK x \in BOOLEAN : umac' = [umac EXCEPT ![b].timer = x]
      BY <2>2, Zenon DEF Voice, CheckUlInactivity
    <3>3. \A a \in Bearers : umac'[a] = umac[a] \/ umac'[a] = [umac[a] EXCEPT !.timer = x]
      BY <1>1, <3>2 DEF UmacTypeOK
    <3> QED
      BY <3>1, <3>3, Zenon DEF StandsBy, UmacBearer
  <2>3. StandsBy
    BY <1>2, <1>5, <2>2, SMTT(30), ZenonT(30) DEF UmacSteps, BrewSteps
  <2> QED
    BY <1>1, <1>3, <2>1, <2>3
<1>6. CASE DeliverNext
  <2> DEFINE m == Head(mq)
             q == Tail(mq)
  <2>1. mq # <<>> /\ m \in Message /\ q \in Seq(Message)
    BY <1>1, <1>6 DEF DeliverNext
  <2>2. CASE m.to = "umac" /\ UmacReceives(m, q) /\ UNCHANGED cmceVars
    <3>1. ASSUME NEW b \in Bearers PROVE b \in unclosed' <=> b \in unclosed
      BY <1>0, <1>1, <2>2 DEF Noted, Agrees, Overtaken, cmceVars
    <3> QED
      BY <1>1, <2>1, <2>2, <3>1, UmacHandles
  <2>3. m.to # "umac" => \A b \in Bearers : Agrees(b, q)
    BY <1>1, <2>1, OthersHandle
  <2> HIDE DEF m, q
  <2>4. CASE m.to = "brew" /\ BrewReceives(m, q) /\ UNCHANGED <<cmceVars, umac>>
    <3>1. mq' = q \/ \E out \in Seq(CmceMsg) : mq' = q \o out
      BY <2>1, <2>4, OthersReceive, ZenonT(60)
    <3> QED
      BY <1>2, <1>3, <2>1, <2>3, <2>4, <3>1, ZenonT(60)
  <2>5. CASE m.to = "cmce" /\ CmceReceives(m, q) /\ UNCHANGED umac
    <3>1. Tells(q) /\ StandsBy
      BY <1>1, <1>2, <2>1, <2>5, ReceiptTells, SMTT(30), ZenonT(30)
    <3> QED
      BY <1>0, <1>1, <2>1, <2>3, <2>5, <3>1, TellingAgrees
  <2> QED
    BY <1>6, <2>2, <2>4, <2>5 DEF DeliverNext, m, q
<1>7. CASE UNCHANGED vars
  BY <1>1, <1>2, <1>3, <1>7 DEF vars, cmceVars
<1> QED
  BY <1>4, <1>5, <1>6, <1>7, SMTT(30), ZenonT(30) DEF Next

\* At start-up there are no calls and the bearers are closed.
LEMMA InitFloorInv == Init => FloorInv
<1> SUFFICES ASSUME Init PROVE FloorInv
  OBVIOUS
<1>1. IInv
  BY InitInv DEF Init
<1>2. UmacTypeOK
  BY DEF Init, UmacInit, Closed, UmacTypeOK, UmacBearer, Media
<1>3. BrewTypeOK
  BY Zenon DEF Init, BrewInit, BrewTypeOK
<1>4. ASSUME NEW b \in Bearers PROVE Agrees(b, mq)
  <2>1. call[b] = None /\ mq = <<>> /\ ~umac[b].open /\ b \notin unclosed
    BY DEF Init, GCInit, UmacInit, Closed
  <2>2. Free(<<>>, Switches(b))
    BY One, Zenon
  <2> QED
    BY <2>1, <2>2, Zenon DEF Agrees, Expected, Decided, Commits, OwnReady
<1> QED
  BY <1>1, <1>2, <1>3, <1>4 DEF FloorInv

-----------------------------------------------------------------------------
(* Theorems *)

\* The inductive invariant of the three entities and the router's queue.
THEOREM SystemInvariance == Spec => []FloorInv
<1>1. ASSUME FloorInv, [Next]_vars PROVE FloorInv'
  <2>1. IInv'
    BY <1>1, SystemStep, CaringStep DEF FloorInv
  <2>2. UmacTypeOK' /\ BrewTypeOK'
    BY <1>1, OthersTyped DEF FloorInv, IInv
  <2>3. \A b \in Bearers : Agrees(b, mq)'
    BY <1>1, StepAgrees
  <2> QED
    BY <2>1, <2>2, <2>3 DEF FloorInv
<1> QED
  BY <1>1, InitFloorInv, PTL DEF Spec

\* What each entity keeps of a message is of the type the receiver takes it for.
THEOREM SystemTyped == Spec => []SystemTypeOK
<1>1. FloorInv => SystemTypeOK
  BY DEF FloorInv, IInv, SystemTypeOK
<1> QED
  BY <1>1, SystemInvariance, PTL

\* What is proved of CMCE in an environment that sends it anything holds of CMCE
\* between the UMAC and Brew: one call per group, releases that nothing overtakes,
\* fair queues and listeners.
THEOREM CallsInSystem ==
    Spec => []/\ OneLiveCallPerGroup
              /\ ReleaseCancelsFloorWork
              /\ QueueWellFormed
              /\ LiveCallsListened
<1>1. FloorInv => /\ OneLiveCallPerGroup
                  /\ ReleaseCancelsFloorWork
                  /\ QueueWellFormed
                  /\ LiveCallsListened
  BY DEF FloorInv, IInv
<1> QED
  BY <1>1, SystemInvariance, PTL

\* When no message is on its way, a bearer is open in the UMAC if and only if CMCE has
\* a call on it, or had one whose circuit expired under the pending release.
THEOREM BearersFollow == Spec => []BearersFollowCalls
<1>1. ASSUME FloorInv, Settled, NEW b \in Bearers PROVE umac[b].open <=> Expected(b)
  <2>1. /\ Expected(b) => Decided(<<>>, Switches(b), Opens(b), umac[b].open)
        /\ ~Expected(b) => Decided(<<>>, Switches(b), Closes(b), ~umac[b].open)
    BY <1>1, Zenon DEF FloorInv, Agrees, Settled
  <2>2. \A V : ~LastIn(<<>>, Switches(b), V)
    BY DEF LastIn
  <2> QED
    BY <2>1, <2>2 DEF Decided
<1>2. FloorInv => BearersFollowCalls
  BY <1>1 DEF BearersFollowCalls, Expected
<1> QED
  BY <1>2, SystemInvariance, PTL

\* CMCE and the UMAC agree on the bearers in use: what the UMAC keeps open is what the
\* calls of CMCE need and what CMCE could no longer close, and all three entities keep
\* to their types.
THEOREM SystemAgrees == Spec => []BearersAgree
BY SystemTyped, BearersFollow, PTL DEF BearersAgree

\* When no message is on its way, the UMAC hears the radio that CMCE has given the
\* floor to, whatever mix of grants, tails, time-outs and network speakers led there.
THEOREM SpeakersHeard == Spec => []SpeakerHeard
<1>1. ASSUME FloorInv, Settled, NEW b \in Bearers, Live(b), call[b].tx, ~Undecided(call[b])
      PROVE  ~umac[b].hang /\ umac[b].speaker = call[b].speaker
  <2> DEFINE c == call[b]
  <2>1. c \in Call
    BY <1>1 DEF FloorInv, IInv, TypeOK, Live
  <2>2. c.speaker # None
    BY <2>1, NoneAssumption DEF Call, Issis
  <2>3. Commits(c)
    BY <1>1, <2>2 DEF Commits, Live, Undecided
  <2>4. Decided(<<>>, Floors(b), FloorTo(b, c.speaker), Hears(b, c.speaker))
    BY <1>1, <2>3, Zenon DEF FloorInv, Agrees, Settled
  <2>5. ~LastIn(<<>>, Floors(b), FloorTo(b, c.speaker))
    BY DEF LastIn
  <2> QED
    BY <2>4, <2>5 DEF Decided, Hears
<1>2. FloorInv => SpeakerHeard
  BY <1>1 DEF SpeakerHeard
<1> QED
  BY <1>2, SystemInvariance, PTL

\* Between the UMAC and Brew as well, nobody but an affiliated radio is given the floor
\* of a call in progress, and a radio whose leaving CMCE learns of loses it.
THEOREM FloorRulesInSystem == Spec => FloorGoesToMembers /\ LeaversLoseFloor
<1> DEFINE A == \A b \in Bearers : Live(b) /\ Live(b)' =>
                  LET i == call'[b].speaker
                  IN  i \in Radios /\ Speaks(call'[b], i) /\ ~Speaks(call[b], i)
                        => Affiliated(i, call[b].group)
<1>1. ASSUME FloorInv, [Next]_vars PROVE A /\ Yields
  <2>1. Evolves /\ Yields
    BY <1>1, SystemStep DEF FloorInv
  <2> QED
    BY <2>1, Zenon DEF Evolves, Follows, Live, Members
<1>2. FloorGoesToMembers <=> [][A]_gcVars
  BY PTL DEF FloorGoesToMembers
<1>3. LeaversLoseFloor <=> [][Yields]_gcVars
  BY PTL DEF LeaversLoseFloor, Yields
<1> HIDE DEF A
<1> QED
  BY <1>1, <1>2, <1>3, SystemInvariance, PTL DEF Spec

=============================================================================

-------------------------- MODULE FloorSystemSteps --------------------------
(* Lemmas about FloorSystem: its messages, CMCE's steps beside the real UMAC  *)
(* and Brew, what the messages still on their way tell the UMAC, and the      *)
(* operations on a call.                                                      *)
EXTENDS FloorSystem, GroupCallProofs

-----------------------------------------------------------------------------
(* Messages *)

\* The receiver and the type of a message tell what it carries.
LEMMA MessageFacts ==
    ASSUME NEW m \in Message
    PROVE  /\ m.to \in {"umac", "brew", "cmce"}
           /\ m.to = "umac" =>
                /\ m.bearer \in Bearers
                /\ m.type \in {"Open", "FloorGranted", "Close", "FloorReleased", "CallEnded",
                               "SetDlMediaSource"}
                /\ m.type \in {"Open", "FloorGranted"} => m.arg \in Issis
                /\ m.type = "SetDlMediaSource" => m.arg \in Media
           /\ m.to = "brew" =>
                /\ m.type \in {"FloorGranted", "FloorReleased", "CallEnded", "NetworkCallReady",
                               "NetworkCallEnd"}
                /\ m.type # "NetworkCallEnd" => m.bearer \in Bearers
                /\ m.type = "FloorGranted" => m.arg \in Issis
                /\ m.type \in {"NetworkCallReady", "NetworkCallEnd"} => m.arg \in Uuids
           /\ m.to = "cmce" =>
                /\ m.type = "UlInactivityTimeout" => m.bearer \in Bearers
                /\ m.type = "NetworkCallStart" => m.arg \in NetStart
                /\ m.type = "NetworkCallEnd" => m.arg \in Uuids
                /\ m.type = "Deregister" => m.arg.issi \in Remotes /\ m.arg.group \in Groups
<1>1. CASE m \in UmacMsg
  BY <1>1 DEF UmacMsg, Msg
<1>2. CASE m \in BrewMsg
  BY <1>2 DEF BrewMsg, Msg
<1>3. CASE m \in CmceMsg
  BY <1>3 DEF CmceMsg, Msg
<1> QED
  BY <1>1, <1>2, <1>3 DEF Message

\* What the UMAC and Brew send CMCE.
LEMMA Reports ==
    /\ \A b \in Bearers : [to |-> "cmce", type |-> "UlInactivityTimeout", bearer |-> b,
                           arg |-> None] \in CmceMsg
    /\ \A n \in NetStart : ToCmce("NetworkCallStart", n) \in CmceMsg
    /\ \A u \in Uuids : ToCmce("NetworkCallEnd", u) \in CmceMsg
    /\ \A i \in Remotes, g \in Groups :
         ToCmce("Deregister", [issi |-> i, group |-> g]) \in CmceMsg
BY DEF ToCmce, CmceMsg, Msg

\* Reports to CMCE are messages.
LEMMA ReportsAreMessages == CmceMsg \subseteq Message /\ Seq(CmceMsg) \subseteq Seq(Message)
<1>1. CmceMsg \subseteq Message
  BY DEF Message
<1> QED
  BY <1>1

\* What Brew sends when it loses the server.
LEMMA Disconnected ==
    ASSUME TypeOK
    PROVE  \A K \in SUBSET Uuids :
             SetToSeq({ToCmce("Deregister", [issi |-> a[1], group |-> a[2]]) : a \in ext})
               \o SetToSeq({ToCmce("NetworkCallEnd", u) : u \in K}) \in Seq(CmceMsg)
<1> SUFFICES ASSUME NEW K \in SUBSET Uuids
             PROVE  SetToSeq({ToCmce("Deregister", [issi |-> a[1], group |-> a[2]]) : a \in ext})
                      \o SetToSeq({ToCmce("NetworkCallEnd", u) : u \in K}) \in Seq(CmceMsg)
  OBVIOUS
<1> DEFINE D(a) == ToCmce("Deregister", [issi |-> a[1], group |-> a[2]])
           E(u) == ToCmce("NetworkCallEnd", u)
           S == {D(a) : a \in ext}
           T == {E(u) : u \in K}
<1>1. S \subseteq CmceMsg /\ IsFiniteSet(S)
  <2>1. \A a \in ext : a[1] \in Remotes /\ a[2] \in Groups
    BY DEF TypeOK
  <2>2. \A a \in ext : D(a) \in CmceMsg
    BY <2>1, Reports
  <2>3. IsFiniteSet(ext)
    <3>1. IsFiniteSet(Remotes \X Groups)
      BY FS_Product, SetsAssumption, BrewAssumption
    <3> QED
      BY <3>1, FS_Subset DEF TypeOK
  <2> DEFINE f == [a \in ext |-> D(a)]
  <2>4. f \in Surjection(ext, S)
    BY Zenon DEF Surjection
  <2>5. IsFiniteSet(S)
    <3> HIDE DEF f, S
    <3> QED
      BY <2>3, <2>4, FS_Surjection
  <2> HIDE DEF D
  <2> QED
    BY <2>2, <2>5
<1>2. T \subseteq CmceMsg /\ IsFiniteSet(T)
  <2>1. \A u \in K : E(u) \in CmceMsg
    BY Reports
  <2>2. IsFiniteSet(K)
    BY FS_Subset, BrewAssumption
  <2> DEFINE f == [u \in K |-> E(u)]
  <2>3. f \in Surjection(K, T)
    BY DEF Surjection
  <2>4. IsFiniteSet(T)
    <3> HIDE DEF f, T
    <3> QED
      BY <2>2, <2>3, FS_Surjection
  <2> HIDE DEF E
  <2> QED
    BY <2>1, <2>4
<1> HIDE DEF S, T
<1>3. SetToSeq(S) \in Seq(CmceMsg) /\ SetToSeq(T) \in Seq(CmceMsg)
  BY <1>1, <1>2, SetToSeqFacts
<1>4. SetToSeq(S) \o SetToSeq(T) \in Seq(CmceMsg)
  BY <1>3, AppendedFacts
<1> QED
  BY <1>4 DEF S, T, D, E

-----------------------------------------------------------------------------
(* CMCE beside the UMAC and Brew *)

\* What Brew and the UMAC do of their own accord adds messages and nothing else.
LEMMA OthersSend ==
    ASSUME TypeOK, UmacSteps \/ BrewSteps
    PROVE  /\ UNCHANGED cmceVars
           /\ mq' = mq \/ \E out \in Seq(CmceMsg) : mq' = mq \o out
<1> DEFINE Sends == mq' = mq \/ \E out \in Seq(CmceMsg) : mq' = mq \o out
<1>1. ASSUME NEW x \in CmceMsg PROVE <<x>> \in Seq(CmceMsg)
  BY <1>1
<1>2. ASSUME NEW b \in Bearers, Voice(b) \/ CheckUlInactivity(b) PROVE Sends
  <2> DEFINE x == [to |-> "cmce", type |-> "UlInactivityTimeout", bearer |-> b, arg |-> None]
  <2>1. CASE mq' = Append(mq, x)
    <3>1. x \in CmceMsg
      BY Reports
    <3> HIDE DEF x
    <3>2. Append(mq, x) = mq \o <<x>>
      BY <3>1 DEF TypeOK
    <3> QED
      BY <1>1, <2>1, <3>1, <3>2, Zenon
  <2> QED
    BY <1>2, <2>1, Zenon DEF Voice, CheckUlInactivity
<1>3. ASSUME NEW x \in CmceMsg, Send(<<x>>) PROVE Sends
  BY <1>1, <1>3, Zenon DEF Send
<1>4. ASSUME Disconnect PROVE Sends
  <2> DEFINE K == {u \in Uuids : active[u] # None}
  <2>1. K \in SUBSET Uuids
    OBVIOUS
  <2> HIDE DEF K
  <2> QED
    BY <1>4, <2>1, Disconnected, Zenon DEF Disconnect, Send, K
<1>5. ASSUME NEW n \in NetStart, GroupTx(n) PROVE Sends
  BY <1>3, <1>5, Reports, SMTT(30), ZenonT(30) DEF GroupTx
<1>6. ASSUME NEW u \in Uuids, GroupIdle(u) \/ ReleaseZeroMedia(u) PROVE Sends
  BY <1>3, <1>6, Reports, Zenon DEF GroupIdle, ReleaseZeroMedia
<1>7. ASSUME Connect \/ \E g \in Groups : ExpireHanging(g) PROVE Sends
  BY <1>7 DEF Connect, ExpireHanging
<1> HIDE DEF Sends
<1>8. Sends
  BY <1>2, <1>4, <1>5, <1>6, <1>7, Zenon DEF UmacSteps, BrewSteps
<1> QED
  BY <1>8 DEF UmacSteps, BrewSteps, Sends

\* A message for the UMAC or Brew is taken from the queue, and may be answered.
LEMMA OthersReceive ==
    ASSUME NEW m \in Message, NEW q \in Seq(Message),
           \/ m.to = "umac" /\ UmacReceives(m, q)
           \/ m.to = "brew" /\ BrewReceives(m, q)
    PROVE  mq' = q \/ \E out \in Seq(CmceMsg) : mq' = q \o out
<1>1. CASE m.to = "umac" /\ UmacReceives(m, q)
  BY <1>1 DEF UmacReceives
<1>2. CASE m.to = "brew" /\ BrewReceives(m, q)
  <2>1. CASE m.type = "NetworkCallReady" /\ NetworkCallReady(m.bearer, m.arg, q)
    <3>1. ToCmce("NetworkCallEnd", m.arg) \in CmceMsg
      BY <1>2, <2>1, MessageFacts, Reports
    <3>2. <<ToCmce("NetworkCallEnd", m.arg)>> \in Seq(CmceMsg)
      BY <3>1
    <3> QED
      BY <2>1, <3>2, Zenon DEF NetworkCallReady
  <2> QED
    BY <1>2, <2>1 DEF BrewReceives
<1> QED
  BY <1>1, <1>2, Zenon

\* Every step of the system is, for CMCE, one of the steps that keep its invariant:
\* the router's queue only ever loses its oldest message.
LEMMA SystemStep ==
    ASSUME IInv, [Next]_vars
    PROVE  TypeOK' /\ Evolves /\ Cares /\ Yields
<1> DEFINE Good == TypeOK' /\ Evolves /\ Cares /\ Yields
<1>1. ASSUME TypeOK' /\ Evolves /\ Keeps PROVE Good
  BY <1>1, KeepsCares DEF Keeps, Yields
<1>2. TypeOK
  BY DEF IInv
<1>3. CASE CmceSteps
  <2>1. GCNext
    BY <1>3 DEF CmceSteps, GCNext
  <2> QED
    BY <2>1, EveryStep
<1>4. CASE UmacSteps \/ BrewSteps
  <2>1. UNCHANGED cmceVars /\ (mq' = mq \/ \E out \in Seq(Message) : mq' = mq \o out)
    BY <1>2, <1>4, OthersSend, ReportsAreMessages
  <2> QED
    BY <1>1, <2>1, StillStep, RestWhole DEF cmceVars
<1>5. CASE DeliverNext
  <2> DEFINE m == Head(mq)
             q == Tail(mq)
  <2>1. mq # <<>> /\ m \in Message /\ q \in Seq(Message)
    BY <1>2, <1>5 DEF TypeOK, DeliverNext
  <2>2. m.type # "Deaffiliate" => Rest(q)
    BY <1>2, <2>1, RestTail
  <2>3. \/ m.to = "umac" /\ UmacReceives(m, q) /\ UNCHANGED cmceVars
        \/ m.to = "brew" /\ BrewReceives(m, q) /\ UNCHANGED cmceVars
        \/ m.to = "cmce" /\ CmceReceives(m, q)
    BY <1>5 DEF DeliverNext
  <2>4. CASE m.type = "Deaffiliate" /\ Deaffiliated(m.arg.issi, m.arg.group, q)
    <3>1. Deliver
      BY <2>1, <2>4 DEF Deliver
    <3> QED
      BY <3>1, DeliverStep
  <2> HIDE DEF m, q
  <2>5. CASE UNCHANGED cmceVars /\ (UmacReceives(m, q) \/ BrewReceives(m, q)) /\ m.to # "cmce"
    <3>1. m.type # "Deaffiliate" /\ (mq' = q \/ \E out \in Seq(Message) : mq' = q \o out)
      BY <2>1, <2>3, <2>5, MessageFacts, OthersReceive, ReportsAreMessages, Zenon
    <3> QED
      BY <1>1, <2>2, <2>5, <3>1, StillStep DEF cmceVars
  <2>6. CASE m.to = "cmce" /\ m.type = "UlInactivityTimeout" /\ UlInactivityTimeout(m.bearer, q)
    BY <1>1, <2>1, <2>2, <2>6, MessageFacts, UlInactivityStep
  <2>7. CASE m.to = "cmce" /\ m.type = "NetworkCallStart" /\ NetworkCallStart(m.arg, q)
    BY <1>1, <2>1, <2>2, <2>7, MessageFacts, NetworkCallStartStep
  <2>8. CASE m.to = "cmce" /\ m.type = "NetworkCallEnd" /\ NetworkCallEnd(m.arg, q)
    BY <1>1, <2>1, <2>2, <2>8, MessageFacts, NetworkCallEndStep, SMTT(30), ZenonT(30)
  <2>9. CASE m.to = "cmce" /\ m.type = "Deregister" /\ ExternalDeparts(m.arg.issi, m.arg.group, q)
    BY <2>1, <2>2, <2>9, MessageFacts, ExternalDepartsStep
  <2> QED
    BY <2>3, <2>4, <2>5, <2>6, <2>7, <2>8, <2>9, Zenon DEF CmceReceives
<1>6. CASE UNCHANGED vars
  BY <1>1, <1>6, StillStep, RestWhole DEF vars
<1> QED
  BY <1>3, <1>4, <1>5, <1>6 DEF Next

-----------------------------------------------------------------------------
(* Types *)

\* What a control message makes of a bearer.
LEMMA AfterControlType ==
    ASSUME NEW s \in UmacBearer, NEW m \in Message, m.to = "umac"
    PROVE  AfterControl(s, m) \in UmacBearer
<1>1. /\ m.type \in {"Open", "FloorGranted", "Close", "FloorReleased", "CallEnded",
                     "SetDlMediaSource"}
      /\ m.type \in {"Open", "FloorGranted"} => m.arg \in Issis
      /\ m.type = "SetDlMediaSource" => m.arg \in Media
  BY MessageFacts
<1>2. ASSUME NEW i \in Issis PROVE OnOpen(s, i) \in UmacBearer /\ OnFloorGranted(s, i) \in UmacBearer
  BY <1>2, Zenon DEF OnOpen, OnFloorGranted, UmacBearer, Media
<1>3. ASSUME NEW x \in Media PROVE OnSetDlMediaSource(s, x) \in UmacBearer
  BY <1>3 DEF OnSetDlMediaSource, UmacBearer
<1>4. /\ OnClose(s) \in UmacBearer /\ OnFloorReleased(s) \in UmacBearer
      /\ OnCallEnded(s) \in UmacBearer
  BY Zenon DEF OnClose, OnFloorReleased, OnCallEnded, Closed, UmacBearer, Media
<1> QED
  BY <1>1, <1>2, <1>3, <1>4, Zenon DEF AfterControl

\* The UMAC's bearers and Brew's sessions keep their types.
LEMMA OthersTyped ==
    ASSUME TypeOK, UmacTypeOK, BrewTypeOK, [Next]_vars
    PROVE  UmacTypeOK' /\ BrewTypeOK'
<1>1. CASE UNCHANGED <<umac, brewVars>>
  BY <1>1 DEF UmacTypeOK, BrewTypeOK, brewVars
<1>2. ASSUME NEW b \in Bearers, Voice(b) \/ CheckUlInactivity(b), UNCHANGED brewVars
      PROVE  UmacTypeOK' /\ BrewTypeOK'
  <2>1. \A x \in BOOLEAN : [umac[b] EXCEPT !.timer = x] \in UmacBearer
    BY DEF UmacTypeOK, UmacBearer
  <2>2. UmacTypeOK'
    BY <1>2, <2>1, Zenon DEF Voice, CheckUlInactivity, UmacTypeOK
  <2> QED
    BY <1>2, <2>2 DEF BrewTypeOK, brewVars
<1>3. CASE BrewSteps
  <2>1. UmacTypeOK'
    BY <1>3 DEF BrewSteps, UmacTypeOK
  <2>2. ASSUME Connect \/ Disconnect PROVE BrewTypeOK'
    BY <2>2, Zenon DEF Connect, Disconnect, BrewTypeOK
  <2>3. ASSUME NEW n \in NetStart, GroupTx(n) PROVE BrewTypeOK'
    <3> DEFINE u == n.uuid
               h == hanging[n.group]
               new == [issi |-> n.issi, group |-> n.group, ready |-> h # None,
                       bearer |-> IF h = None THEN None ELSE h.bearer]
    <3>1. u \in Uuids /\ n.issi \in Remotes /\ n.group \in Groups
      BY DEF NetStart
    <3>2. new \in Session
      <4>1. h \in Hanging \cup {None}
        BY <3>1 DEF BrewTypeOK
      <4> QED
        BY <3>1, <4>1 DEF Session, Hanging
    <3>3. active[u] # None => [active[u] EXCEPT !.issi = n.issi, !.ready = FALSE] \in Session
      BY <3>1, Zenon DEF BrewTypeOK, Session
    <3>4. \/ /\ active[u] # None /\ UNCHANGED hanging
             /\ active' = [active EXCEPT ![u].issi = n.issi, ![u].ready = FALSE]
          \/ /\ active' = [active EXCEPT ![u] = new]
             /\ hanging' = [hanging EXCEPT ![n.group] = None]
      BY <2>3 DEF GroupTx
    <3>5. UNCHANGED <<connected, fwd, server>>
      BY <2>3 DEF GroupTx
    <3> HIDE DEF new, u, h
    <3>6. active' \in [Uuids -> Session \cup {None}] /\ hanging' \in [Groups -> Hanging \cup {None}]
      BY <3>1, <3>2, <3>3, <3>4, Zenon DEF BrewTypeOK
    <3> QED
      BY <3>5, <3>6 DEF BrewTypeOK
  <2>4. ASSUME NEW u \in Uuids, GroupIdle(u) PROVE BrewTypeOK'
    BY <2>4 DEF GroupIdle, BrewTypeOK, Session, Hanging
  <2>5. ASSUME NEW u \in Uuids, ReleaseZeroMedia(u) PROVE BrewTypeOK'
    BY <2>5 DEF ReleaseZeroMedia, BrewTypeOK
  <2>6. ASSUME NEW g \in Groups, ExpireHanging(g) PROVE BrewTypeOK'
    BY <2>6 DEF ExpireHanging, BrewTypeOK
  <2> QED
    BY <1>3, <2>1, <2>2, <2>3, <2>4, <2>5, <2>6 DEF BrewSteps
<1>4. CASE DeliverNext
  <2> DEFINE m == Head(mq)
             q == Tail(mq)
  <2>1. m \in Message
    BY <1>4 DEF TypeOK, DeliverNext
  <2>2. \/ m.to = "umac" /\ UmacReceives(m, q) /\ UNCHANGED brewVars
        \/ m.to = "brew" /\ BrewReceives(m, q) /\ UNCHANGED umac
        \/ UNCHANGED <<umac, brewVars>>
    BY <1>4 DEF DeliverNext
  <2> HIDE DEF m, q
  <2>3. CASE m.to = "umac" /\ UmacReceives(m, q) /\ UNCHANGED brewVars
    <3>1. m.bearer \in Bearers /\ \A s \in UmacBearer : AfterControl(s, m) \in UmacBearer
      BY <2>1, <2>3, MessageFacts, AfterControlType
    <3>2. UmacTypeOK'
      BY <2>3, <3>1 DEF UmacReceives, UmacTypeOK
    <3> QED
      BY <2>3, <3>2 DEF BrewTypeOK, brewVars
  <2>4. CASE m.to = "brew" /\ BrewReceives(m, q) /\ UNCHANGED umac
    <3>1. UmacTypeOK'
      BY <2>4 DEF UmacTypeOK
    <3>2. ASSUME NEW b \in Bearers, NEW i \in Issis, LocalCallStart(b, i) PROVE BrewTypeOK'
      BY <3>2 DEF LocalCallStart, BrewTypeOK
    <3>3. ASSUME NEW b \in Bearers, LocalCallTxStopped(b) \/ LocalCallEnd(b) PROVE BrewTypeOK'
      BY <3>3 DEF LocalCallTxStopped, LocalCallEnd, BrewTypeOK
    <3>4. ASSUME NEW b \in Bearers, NEW u \in Uuids, NetworkCallReady(b, u, q) PROVE BrewTypeOK'
      BY <3>4 DEF NetworkCallReady, BrewTypeOK, Session
    <3>5. ASSUME NEW u \in Uuids, DropNetworkCall(u) PROVE BrewTypeOK'
      BY <3>5 DEF DropNetworkCall, BrewTypeOK
    <3> QED
      BY <2>1, <2>4, <3>1, <3>2, <3>3, <3>4, <3>5, MessageFacts, SMTT(30), ZenonT(30) DEF BrewReceives
  <2> QED
    BY <1>1, <2>2, <2>3, <2>4
<1> QED
  BY <1>1, <1>2, <1>3, <1>4 DEF Next, CmceSteps, UmacSteps, vars, brewVars

-----------------------------------------------------------------------------
(* The last of the pending messages decides *)

\* Of the messages in K that are pending in s, the last is in V.
LastIn(s, K, V) == \E n \in 1..Len(s) : s[n] \in V /\ \A k \in (n + 1)..Len(s) : s[k] \notin K

\* None is pending.
Free(s, K) == \A n \in 1..Len(s) : s[n] \notin K

\* Once the messages in s are handled things will be as V says: the last of K makes
\* them so, or they are so (d) and nothing changes that.
Decided(s, K, V, d) == LastIn(s, K, V) \/ (Free(s, K) /\ d)

\* How messages decide that follow one another.
LEMMA OneByOne ==
    ASSUME NEW S, NEW s \in Seq(S), NEW t \in Seq(S), NEW K, NEW V
    PROVE  /\ Free(s, K) /\ Free(t, K) => Free(s \o t, K)
           /\ LastIn(s, K, V) /\ Free(t, K) => LastIn(s \o t, K, V)
           /\ LastIn(t, K, V) => LastIn(s \o t, K, V)
<1> DEFINE w == s \o t
<1>1. /\ Len(w) = Len(s) + Len(t) /\ Len(s) \in Nat /\ Len(t) \in Nat
      /\ \A n \in 1 .. Len(s) + Len(t) : w[n] = IF n <= Len(s) THEN s[n] ELSE t[n - Len(s)]
  OBVIOUS
<1> HIDE DEF w
<1>2. ASSUME NEW n \in 1..Len(w)
      PROVE  \/ n \in 1..Len(s) /\ w[n] = s[n]
             \/ n - Len(s) \in 1..Len(t) /\ w[n] = t[n - Len(s)] /\ n > Len(s)
  BY <1>1
<1>3. ASSUME Free(s, K), Free(t, K) PROVE Free(w, K)
  BY <1>2, <1>3 DEF Free
<1>4. ASSUME LastIn(s, K, V), Free(t, K) PROVE LastIn(w, K, V)
  <2>1. PICK n \in 1..Len(s) : s[n] \in V /\ \A k \in (n + 1)..Len(s) : s[k] \notin K
    BY <1>4 DEF LastIn
  <2>2. n \in 1..Len(w) /\ w[n] \in V
    BY <1>1, <2>1
  <2>3. ASSUME NEW k \in (n + 1)..Len(w) PROVE w[k] \notin K
    <3>1. CASE k \in 1..Len(s)
      <4>1. w[k] = s[k] /\ k \in (n + 1)..Len(s)
        BY <1>1, <3>1
      <4> QED
        BY <2>1, <4>1
    <3>2. CASE k \notin 1..Len(s)
      <4>1. k \in 1..Len(w)
        BY <1>1, <2>3
      <4> QED
        BY <1>2, <1>4, <3>2, <4>1, Zenon DEF Free
    <3> QED
      BY <3>1, <3>2
  <2> QED
    BY <2>2, <2>3 DEF LastIn
<1>5. ASSUME LastIn(t, K, V) PROVE LastIn(w, K, V)
  <2>1. PICK n \in 1..Len(t) : t[n] \in V /\ \A k \in (n + 1)..Len(t) : t[k] \notin K
    BY <1>5 DEF LastIn
  <2> DEFINE j == Len(s) + n
  <2>2. j \in 1..Len(w) /\ w[j] = t[n]
    BY <1>1
  <2>3. ASSUME NEW k \in (j + 1)..Len(w) PROVE w[k] \notin K
    <3>1. w[k] = t[k - Len(s)] /\ k - Len(s) \in (n + 1)..Len(t)
      BY <1>1, <2>3
    <3> QED
      BY <2>1, <3>1
  <2> HIDE DEF j
  <2> QED
    BY <2>1, <2>2, <2>3 DEF LastIn
<1> QED
  BY <1>3, <1>4, <1>5 DEF w

\* A single message.
LEMMA One ==
    ASSUME NEW x, NEW K, NEW V
    PROVE  /\ x \notin K => Free(<<x>>, K)
           /\ x \in V => LastIn(<<x>>, K, V)
           /\ Free(<<>>, K)
BY DEF Free, LastIn

\* Messages that say nothing about it decide nothing; a last word decides.
LEMMA Sending ==
    ASSUME NEW S, NEW s \in Seq(S), NEW t \in Seq(S), NEW K, NEW V, NEW d \in BOOLEAN
    PROVE  /\ Decided(s, K, V, d) /\ Free(t, K) => Decided(s \o t, K, V, d)
           /\ LastIn(t, K, V) => Decided(s \o t, K, V, d)
BY OneByOne DEF Decided

\* Handling the oldest message: what it decided is now so.
LEMMA Handling ==
    ASSUME NEW S, NEW s \in Seq(S), s # <<>>, NEW K, NEW V, NEW d \in BOOLEAN, NEW e \in BOOLEAN,
           Decided(s, K, V, d), Head(s) \in V => e, Head(s) \notin K /\ d => e
    PROVE  Decided(Tail(s), K, V, e)
<1> DEFINE t == Tail(s)
<1>1. /\ Len(t) = Len(s) - 1 /\ Len(s) \in Nat \ {0} /\ Head(s) = s[1]
      /\ \A n \in 1..Len(t) : t[n] = s[n + 1]
  OBVIOUS
<1> HIDE DEF t
<1>2. CASE Free(s, K) /\ d
  <2>1. Head(s) \notin K
    BY <1>1, <1>2 DEF Free
  <2>2. Free(t, K)
    BY <1>1, <1>2 DEF Free
  <2> QED
    BY <1>2, <2>1, <2>2 DEF Decided, t
<1>3. CASE LastIn(s, K, V)
  <2>1. PICK n \in 1..Len(s) : s[n] \in V /\ \A k \in (n + 1)..Len(s) : s[k] \notin K
    BY <1>3 DEF LastIn
  <2>2. ASSUME NEW k \in n..Len(t) PROVE t[k] \notin K
    <3>1. k \in 1..Len(t) /\ k + 1 \in (n + 1)..Len(s)
      BY <1>1, <2>2
    <3> QED
      BY <1>1, <2>1, <3>1
  <2>3. CASE n = 1
    <3>1. Free(t, K)
      BY <2>2, <2>3 DEF Free
    <3>2. e
      BY <1>1, <2>1, <2>3
    <3> QED
      BY <3>1, <3>2 DEF Decided, t
  <2>4. CASE n # 1
    <3>1. n - 1 \in 1..Len(t) /\ t[n - 1] = s[n] /\ (n - 1) + 1 = n
      BY <1>1, <2>4
    <3>2. LastIn(t, K, V)
      BY <2>1, <2>2, <3>1 DEF LastIn
    <3> QED
      BY <3>2 DEF Decided, t
  <2> QED
    BY <2>3, <2>4
<1> QED
  BY <1>2, <1>3 DEF Decided

-----------------------------------------------------------------------------
(* What CMCE's messages tell the UMAC *)

\* The messages that open and close the bearer b, that give its floor to i, and all
\* that change who is heard on it.
Opens(b) == Msg("umac", {"Open"}, {b}, Issis)
Closes(b) == Msg("umac", {"Close"}, {b}, {None})
Switches(b) == Opens(b) \cup Closes(b)
FloorTo(b, i) == Msg("umac", {"Open", "FloorGranted"}, {b}, {i})
Floors(b) == Msg("umac", {"Open", "FloorGranted"}, {b}, Issis)
             \cup Msg("umac", {"Close", "FloorReleased", "CallEnded"}, {b}, {None})

\* What a step of CMCE sends is about at most one bearer: nothing about the floor; or
\* an end of the floor or a grant; or the opening or closing of the bearer.
Silent(out) == \A b \in Bearers : Free(out, Floors(b))
About(out, a) == \A b \in Bearers \ {a} : Free(out, Floors(b))
Frees(out, a) == About(out, a) /\ Free(out, Switches(a))
Grants(out, a, i) == Frees(out, a) /\ LastIn(out, Floors(a), FloorTo(a, i))
Opening(out, a, i) == /\ About(out, a)
                      /\ LastIn(out, Switches(a), Opens(a))
                      /\ LastIn(out, Floors(a), FloorTo(a, i))
Closing(out, a) == About(out, a) /\ LastIn(out, Switches(a), Closes(a))

\* Opening and closing a bearer changes who is heard on it.
LEMMA SwitchesAreFloors ==
    ASSUME NEW b, NEW s, Free(s, Floors(b))
    PROVE  Free(s, Switches(b))
<1>1. Switches(b) \subseteq Floors(b)
  BY DEF Switches, Floors, Opens, Closes, Msg
<1> QED
  BY <1>1 DEF Free

\* Single messages.
LEMMA SingleMessages ==
    ASSUME NEW a \in Bearers, NEW i \in Issis
    PROVE  /\ \A b \in Bearers \ {a}, type \in {"Open", "FloorGranted"} :
                ToUmac(type, a, i) \notin Floors(b)
           /\ \A b \in Bearers \ {a}, type \in {"Close", "FloorReleased", "CallEnded"} :
                ToUmac(type, a, None) \notin Floors(b)
           /\ \A b, x : ToUmac("SetDlMediaSource", a, x) \notin Floors(b)
           /\ \A b, t, c, x : ToBrew(t, c, x) \notin Floors(b)
           /\ ToUmac("FloorGranted", a, i) \notin Switches(a)
           /\ ToUmac("FloorReleased", a, None) \notin Switches(a)
           /\ ToUmac("CallEnded", a, None) \notin Switches(a)
           /\ ToUmac("Open", a, i) \in Opens(a) \cap FloorTo(a, i)
           /\ ToUmac("FloorGranted", a, i) \in FloorTo(a, i)
           /\ ToUmac("Close", a, None) \in Closes(a)
<1>1. /\ \A b, x : ToUmac("SetDlMediaSource", a, x) \notin Floors(b)
      /\ \A b, t, c, x : ToBrew(t, c, x) \notin Floors(b)
  BY DEF ToUmac, ToBrew, Floors, Msg
<1>2. /\ \A b \in Bearers \ {a}, type \in {"Open", "FloorGranted"} :
           ToUmac(type, a, i) \notin Floors(b)
      /\ \A b \in Bearers \ {a}, type \in {"Close", "FloorReleased", "CallEnded"} :
           ToUmac(type, a, None) \notin Floors(b)
  BY DEF ToUmac, Floors, Msg
<1> QED
  BY <1>1, <1>2 DEF ToUmac, Switches, Opens, Closes, FloorTo, Msg

\* Two and three messages.
LEMMA Few ==
    ASSUME NEW x, NEW y, NEW z, NEW K, NEW V
    PROVE  /\ x \notin K /\ y \notin K => Free(<<x, y>>, K)
           /\ x \in V /\ y \notin K => LastIn(<<x, y>>, K, V)
           /\ x \notin K /\ y \notin K /\ z \notin K => Free(<<x, y, z>>, K)
           /\ y \in V /\ z \notin K => LastIn(<<x, y, z>>, K, V)
<1>1. x \notin K /\ y \notin K => Free(<<x, y>>, K)
  BY DEF Free
<1>2. ASSUME x \in V, y \notin K PROVE LastIn(<<x, y>>, K, V)
  <2>1. \A k \in (1 + 1)..Len(<<x, y>>) : <<x, y>>[k] \notin K
    BY <1>2
  <2> QED
    BY <1>2, <2>1 DEF LastIn
<1>3. x \notin K /\ y \notin K /\ z \notin K => Free(<<x, y, z>>, K)
  BY DEF Free
<1>4. ASSUME y \in V, z \notin K PROVE LastIn(<<x, y, z>>, K, V)
  <2>1. \A k \in (2 + 1)..Len(<<x, y, z>>) : <<x, y, z>>[k] \notin K
    BY <1>4
  <2> QED
    BY <1>4, <2>1 DEF LastIn
<1> QED
  BY <1>1, <1>2, <1>3, <1>4

\* The messages about a grant, with or without a change of the downlink's source.
LEMMA GrantMessages ==
    ASSUME NEW a \in Bearers, NEW i \in Issis
    PROVE  /\ \A g : Grants(Both(g, "FloorGranted", a, i), a, i)
           /\ \A g : \A x \in Media :
                Grants(<<ToUmac("SetDlMediaSource", a, x)>> \o Both(g, "FloorGranted", a, i), a, i)
           /\ \A x, u : Grants(<<ToUmac("SetDlMediaSource", a, x), ToUmac("FloorGranted", a, i),
                                 ToBrew("NetworkCallReady", a, u)>>, a, i)
<1> DEFINE f == ToUmac("FloorGranted", a, i)
           h == ToBrew("FloorGranted", a, i)
           m(x) == ToUmac("SetDlMediaSource", a, x)
           r(u) == ToBrew("NetworkCallReady", a, u)
<1>1. /\ f \in FloorTo(a, i) /\ f \notin Switches(a) /\ \A b \in Bearers \ {a} : f \notin Floors(b)
      /\ \A b : h \notin Floors(b)
      /\ \A b, x : m(x) \notin Floors(b)
      /\ \A b, u : r(u) \notin Floors(b)
  BY SingleMessages
<1>2. \A y : (\A b : y \notin Floors(b)) => \A b : y \notin Switches(b)
  BY DEF Switches, Opens, Closes, Floors, Msg
<1>3. ASSUME NEW g PROVE Grants(Both(g, "FloorGranted", a, i), a, i)
  <2>1. Both(g, "FloorGranted", a, i) = <<f>> \/ Both(g, "FloorGranted", a, i) = <<f, h>>
    BY DEF Both
  <2> HIDE DEF f, h
  <2>2. Grants(<<f>>, a, i)
    BY <1>1, One, Zenon DEF Grants, Frees, About
  <2>3. Grants(<<f, h>>, a, i)
    BY <1>1, <1>2, Few, Zenon DEF Grants, Frees, About
  <2> QED
    BY <2>1, <2>2, <2>3
<1>4. ASSUME NEW g, NEW x \in Media
      PROVE  Grants(<<m(x)>> \o Both(g, "FloorGranted", a, i), a, i)
  <2> DEFINE s == <<m(x)>>
             t == Both(g, "FloorGranted", a, i)
  <2>1. m(x) \in Message /\ t \in Seq(Message)
    BY Messages
  <2>2. s \in Seq(Message)
    BY <2>1
  <2>3. \A b : Free(s, Floors(b)) /\ Free(s, Switches(b))
    <3> HIDE DEF m
    <3> QED
      BY <1>1, <1>2, One
  <2>4. Grants(t, a, i)
    BY <1>3
  <2> HIDE DEF s, t
  <2> QED
    BY <2>1, <2>2, <2>3, <2>4, OneByOne, ZenonT(60) DEF Grants, Frees, About, s, t
<1>5. ASSUME NEW x, NEW u PROVE Grants(<<m(x), f, r(u)>>, a, i)
  <2> HIDE DEF m, f, r
  <2> QED
    BY <1>1, <1>2, Few, Zenon DEF Grants, Frees, About
<1> QED
  BY <1>3, <1>4, <1>5

\* The messages about the end of a transmission, and those that only Brew gets.
LEMMA ReleaseMessages ==
    ASSUME NEW a \in Bearers
    PROVE  /\ \A g : Frees(Both(g, "FloorReleased", a, None), a)
           /\ Frees(<<ToUmac("FloorReleased", a, None)>>, a)
           /\ \A t, c, x : Silent(<<ToBrew(t, c, x)>>)
           /\ Silent(<<>>)
<1> DEFINE f == ToUmac("FloorReleased", a, None)
           h == ToBrew("FloorReleased", a, None)
<1>1. /\ f \notin Switches(a) /\ \A b \in Bearers \ {a} : f \notin Floors(b)
      /\ \A b : h \notin Floors(b)
      /\ \A b, t, c, x : ToBrew(t, c, x) \notin Floors(b)
  BY DEF ToUmac, ToBrew, Switches, Opens, Closes, Floors, Msg
<1>2. h \notin Switches(a)
  BY <1>1 DEF Switches, Opens, Closes, Floors, Msg
<1>3. ASSUME NEW g PROVE Frees(Both(g, "FloorReleased", a, None), a)
  <2>1. Both(g, "FloorReleased", a, None) = <<f>> \/ Both(g, "FloorReleased", a, None) = <<f, h>>
    BY DEF Both
  <2> HIDE DEF f, h
  <2> QED
    BY <1>1, <1>2, <2>1, One, Few, ZenonT(60) DEF Frees, About
<1>4. Frees(<<f>>, a)
  <2> HIDE DEF f
  <2> QED
    BY <1>1, One DEF Frees, About
<1>5. (\A t, c, x : Silent(<<ToBrew(t, c, x)>>)) /\ Silent(<<>>)
  BY <1>1, One, Zenon DEF Silent
<1> QED
  BY <1>3, <1>4, <1>5

\* The messages about the opening and the closing of a bearer.
LEMMA SwitchMessages ==
    ASSUME NEW a \in Bearers, NEW i \in Issis
    PROVE  /\ Opening(<<ToUmac("Open", a, i)>>, a, i)
           /\ \A g : Opening(<<ToUmac("Open", a, i)>> \o Both(g, "FloorGranted", a, i), a, i)
           /\ \A t \in Seq(Message) : Frees(t, a) => Closing(<<ToUmac("Close", a, None)>> \o t, a)
           /\ \A t \in Seq(Message) : Silent(t) => Frees(<<ToUmac("CallEnded", a, None)>> \o t, a)
<1> DEFINE o == ToUmac("Open", a, i)
           c == ToUmac("Close", a, None)
           e == ToUmac("CallEnded", a, None)
<1>1. /\ o \in Opens(a) /\ o \in FloorTo(a, i) /\ \A b \in Bearers \ {a} : o \notin Floors(b)
      /\ c \in Closes(a) /\ \A b \in Bearers \ {a} : c \notin Floors(b)
      /\ e \notin Switches(a) /\ \A b \in Bearers \ {a} : e \notin Floors(b)
  BY SingleMessages
<1>2. o \in Message /\ c \in Message /\ e \in Message
  BY Messages
<1> HIDE DEF o, c, e
<1>3. <<o>> \in Seq(Message) /\ <<c>> \in Seq(Message) /\ <<e>> \in Seq(Message)
  BY <1>2
<1>4. Opening(<<o>>, a, i)
  BY <1>1, One, Zenon DEF Opening, About
<1>5. ASSUME NEW g PROVE Opening(<<o>> \o Both(g, "FloorGranted", a, i), a, i)
  <2> DEFINE s == <<o>>
             t == Both(g, "FloorGranted", a, i)
  <2>1. Grants(t, a, i) /\ t \in Seq(Message)
    BY GrantMessages, Messages
  <2>2. s \in Seq(Message) /\ Opening(s, a, i)
    BY <1>3, <1>4
  <2> HIDE DEF s, t
  <2> QED
    BY <2>1, <2>2, OneByOne, ZenonT(60) DEF Grants, Frees, Opening, About, s, t
<1>6. ASSUME NEW t \in Seq(Message), Frees(t, a) PROVE Closing(<<c>> \o t, a)
  <2> DEFINE s == <<c>>
  <2>1. Closing(s, a)
    BY <1>1, One, Zenon DEF Closing, About
  <2>2. s \in Seq(Message)
    BY <1>3
  <2> HIDE DEF s
  <2> QED
    BY <1>6, <2>1, <2>2, OneByOne, Zenon DEF Closing, Frees, About, s
<1>7. ASSUME NEW t \in Seq(Message), Silent(t) PROVE Frees(<<e>> \o t, a)
  <2> DEFINE s == <<e>>
  <2>1. Frees(s, a)
    BY <1>1, One, Zenon DEF Frees, About
  <2>2. Free(t, Switches(a))
    BY <1>7, SwitchesAreFloors DEF Silent
  <2>3. s \in Seq(Message)
    BY <1>3
  <2> HIDE DEF s
  <2> QED
    BY <1>7, <2>1, <2>2, <2>3, OneByOne, Zenon DEF Frees, About, Silent, s
<1> QED
  BY <1>4, <1>5, <1>6, <1>7 DEF o, c, e

-----------------------------------------------------------------------------
(* The invariant that relates CMCE and the UMAC *)

\* CMCE has committed the floor to its speaker: the call goes on, somebody speaks, and
\* no activation, readiness or tail of that speaker is pending.  A pending one of
\* somebody else does not count: it is dropped without a message.
Commits(c) ==
    /\ c # None /\ c.rel = None /\ c.tx
    /\ ~(c.act # None /\ c.act.who = c.speaker)
    /\ ~(c.ready # None /\ c.ready.who = c.speaker)
    /\ c.tail # c.speaker

\* The readiness that is pending is that of the call's session.
OwnReady(c) == c # None /\ c.ready # None => c.uuid = c.ready.uuid

\* A bearer is expected to be open if it has a call, or if its last call ended without
\* a Close; Overtaken is what such a call looks like when it ends.
Expected(b) == call[b] # None \/ b \in unclosed
Overtaken(c) == c # None /\ c.circ = "gone"

\* When the messages in s are handled, the bearer b is open in the UMAC if and only if
\* it is expected to be, and the UMAC hears the speaker CMCE has committed the floor to.
Hears(b, i) == umac[b].speaker = i /\ ~umac[b].hang
Agrees(b, s) ==
    /\ b \in unclosed => call[b] = None
    /\ Expected(b) => Decided(s, Switches(b), Opens(b), umac[b].open)
    /\ ~Expected(b) => Decided(s, Switches(b), Closes(b), ~umac[b].open)
    /\ Commits(call[b]) =>
         Decided(s, Floors(b), FloorTo(b, call[b].speaker), Hears(b, call[b].speaker))
    /\ OwnReady(call[b])

FloorInv == IInv /\ UmacTypeOK /\ BrewTypeOK /\ \A b \in Bearers : Agrees(b, mq)

\* What a step of CMCE owes the UMAC about b when it sends out: a bearer that is opened
\* or closed, and a floor that is newly committed, are told; only of the bearer of a
\* call whose circuit is gone nothing is said.
Told(b, out) ==
    /\ \/ Free(out, Switches(b)) /\ (call'[b] = None <=> call[b] = None)
       \/ Free(out, Switches(b)) /\ call'[b] = None /\ Overtaken(call[b])
       \/ LastIn(out, Switches(b), Opens(b)) /\ call'[b] # None
       \/ /\ LastIn(out, Switches(b), Closes(b))
          /\ call'[b] = None /\ call[b] # None /\ ~Overtaken(call[b])
    /\ Commits(call'[b]) =>
         \/ LastIn(out, Floors(b), FloorTo(b, call'[b].speaker))
         \/ /\ Free(out, Floors(b)) /\ Commits(call[b])
            /\ call'[b].speaker = call[b].speaker
    /\ OwnReady(call'[b])
Tells(q) == \E out \in Seq(Message) : mq' = q \o out /\ \A b \in Bearers : Told(b, out)

\* A step in which the UMAC changes nothing but its timers.
StandsBy == \A b \in Bearers : /\ umac'[b].open = umac[b].open
                               /\ umac'[b].speaker = umac[b].speaker
                               /\ umac'[b].hang = umac[b].hang

\* What NoteUnclosed says of one bearer.
Noted(b) == b \in unclosed' <=> call'[b] = None /\ (b \in unclosed \/ Overtaken(call[b]))

\* A step that pays what it owes keeps CMCE and the UMAC in agreement.
LEMMA TellingAgrees ==
    ASSUME UmacTypeOK, NEW q \in Seq(Message), \A b \in Bearers : Agrees(b, q), Tells(q),
           StandsBy, \A b \in Bearers : Noted(b)
    PROVE  \A b \in Bearers : Agrees(b, mq)'
<1>1. PICK out \in Seq(Message) : mq' = q \o out /\ \A b \in Bearers : Told(b, out)
  BY SMTT(30), ZenonT(30) DEF Tells
<1> SUFFICES ASSUME NEW b \in Bearers PROVE Agrees(b, mq)'
  OBVIOUS
<1>2. /\ umac[b].open \in BOOLEAN /\ Told(b, out) /\ Agrees(b, q) /\ Noted(b)
      /\ umac'[b].open = umac[b].open
      /\ umac'[b].speaker = umac[b].speaker /\ umac'[b].hang = umac[b].hang
  BY <1>1 DEF UmacTypeOK, UmacBearer, StandsBy
<1>3. ASSUME NEW K, NEW V, NEW d \in BOOLEAN
      PROVE  /\ Decided(q, K, V, d) /\ Free(out, K) => Decided(mq', K, V, d)
             /\ LastIn(out, K, V) => Decided(mq', K, V, d)
  BY <1>1, Sending, SMTT(30), ZenonT(30)
<1>4. Expected(b)' => Decided(mq', Switches(b), Opens(b), umac[b].open)
  <2>1. CASE Free(out, Switches(b)) /\ Expected(b)
    BY <1>2, <1>3, <2>1, Zenon DEF Agrees
  <2>2. CASE LastIn(out, Switches(b), Opens(b))
    BY <1>2, <1>3, <2>2, Zenon
  <2>3. ASSUME Expected(b)'
        PROVE  (Free(out, Switches(b)) /\ Expected(b)) \/ LastIn(out, Switches(b), Opens(b))
    BY <1>2, <2>3, Zenon DEF Told, Expected, Noted, Overtaken, Agrees
  <2> QED
    BY <2>1, <2>2, <2>3, Zenon
<1>5. ~Expected(b)' => Decided(mq', Switches(b), Closes(b), ~umac[b].open)
  <2>1. CASE Free(out, Switches(b)) /\ ~Expected(b)
    BY <1>2, <1>3, <2>1, Zenon DEF Agrees
  <2>2. CASE LastIn(out, Switches(b), Closes(b))
    BY <1>2, <1>3, <2>2, ZenonT(60)
  <2>3. ASSUME ~Expected(b)'
        PROVE  (Free(out, Switches(b)) /\ ~Expected(b)) \/ LastIn(out, Switches(b), Closes(b))
    BY <1>2, <2>3, Zenon DEF Told, Expected, Noted, Overtaken
  <2> QED
    BY <2>1, <2>2, <2>3, Zenon
<1>6. ASSUME Commits(call'[b])
      PROVE  Decided(mq', Floors(b), FloorTo(b, call'[b].speaker), Hears(b, call'[b].speaker))
  <2> DEFINE i == call'[b].speaker
  <2>1. Hears(b, i) \in BOOLEAN
    BY DEF Hears
  <2>2. CASE LastIn(out, Floors(b), FloorTo(b, i))
    BY <1>3, <2>1, <2>2, SMTT(30), ZenonT(30)
  <2>3. CASE Free(out, Floors(b)) /\ Commits(call[b]) /\ i = call[b].speaker
    <3>1. Decided(q, Floors(b), FloorTo(b, i), Hears(b, i))
      BY <1>2, <2>3, ZenonT(60) DEF Agrees
    <3> QED
      BY <1>3, <2>1, <2>3, <3>1, SMTT(30), ZenonT(30)
  <2> QED
    BY <1>2, <1>6, <2>2, <2>3, ZenonT(60) DEF Told
<1>7. OwnReady(call'[b])
  BY <1>2 DEF Told
<1>8. (b \in unclosed => call[b] = None)'
  BY <1>2 DEF Noted
<1> QED
  BY <1>2, <1>4, <1>5, <1>6, <1>7, <1>8, ZenonT(60) DEF Agrees, Hears

\* A message that the UMAC does not get says nothing about its bearers.
LEMMA OthersHandle ==
    ASSUME TypeOK, UmacTypeOK, mq # <<>>, Head(mq).to # "umac", NEW b \in Bearers, Agrees(b, mq)
    PROVE  Agrees(b, Tail(mq))
<1> DEFINE m == Head(mq)
<1>1. m \notin Floors(b) /\ m \notin Switches(b) /\ m \notin Opens(b) /\ m \notin Closes(b)
      /\ \A i : m \notin FloorTo(b, i)
  BY DEF Floors, Switches, Opens, Closes, FloorTo, Msg
<1>2. umac[b].open \in BOOLEAN /\ \A i : Hears(b, i) \in BOOLEAN
  BY DEF UmacTypeOK, UmacBearer, Hears
<1>3. ASSUME NEW K, NEW V, NEW d \in BOOLEAN, m \notin K, m \notin V, Decided(mq, K, V, d)
      PROVE  Decided(Tail(mq), K, V, d)
  BY <1>3, Handling DEF TypeOK
<1> HIDE DEF m
<1> QED
  BY <1>1, <1>2, <1>3, Zenon DEF Agrees

\* What a control message does to what the invariant says of its bearer.
LEMMA AfterControlFacts ==
    ASSUME NEW s \in UmacBearer, NEW m \in Message, m.to = "umac", NEW b, m.bearer = b
    PROVE  LET t == AfterControl(s, m)
           IN  /\ m \in Opens(b) => t.open
               /\ m \in Closes(b) => ~t.open
               /\ m \notin Switches(b) => t.open = s.open
               /\ \A i : m \in FloorTo(b, i) => t.speaker = i /\ ~t.hang
               /\ m \notin Floors(b) => t.speaker = s.speaker /\ t.hang = s.hang
<1>1. m \in UmacMsg
  BY Zenon DEF Message, UmacMsg, BrewMsg, CmceMsg, Msg
<1>2. /\ m \in Opens(b) <=> m.type = "Open"
      /\ m \in Closes(b) <=> m.type = "Close"
      /\ \A i : m \in FloorTo(b, i) => m.type \in {"Open", "FloorGranted"} /\ m.arg = i
      /\ m \notin Floors(b) <=> m.type = "SetDlMediaSource"
      /\ m.type \in {"Open", "FloorGranted", "Close", "FloorReleased", "CallEnded",
                     "SetDlMediaSource"}
  BY <1>1 DEF UmacMsg, Opens, Closes, FloorTo, Floors, Msg
<1>3. CASE m.type = "Open"
  BY <1>2, <1>3, SMTT(30), ZenonT(30) DEF AfterControl, OnOpen, Switches
<1>4. CASE m.type = "Close"
  <2>1. AfterControl(s, m) = OnClose(s)
    BY <1>4 DEF AfterControl
  <2>2. ~OnClose(s).open
    BY DEF OnClose, Closed, UmacBearer
  <2> QED
    BY <1>2, <1>4, <2>1, <2>2 DEF Switches
<1>5. CASE m.type = "SetDlMediaSource"
  <2>1. AfterControl(s, m) = OnSetDlMediaSource(s, m.arg)
    BY <1>5 DEF AfterControl
  <2> QED
    BY <1>2, <1>5, <2>1 DEF OnSetDlMediaSource, UmacBearer
<1>6. CASE m.type = "FloorGranted"
  <2>1. AfterControl(s, m) = OnFloorGranted(s, m.arg)
    BY <1>6 DEF AfterControl
  <2> QED
    BY <1>2, <1>6, <2>1, Zenon DEF OnFloorGranted, UmacBearer
<1>7. CASE m.type \in {"FloorReleased", "CallEnded"}
  <2>1. AfterControl(s, m) = OnFloorReleased(s) \/ AfterControl(s, m) = OnCallEnded(s)
    BY <1>7 DEF AfterControl
  <2> QED
    BY <1>2, <1>7, <2>1, Zenon DEF OnFloorReleased, OnCallEnded, UmacBearer
<1> QED
  BY <1>2, <1>3, <1>4, <1>5, <1>6, <1>7, ZenonT(60)

\* The UMAC handles its messages in the order they were sent, and catches up.
LEMMA UmacHandles ==
    ASSUME TypeOK, UmacTypeOK, mq # <<>>, Head(mq).to = "umac",
           UmacReceives(Head(mq), Tail(mq)), UNCHANGED cmceVars,
           NEW b \in Bearers, Agrees(b, mq), b \in unclosed' <=> b \in unclosed
    PROVE  Agrees(b, mq)'
<1> DEFINE m == Head(mq)
           s == umac[b]
           t == umac'[b]
<1>1. m \in Message /\ m.bearer \in Bearers
  BY MessageFacts, SMTT(30), ZenonT(30) DEF TypeOK
<1>2. s \in UmacBearer /\ call'[b] = call[b] /\ mq' = Tail(mq)
      /\ t = IF b = m.bearer THEN AfterControl(s, m) ELSE s
  BY <1>1 DEF UmacTypeOK, UmacReceives, cmceVars
<1>3. t \in UmacBearer
  BY <1>1, <1>2, AfterControlType, SMTT(30), ZenonT(30)
<1>4. /\ m \in Opens(b) => t.open
      /\ m \in Closes(b) => ~t.open
      /\ m \notin Switches(b) => t.open = s.open
      /\ \A i : m \in FloorTo(b, i) => t.speaker = i /\ ~t.hang
      /\ m \notin Floors(b) => t.speaker = s.speaker /\ t.hang = s.hang
  <2>1. CASE b = m.bearer
    <3>1. m.to = "umac" /\ t = AfterControl(s, m)
      BY <1>2, <2>1
    <3> HIDE DEF m, s, t
    <3>2. LET r == AfterControl(s, m)
          IN  /\ m \in Opens(b) => r.open
              /\ m \in Closes(b) => ~r.open
              /\ m \notin Switches(b) => r.open = s.open
              /\ \A i : m \in FloorTo(b, i) => r.speaker = i /\ ~r.hang
              /\ m \notin Floors(b) => r.speaker = s.speaker /\ r.hang = s.hang
      BY <1>1, <1>2, <2>1, <3>1, AfterControlFacts, Zenon
    <3> QED
      BY <3>1, <3>2, SMTT(30), ZenonT(30)
  <2>2. CASE b # m.bearer
    <3>1. m \notin Opens(b) /\ m \notin Closes(b) /\ \A i : m \notin FloorTo(b, i)
      BY <2>2 DEF Opens, Closes, FloorTo, Msg
    <3> QED
      BY <1>2, <2>2, <3>1
  <2> QED
    BY <2>1, <2>2, SMTT(30), ZenonT(30)
<1>5. s.open \in BOOLEAN /\ t.open \in BOOLEAN
  BY <1>2, <1>3 DEF UmacBearer
<1>6. ASSUME NEW K, NEW V, NEW d \in BOOLEAN, NEW e \in BOOLEAN,
             Decided(mq, K, V, d), m \in V => e, m \notin K /\ d => e
      PROVE  Decided(Tail(mq), K, V, e)
  BY <1>6, Handling, SMTT(30), ZenonT(30) DEF TypeOK
<1> HIDE DEF m, s, t
<1>7. Expected(b) => Decided(Tail(mq), Switches(b), Opens(b), t.open)
  BY <1>4, <1>5, <1>6 DEF Agrees, s
<1>8. ~Expected(b) => Decided(Tail(mq), Switches(b), Closes(b), ~t.open)
  BY <1>4, <1>5, <1>6, ZenonT(60) DEF Agrees, s
<1>9. ASSUME Commits(call[b])
      PROVE  Decided(Tail(mq), Floors(b), FloorTo(b, call[b].speaker), Hears(b, call[b].speaker)')
  <2> DEFINE i == call[b].speaker
             d == s.speaker = i /\ ~s.hang
             e == t.speaker = i /\ ~t.hang
  <2>1. Decided(mq, Floors(b), FloorTo(b, i), d)
    BY <1>9 DEF Agrees, Hears, s
  <2>2. d \in BOOLEAN /\ e \in BOOLEAN
    OBVIOUS
  <2>3. (m \in FloorTo(b, i) => e) /\ (m \notin Floors(b) /\ d => e)
    BY <1>4
  <2> HIDE DEF d, e
  <2>4. Decided(Tail(mq), Floors(b), FloorTo(b, i), e)
    BY <1>6, <2>1, <2>2, <2>3
  <2>5. Hears(b, i)' = e
    BY <1>2 DEF Hears, e, t
  <2> QED
    BY <1>2, <2>4, <2>5, SMTT(30), ZenonT(30)
<1>10. Expected(b)' = Expected(b) /\ (b \in unclosed => call[b] = None)'
  BY <1>2 DEF Expected, Agrees
<1> QED
  BY <1>2, <1>7, <1>8, <1>9, <1>10, Zenon DEF Agrees, t

-----------------------------------------------------------------------------
(* The operations on a call *)

\* What an operation makes of a call without a message to the UMAC: it commits the
\* floor to nobody new.
Kept(c, d) ==
    /\ d \in Call
    /\ Commits(d) => Commits(c) /\ d.speaker = c.speaker
    /\ OwnReady(c) => OwnReady(d)

\* Two operations after each other.
LEMMA KeptThrough == ASSUME NEW c, NEW d, NEW e, Kept(c, d), Kept(d, e) PROVE Kept(c, e)
BY DEF Kept

\* The queue of floor requests has no part in it.
LEMMA QueueKept ==
    ASSUME NEW c \in Call, NEW w \in Seq(Radios)
    PROVE  Kept(c, [c EXCEPT !.queue = w])
<1> DEFINE d == [c EXCEPT !.queue = w]
<1>1. /\ d \in Call /\ d.rel = c.rel /\ d.tx = c.tx /\ d.speaker = c.speaker /\ d.act = c.act
      /\ d.ready = c.ready /\ d.tail = c.tail /\ d.uuid = c.uuid
  BY Zenon DEF Call
<1>2. c # None
  BY NoneAssumption
<1> HIDE DEF d
<1> QED
  BY <1>1, <1>2 DEF Kept, Commits, OwnReady, d

\* Requests are queued, withdrawn and dropped.
LEMMA RequestsKept ==
    ASSUME NEW c \in Call
    PROVE  /\ Kept(c, c)
           /\ Kept(c, [c EXCEPT !.queue = <<>>])
           /\ \A i : Kept(c, [c EXCEPT !.queue = Without(@, i)])
           /\ \A i \in Radios : Kept(c, Queued(c, i))
           /\ \A n \in 0..Len(c.queue) : Kept(c, Through(c, n))
<1>1. c.queue \in Seq(Radios)
  BY DEF Call
<1>2. Kept(c, c)
  BY DEF Kept
<1>3. <<>> \in Seq(Radios)
  OBVIOUS
<1>4. \A i : Without(c.queue, i) \in Seq(Radios)
  BY <1>1, WithoutFacts
<1>5. \A i \in Radios : Append(c.queue, i) \in Seq(Radios)
  BY <1>1
<1>6. ASSUME NEW n \in 0..Len(c.queue) PROVE Kept(c, Through(c, n))
  <2>1. SubSeq(c.queue, n + 1, Len(c.queue)) \in Seq(Radios)
    BY <1>1
  <2> QED
    BY <2>1, QueueKept, Zenon DEF Through
<1>7. \A i \in Radios : Kept(c, Queued(c, i))
  BY <1>2, <1>5, QueueKept, ZenonT(60) DEF Queued
<1> QED
  BY <1>2, <1>3, <1>4, <1>6, <1>7, QueueKept, Zenon

\* In hangtime and during a release nobody has the floor.
LEMMA EndKept ==
    ASSUME NEW c \in Call
    PROVE  /\ Kept(c, EnterHangtime(c)) /\ ~Commits(EnterHangtime(c))
           /\ Kept(c, Release(c)) /\ ~Commits(Release(c))
           /\ Kept(c, [EnterHangtime(c) EXCEPT !.uuid = None]) \/ c.ready # None
<1> DEFINE h == EnterHangtime(c)
           r == Release(c)
           n == [h EXCEPT !.uuid = None]
<1>1. h \in Call /\ ~h.tx /\ h.ready = c.ready /\ h.uuid = c.uuid
  BY ZenonT(60) DEF EnterHangtime, Call
<1>2. r \in Call /\ r.rel # None
  BY ReleaseSound, SMTT(30), ZenonT(30) DEF Sound
<1>3. r.ready = None
  BY <1>2, ReleaseSound DEF Sound
<1>4. c # None
  BY NoneAssumption
<1> HIDE DEF h, r
<1>5. n \in Call /\ ~n.tx /\ n.ready = c.ready
  BY <1>1, ZenonT(60) DEF Call
<1> HIDE DEF n
<1> QED
  BY <1>1, <1>2, <1>3, <1>4, <1>5, SMTT(30), ZenonT(30) DEF Kept, Commits, OwnReady, h, r, n

\* A reported grant commits nothing before the report.
LEMMA GrantKept ==
    ASSUME NEW c \in Call
    PROVE  /\ Kept(c, QueueActivation(c, c.speaker)) /\ ~Commits(QueueActivation(c, c.speaker))
           /\ \A i \in Issis : /\ Kept(c, Granted(c, i)) /\ ~Commits(Granted(c, i))
                               /\ Kept(c, [Granted(c, i) EXCEPT !.tail = None])
<1>1. ASSUME NEW f \in Call
      PROVE  LET d == QueueActivation(f, f.speaker)
             IN  /\ d \in Call /\ d.act # None /\ d.act.who = d.speaker
                 /\ d.ready = f.ready /\ d.uuid = f.uuid
  <2> DEFINE a == [who |-> f.speaker,
                   st |-> IF f.act # None /\ f.act.who = f.speaker /\ f.act.st = "sent"
                          THEN "sent" ELSE "waiting"]
             d == [f EXCEPT !.act = a]
  <2>1. a \in Activation /\ a.who = f.speaker
    BY DEF Activation, Call
  <2>2. QueueActivation(f, f.speaker) = d
    BY DEF QueueActivation
  <2>3. a # None
    BY <2>1, NoneAssumption
  <2> HIDE DEF a
  <2>4. /\ d \in Call /\ d.act = a /\ d.speaker = f.speaker
        /\ d.ready = f.ready /\ d.uuid = f.uuid
    BY <2>1, SMTT(30), ZenonT(30) DEF Call
  <2> QED
    BY <2>1, <2>2, <2>3, <2>4
<1>2. c # None
  BY NoneAssumption
<1>3. Kept(c, QueueActivation(c, c.speaker)) /\ ~Commits(QueueActivation(c, c.speaker))
  BY <1>1, <1>2 DEF Kept, Commits, OwnReady
<1>4. ASSUME NEW i \in Issis
      PROVE  /\ Kept(c, Granted(c, i)) /\ ~Commits(Granted(c, i))
             /\ Kept(c, [Granted(c, i) EXCEPT !.tail = None])
  <2> DEFINE w == Without(c.queue, i)
             f == [c EXCEPT !.queue = w, !.speaker = i, !.tx = TRUE, !.regrant = FALSE]
             d == QueueActivation(f, i)
             e == [d EXCEPT !.tail = None]
  <2>1. w \in Seq(Radios)
    BY WithoutFacts DEF Call
  <2>2. Granted(c, i) = d
    BY DEF Granted, GrantFloor
  <2> HIDE DEF w
  <2>3. f \in Call /\ f.speaker = i /\ f.ready = c.ready /\ f.uuid = c.uuid
    BY <2>1, Zenon DEF Call
  <2> HIDE DEF f
  <2>4. /\ d \in Call /\ d.act # None /\ d.act.who = d.speaker
        /\ d.ready = c.ready /\ d.uuid = c.uuid
    BY <1>1, <2>3
  <2> HIDE DEF d
  <2>5. /\ e \in Call /\ e.act = d.act /\ e.speaker = d.speaker
        /\ e.ready = d.ready /\ e.uuid = d.uuid
    BY <2>4, ZenonT(60) DEF Call
  <2> HIDE DEF e
  <2> QED
    BY <1>2, <2>2, <2>4, <2>5, SMTT(30), ZenonT(30) DEF Kept, Commits, OwnReady, e
<1> QED
  BY <1>3, <1>4

=============================================================================

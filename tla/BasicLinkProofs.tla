-------------------------- MODULE BasicLinkProofs --------------------------
(* Proofs about BasicLink for every set of TL-SDUs, every priority and every   *)
(* value of the timers and limits, from what BasicLinkSteps shows of handlers. *)
EXTENDS BasicLinkSteps, WellFoundedInduction

-----------------------------------------------------------------------------
(* The actions *)

\* A handler takes the messages of U into use, and moves the receipt of one transfer.
Advances(s, t, U) ==
    /\ Good(t) /\ OneIn(t)
    /\ \A x \in Messages \ U : s.receipt[x] = "Unused" => t.receipt[x] = "Unused"
    /\ SduReceipts(s.receipt, t.receipt) \/ \E m \in Sdus : Touches(s.receipt, t.receipt, m)

\* The steps of the link take nothing new into use.
LEMMA StepsAdvance ==
    ASSUME NEW s, NEW t, Steps(s, t) \/ UnitSteps(s, t)
    PROVE  Advances(s, t, {})
<1>1. CASE Steps(s, t)
  <2>1. t.receipt = s.receipt => SduReceipts(s.receipt, t.receipt)
    BY Zenon DEF SduReceipts
  <2> QED
    BY <1>1, <2>1 DEF Steps, NoneUsed, Advances
<1>2. CASE UnitSteps(s, t)
  BY <1>2 DEF UnitSteps, NoneUsed, Advances
<1> QED
  BY <1>1, <1>2

\* rx_tla_tldata_req_bl takes m into use.
LEMMA DataReqAdvance ==
    ASSUME NEW s, Good(s), OneIn(s), NEW m \in Sdus, s.receipt[m] = "Unused"
    PROVE  Advances(s, DataReq(s, m), {m})
<1> DEFINE t == DataReq(s, m)
<1>1. t = DataReq(s, m)
  OBVIOUS
<1> HIDE DEF t
<1>2. Good(t) /\ OneIn(t) /\ Touches(s.receipt, t.receipt, m)
  BY <1>1, DataReqGood, Zenon
<1>3. \A x \in Messages \ {m} : s.receipt[x] = "Unused" => t.receipt[x] = "Unused"
  BY <1>2 DEF Touches
<1> QED
  BY <1>1, <1>2, <1>3, Zenon DEF Advances

\* The other messages' receipts are kept when an unacknowledged message is taken.
LEMMA UnitTaken ==
    ASSUME NEW s, NEW t, Good(t), OneIn(t), NEW m \in Units, Touches(s.receipt, t.receipt, m)
    PROVE  Advances(s, t, {m})
<1>1. \A x \in Messages \ {m} : t.receipt[x] = s.receipt[x]
  BY DEF Touches
<1>2. SduReceipts(s.receipt, t.receipt)
  BY <1>1, LinkAssumption DEF SduReceipts, Messages
<1> QED
  BY <1>1, <1>2 DEF Advances

\* rx_tla_tlunitdata_req_bl, with or without a victim.
LEMMA UnitReqAdvance ==
    ASSUME NEW s, Good(s), OneIn(s), NEW m \in Units, s.receipt[m] = "Unused"
    PROVE  /\ Advances(s, Refused(s, m), {m}) /\ Advances(s, Enqueue(s, m), {m})
           /\ \A i \in 1..Len(s.units) : Advances(s, Enqueue(FailUnit(s, i), m), {m})
<1>0. m \in Messages
  BY DEF Messages
<1>1. Advances(s, Refused(s, m), {m})
  <2> DEFINE t == Refused(s, m)
  <2>1. t = Refused(s, m)
    OBVIOUS
  <2> HIDE DEF t
  <2>2. Good(t) /\ OneIn(t) /\ Touches(s.receipt, t.receipt, m)
    BY <1>0, <2>1, RefusedGood, Zenon
  <2> QED
    BY <2>1, <2>2, UnitTaken, Zenon
<1>2. Advances(s, Enqueue(s, m), {m})
  <2> DEFINE t == Enqueue(s, m)
  <2>1. t = Enqueue(s, m)
    OBVIOUS
  <2> HIDE DEF t
  <2>2. Good(t) /\ OneIn(t) /\ Touches(s.receipt, t.receipt, m)
    BY <2>1, EnqueueGood, Zenon
  <2> QED
    BY <2>1, <2>2, UnitTaken, Zenon
<1>3. ASSUME NEW i \in 1..Len(s.units)
      PROVE  Advances(s, Enqueue(FailUnit(s, i), m), {m})
  <2> DEFINE f == FailUnit(s, i)
             t == Enqueue(f, m)
  <2>1. f = FailUnit(s, i) /\ t = Enqueue(f, m)
    OBVIOUS
  <2> HIDE DEF f, t
  <2>2. /\ Good(f) /\ OneIn(f) /\ SduReceipts(s.receipt, f.receipt)
        /\ \A x \in Messages : s.receipt[x] = "Unused" => f.receipt[x] = "Unused"
    BY <2>1, FailUnitGood, Zenon
  <2>3. f.receipt[m] = "Unused"
    BY <1>0, <2>2
  <2>4. Good(t) /\ OneIn(t) /\ Touches(f.receipt, t.receipt, m)
    BY <2>1, <2>2, <2>3, EnqueueGood, Zenon
  <2>5. \A x \in Messages \ {m} : t.receipt[x] = f.receipt[x]
    BY <2>4 DEF Touches
  <2>6. SduReceipts(s.receipt, t.receipt)
    BY <2>2, <2>5, LinkAssumption DEF SduReceipts, Messages
  <2>7. Advances(s, t, {m})
    BY <2>2, <2>4, <2>5, <2>6 DEF Advances
  <2> QED
    BY <2>1, <2>7, Zenon
<1> QED
  BY <1>1, <1>2, <1>3

\* The inductive invariant: the transfers and their receipts agree, one transfer at most is
\* at the UMAC, and what is still to be sent has not been handed to the LLC.
Works == [send : SUBSET Messages, up : Nat]
IInv ==
    /\ Good(Now) /\ OneIn(Now)
    /\ work \in Works
    /\ \A m \in work.send : receipt[m] = "Unused"

\* What a step does to the receipts of the transfers.
ReceiptMoves ==
    SduReceipts(receipt, receipt') \/ \E m \in Sdus : Touches(receipt, receipt', m)

\* The fields of the present state.
LEMMA NowFields ==
    Now.out = out /\ Now.units = units /\ Now.receipt = receipt /\ Now.told = told /\ Now.ack = ack
BY DEF Now

\* What a handler made of the state is the next state: the invariant holds of it, and at most
\* one receipt of a transfer has moved.
LEMMA CommitStep ==
    ASSUME IInv, NEW U, NEW t, Commit(t), Advances(Now, t, U),
           work' \in Works, work'.send \subseteq work.send \ U
    PROVE  IInv' /\ ReceiptMoves
<1>1. Good(t) /\ OneIn(t) /\ Shape(t)
  BY DEF Advances, Good
<1>2. Now' = t
  <2>1. Now' = [out |-> t.out, vs |-> t.vs, units |-> t.units, ack |-> t.ack, rx |-> t.rx,
                mac |-> t.mac, receipt |-> t.receipt, told |-> t.told, up |-> t.up]
    BY DEF Commit, Now
  <2> QED
    BY <1>1, <2>1, Zenon DEF Shape
<1>3. Good(Now') /\ OneIn(Now')
  BY <1>1, <1>2, Zenon
<1>4. receipt' = t.receipt
  BY DEF Commit
<1>5. \A m \in work'.send : receipt'[m] = "Unused"
  BY <1>4, NowFields DEF IInv, Works, Advances
<1>6. ReceiptMoves
  BY <1>4, NowFields, ZenonT(60) DEF Advances, ReceiptMoves
<1>7. Good(Now)' /\ OneIn(Now)'
  BY <1>3 DEF Good, OneIn, Shape, OpenOut, OpenUnit, Submitted
<1> QED
  BY <1>5, <1>6, <1>7 DEF IInv

\* The same for a handler that takes nothing into use, and for one that takes m.
LEMMA CommitKeeps ==
    ASSUME IInv, NEW t, Commit(t), Advances(Now, t, {}), work' = work
    PROVE  IInv' /\ ReceiptMoves
<1>1. work' \in Works /\ work'.send \subseteq work.send \ {}
  BY DEF IInv
<1> QED
  BY <1>1, CommitStep, Zenon

\* A handler that takes m.
LEMMA CommitUses ==
    ASSUME IInv, NEW m, NEW t, Commit(t), Advances(Now, t, {m}), Use(m)
    PROVE  IInv' /\ ReceiptMoves
<1>1. work' \in Works /\ work'.send \subseteq work.send \ {m}
  BY DEF IInv, Use, Works
<1> QED
  BY <1>1, CommitStep, Zenon

\* What is inert takes nothing into use.
LEMMA InertAdvance ==
    ASSUME NEW s, NEW t, NEW u, Inert(s, t), NEW U, Advances(t, u, U)
    PROVE  Advances(s, u, U)
<1>1. t.receipt = s.receipt
  BY DEF Inert
<1> QED
  BY <1>1, Zenon DEF Advances

\* A step that changes the requests at the UMAC alone.
LEMMA MacStep ==
    ASSUME IInv, UNCHANGED <<llcVars, work>>
    PROVE  IInv' /\ ReceiptMoves
<1> DEFINE q == mac'
           t == [Now EXCEPT !.mac = q]
<1>1. Commit(t)
  BY DEF Commit, Now, llcVars
<1> HIDE DEF q
<1>2. Inert(Now, t)
  BY IgnoredInert, Zenon DEF IInv
<1> HIDE DEF t
<1>3. Advances(Now, t, {})
  BY <1>2, InertSteps, StepsAdvance, Zenon DEF IInv
<1> QED
  BY <1>1, <1>3, CommitKeeps, Zenon

\* tick_end.
LEMMA TickKeeps ==
    ASSUME IInv, Tick
    PROVE  IInv' /\ ReceiptMoves
<1>1. Steps(Now, Ticked)
  BY TickedSteps, Zenon DEF IInv, Ticked
<1>2. Advances(Now, Ticked, {})
  BY <1>1, StepsAdvance, Zenon
<1>3. Commit(Ticked) /\ work' = work
  BY DEF Tick
<1> QED
  BY <1>2, <1>3, CommitKeeps, Zenon

\* A TL-DATA request.
LEMMA TlDataReqKeeps ==
    ASSUME IInv, NEW m \in Sdus, TlDataReq(m)
    PROVE  IInv' /\ ReceiptMoves
<1>1. Use(m) /\ Commit(DataReq(Now, m))
  BY DEF TlDataReq
<1>2. Now.receipt[m] = "Unused" /\ Good(Now) /\ OneIn(Now)
  BY <1>1, NowFields DEF IInv, Use
<1>3. Advances(Now, DataReq(Now, m), {m})
  BY <1>2, DataReqAdvance, Zenon
<1> QED
  BY <1>1, <1>3, CommitUses, Zenon

\* A TL-DATA response.
LEMMA TlDataRespKeeps ==
    ASSUME IInv, NEW m \in Sdus, NEW u, TlDataResp(m, u)
    PROVE  IInv' /\ ReceiptMoves
<1> DEFINE a == [Now EXCEPT !.ack = None]
           p == PushAck(a, ack.nr)
<1>1. Use(m) /\ (Commit(p) \/ Commit(DataReq(Now, m)))
  BY DEF TlDataResp
<1>2. Now.receipt[m] = "Unused" /\ Good(Now) /\ OneIn(Now)
  BY <1>1, NowFields DEF IInv, Use
<1>3. Advances(Now, DataReq(Now, m), {m})
  BY <1>2, DataReqAdvance, Zenon
<1>4. Inert(Now, a) /\ (Good(a) => Inert(a, p))
  BY <1>2, IgnoredInert, MacOps, Zenon
<1> HIDE DEF a, p
<1>5. Advances(Now, p, {})
  BY <1>2, <1>4, InertThen, InertSteps, StepsAdvance, ZenonT(60)
<1>6. Advances(Now, p, {m})
  BY <1>5 DEF Advances
<1> QED
  BY <1>1, <1>3, <1>6, CommitUses, Zenon

\* A set of numbers has a smallest.
LEMMA Smallest ==
    ASSUME NEW T, T \subseteq Nat, T # {}
    PROVE  \E x \in T : \A y \in T : x <= y
<1> DEFINE R == OpToRel(<, Nat)
<1>1. \A a, b \in Nat : <<a, b>> \in R <=> a < b
  BY DEF OpToRel
<1>2. IsWellFoundedOn(R, Nat)
  BY NatLessThanWellFounded
<1> HIDE DEF R
<1>3. PICK x \in T : \A y \in T : ~(<<y, x>> \in R)
  BY <1>2, WFMin, Zenon
<1>4. \A y \in T : ~(y < x)
  BY <1>1, <1>3, Zenon
<1> QED
  BY <1>3, <1>4

\* ensure_udata_backlog_capacity finds a victim whenever one is less urgent.
LEMMA VictimLower ==
    ASSUME NEW s, Good(s), NEW m, Lower(s, m) # {}
    PROVE  Victim(s, m) \in Lower(s, m)
<1> DEFINE L == Lower(s, m)
           p(i) == Prio[s.units[i].sdu]
           P == {p(i) : i \in L}
<1>1. L \subseteq Nat /\ \A i \in L : p(i) \in Nat
  <2>1. \A i \in 1..Len(s.units) : s.units[i].sdu \in Messages
    BY DEF Good, Repetitions, IsRepeated, Messages
  <2>2. L \subseteq 1..Len(s.units) /\ Len(s.units) \in Nat
    BY IsSeqFacts DEF Lower, Good, Repetitions
  <2> QED
    BY <2>1, <2>2, LinkAssumption
<1> HIDE DEF L
<1>2. P \in SUBSET Nat /\ P # {}
  BY <1>1 DEF L
<1>3. PICK x \in P : \A y \in P : x <= y
  BY <1>2, Smallest
<1> DEFINE M == {i \in L : p(i) = x}
<1>4. M \in SUBSET Nat /\ M # {}
  BY <1>1, <1>3
<1>5. PICK i \in M : \A j \in M : i <= j
  BY <1>4, Smallest
<1>6. \A j \in L \ {i} : p(i) < p(j) \/ (p(i) = p(j) /\ i < j)
  BY <1>1, <1>2, <1>3, <1>5
<1>7. i \in L
  BY <1>5
<1> QED
  BY <1>6, <1>7 DEF Victim, L

\* A TL-UNITDATA request.
LEMMA TlUnitdataReqKeeps ==
    ASSUME IInv, NEW m \in Units, TlUnitdataReq(m)
    PROVE  IInv' /\ ReceiptMoves
<1> DEFINE v == Victim(Now, m)
           e == Enqueue(FailUnit(Now, v), m)
<1>1. /\ Use(m)
      /\ \/ Commit(Refused(Now, m)) \/ Commit(Enqueue(Now, m))
         \/ Lower(Now, m) # {} /\ Commit(e)
  BY Zenon DEF TlUnitdataReq
<1>2. Now.receipt[m] = "Unused" /\ Good(Now) /\ OneIn(Now)
  BY <1>1, NowFields DEF IInv, Use
<1>3. /\ Advances(Now, Refused(Now, m), {m}) /\ Advances(Now, Enqueue(Now, m), {m})
      /\ \A i \in 1..Len(Now.units) : Advances(Now, Enqueue(FailUnit(Now, i), m), {m})
  BY <1>2, UnitReqAdvance, Zenon
<1>4. Lower(Now, m) # {} => v \in 1..Len(Now.units)
  <2>1. Lower(Now, m) # {} => v \in Lower(Now, m)
    BY <1>2, VictimLower, Zenon
  <2> HIDE DEF v
  <2> QED
    BY <2>1 DEF Lower
<1> HIDE DEF v
<1>5. Lower(Now, m) # {} => Advances(Now, e, {m})
  BY <1>3, <1>4, Zenon
<1> HIDE DEF e
<1> QED
  BY <1>1, <1>3, <1>5, CommitUses, Zenon

\* A TMA-REPORT of the UMAC.
LEMMA TmaReportKeeps ==
    ASSUME IInv, NEW k, TmaReport(k)
    PROVE  IInv' /\ ReceiptMoves
<1> DEFINE r == mac[k]
           st == IF r.st = "Pending" THEN "Discarded" ELSE r.st
           q == IF r.st = "Pending" THEN FALSE ELSE r.queued
           l == Settled([mac EXCEPT ![k].kept = FALSE, ![k].st = st, ![k].queued = q])
           s == [Now EXCEPT !.mac = l]
           t == Report(s, r.sdu, st = "Transmitted")
<1>1. Commit(t) /\ work' = work
  BY DEF TmaReport, Now
<1>2. Good(Now) /\ OneIn(Now)
  BY DEF IInv
<1> HIDE DEF l
<1>3. Inert(Now, s)
  BY <1>2, IgnoredInert, Zenon
<1> HIDE DEF s, st
<1>4. Good(s) /\ OneIn(s)
  BY <1>2, <1>3, InertGood, Zenon
<1>5. Advances(s, t, {})
  BY <1>4, ReportSteps, StepsAdvance, Zenon
<1> HIDE DEF t
<1>6. Advances(Now, t, {})
  BY <1>3, <1>5, InertAdvance, Zenon
<1> QED
  BY <1>1, <1>6, CommitKeeps, Zenon

\* An acknowledgement of the terminal.
LEMMA PeerAckKeeps ==
    ASSUME IInv, PeerAck
    PROVE  IInv' /\ ReceiptMoves
<1> DEFINE n == Head(peer.acks).nr
           t == IncomingAck(Now, n)
<1>1. (Commit(Now) \/ Commit(t)) /\ work' = work
  BY DEF PeerAck
<1>2. Good(Now) /\ OneIn(Now)
  BY DEF IInv
<1> HIDE DEF n
<1>3. Steps(Now, Now) /\ Steps(Now, t)
  BY <1>2, GoodLike, InertSteps, IncomingAckSteps, Zenon
<1> HIDE DEF t
<1>4. Advances(Now, Now, {}) /\ Advances(Now, t, {})
  BY <1>3, StepsAdvance, Zenon
<1> QED
  BY <1>1, <1>4, CommitKeeps, Zenon

\* Data of the terminal.
LEMMA PeerDataKeeps ==
    ASSUME IInv, PeerData
    PROVE  IInv' /\ ReceiptMoves
<1>1. PICK n, ok : (Commit(Now) \/ Commit(Inbound(Now, peer.next, n, ok))) /\ work' = work
  BY Zenon DEF PeerData
<1>2. Good(Now) /\ OneIn(Now)
  BY DEF IInv
<1>3. Steps(Now, Now) /\ Steps(Now, Inbound(Now, peer.next, n, ok))
  BY <1>2, GoodLike, InertSteps, InboundSteps, Zenon
<1>4. Advances(Now, Now, {}) /\ Advances(Now, Inbound(Now, peer.next, n, ok), {})
  BY <1>3, StepsAdvance, Zenon
<1> QED
  BY <1>1, <1>4, CommitKeeps, Zenon

\* An idle link satisfies the invariant.
LEMMA InitHolds ==
    ASSUME Init
    PROVE  IInv
<1>1. Now = [out |-> <<>>, vs |-> 0, units |-> <<>>, ack |-> None, rx |-> None, mac |-> <<>>,
             receipt |-> [m \in Messages |-> "Unused"], told |-> [m \in Messages |-> <<>>],
             up |-> <<>>]
  BY DEF Init, Now
<1>2. Shape(Now)
  BY <1>1 DEF Shape
<1>3. Now.out = <<>> /\ Now.units = <<>>
  BY <1>1
<1>4. IsSeq(<<>>) /\ Len(<<>>) = 0
  <2>1. <<>> \in Seq({}) /\ Len(<<>>) = 0
    OBVIOUS
  <2> QED
    BY <2>1, SeqIsSeq, Zenon
<1>5. Transfers(Now.out) /\ Repetitions(Now.units)
  BY <1>3, <1>4 DEF Transfers, Repetitions
<1>6. Accounts(Now.receipt, Now.told)
  BY <1>1 DEF Accounts, States, Story
<1>7. Good(Now) /\ OneIn(Now)
  BY <1>2, <1>3, <1>4, <1>5, <1>6 DEF Good, OneIn, Submitted
<1>8. work \in Works
  BY LinkAssumption DEF Init, Works
<1>9. \A m \in work.send : receipt[m] = "Unused"
  BY <1>8 DEF Init, Works
<1> QED
  BY <1>7, <1>8, <1>9 DEF IInv

\* Every step keeps the invariant and moves the receipt of one transfer at most.
LEMMA NextKeeps ==
    ASSUME IInv, [Next]_vars
    PROVE  IInv' /\ ReceiptMoves
<1>1. CASE Tick
  BY <1>1, TickKeeps
<1>2. ASSUME NEW m \in Sdus, TlDataReq(m)
      PROVE  IInv' /\ ReceiptMoves
  BY <1>2, TlDataReqKeeps
<1>3. ASSUME NEW m \in Sdus, NEW u \in Range(up), TlDataResp(m, u)
      PROVE  IInv' /\ ReceiptMoves
  BY <1>3, TlDataRespKeeps, Zenon
<1>4. ASSUME NEW m \in Units, TlUnitdataReq(m)
      PROVE  IInv' /\ ReceiptMoves
  BY <1>4, TlUnitdataReqKeeps
<1>5. ASSUME NEW k \in 1..Len(mac), TmaReport(k)
      PROVE  IInv' /\ ReceiptMoves
  BY <1>5, TmaReportKeeps, Zenon
<1>6. ASSUME NEW k \in 1..Len(mac), MacDiscard(k)
      PROVE  IInv' /\ ReceiptMoves
  BY <1>6, MacStep DEF MacDiscard
<1>7. ASSUME NEW k \in 1..Len(mac), MacTransmit(k)
      PROVE  IInv' /\ ReceiptMoves
  BY <1>7, MacStep DEF MacTransmit
<1>8. CASE PeerAck
  BY <1>8, PeerAckKeeps
<1>9. CASE PeerData
  BY <1>9, PeerDataKeeps
<1>10. CASE PeerGivesUp
  BY <1>10, MacStep DEF PeerGivesUp
<1>11. CASE UNCHANGED vars
  <2>1. UNCHANGED <<llcVars, work>>
    BY <1>11 DEF vars, llcVars
  <2> QED
    BY <2>1, MacStep
<1> QED
  BY <1>1, <1>2, <1>3, <1>4, <1>5, <1>6, <1>7, <1>8, <1>9, <1>10, <1>11, Zenon DEF Next

\* The inductive invariant holds for every set of TL-SDUs, priorities, timers and limits: over
\* retransmissions, emergencies, cancelled and failed requests, late acknowledgements and late
\* reports, the queues of the LLC (outbound_messages, outbound_udata_messages), the service
\* reporters and the reports given to the MLE agree.
THEOREM Invariance == Spec => []IInv
<1>1. IInv /\ [Next]_vars => IInv'
  BY NextKeeps, Zenon
<1> QED
  BY <1>1, InitHolds, PTL DEF Spec

\* Stop and wait, and one story for each message: one transfer of the link at most is at the UMAC
\* (submit_free_messages_to_umac), and what the MLE is told of a message follows its reporter, so
\* that every message gets one outcome, after everything else, and mark_acknowledged never finds a
\* receipt that was not transmitted.
THEOREM LinkHolds == Spec => []LinkConsistent
<1>1. IInv => LinkConsistent
  <2>1. ASSUME IInv
        PROVE  ReportsMatch
    BY <2>1, NowFields DEF IInv, Good, Accounts, ReportsMatch
  <2> QED
    BY <2>1 DEF LinkConsistent, OneInFlight, IInv, OneIn
<1> QED
  BY <1>1, Invariance, PTL

\* The move of a transfer's receipt is a step of TxReceipt.
LEMMA MovesAreSteps ==
    ASSUME IInv, ReceiptMoves
    PROVE  [Receipts!Next]_([m \in Sdus |-> receipt[m]])
<1> DEFINE f == [m \in Sdus |-> receipt[m]]
<1>1. CASE SduReceipts(receipt, receipt')
  BY <1>1 DEF SduReceipts
<1>2. ASSUME NEW m \in Sdus, Touches(receipt, receipt', m)
      PROVE  [Receipts!Next]_f
  <2>1. \A x \in Sdus \ {m} : receipt'[x] = receipt[x]
    BY <1>2 DEF Touches, Messages
  <2>2. CASE receipt'[m] = receipt[m]
    BY <2>1, <2>2
  <2>3. CASE <<receipt[m], receipt'[m]>> \in Moves
    <3>1. f' = [f EXCEPT ![m] = receipt'[m]] /\ f[m] = receipt[m]
      BY <2>1
    <3> HIDE DEF f
    <3>2. Receipts!Next
      BY <2>3, <3>1 DEF Moves, f, Receipts!Next, Receipts!New, Receipts!MarkTransmitted,
             Receipts!MarkDiscarded, Receipts!MarkAcknowledged, Receipts!MarkLost,
             Receipts!MarkBoth, Receipts!Refuse, Receipts!Step
    <3> QED
      BY <3>2
  <2> QED
    BY <1>2, <2>2, <2>3 DEF Touches
<1> QED
  BY <1>1, <1>2 DEF ReceiptMoves

\* The safety half of the refinement: however its reports and acknowledgements arrive, the receipt
\* of an acknowledged transfer takes only the steps tx_receipt.rs allows, and a final state is kept.
THEOREM ReceiptsInOrder == Spec => Receipts!Order
<1>1. Init => Receipts!Init
  BY DEF Init, Messages, Receipts!Init
<1>2. IInv /\ [Next]_vars => [Receipts!Next]_([m \in Sdus |-> receipt[m]])
  BY NextKeeps, MovesAreSteps, Zenon
<1> QED
  BY <1>1, <1>2, Invariance, PTL DEF Spec, Receipts!Order

=============================================================================

--------------------------- MODULE BasicLinkSteps ---------------------------
(* What the handlers of BasicLink do to a state of the LLC, for every set of   *)
(* TL-SDUs, every priority and every value of the timers and limits.           *)
EXTENDS BasicLink, TLAPS

-----------------------------------------------------------------------------
(* Sequences *)

IsSeq(q) == q \in Seq({q[n] : n \in DOMAIN q})

\* A sequence, whatever its elements.
LEMMA IsSeqFacts ==
    ASSUME NEW q, IsSeq(q)
    PROVE  Len(q) \in Nat /\ DOMAIN q = 1..Len(q)
BY DEF IsSeq

\* A sequence over a set is one.
LEMMA SeqIsSeq ==
    ASSUME NEW S, NEW q \in Seq(S)
    PROVE  IsSeq(q)
<1> DEFINE T == {q[n] : n \in DOMAIN q}
<1>1. Len(q) \in Nat /\ DOMAIN q = 1..Len(q)
  OBVIOUS
<1>2. q = [n \in 1..Len(q) |-> q[n]]
  BY <1>1
<1>3. \A n \in 1..Len(q) : q[n] \in T
  BY <1>1
<1> HIDE DEF T
<1>4. q \in [1..Len(q) -> T]
  BY <1>2, <1>3
<1>5. q \in Seq(T)
  BY <1>1, <1>4
<1> QED
  BY <1>5, Zenon DEF IsSeq, T

\* The sequence that Each builds from a function on 1..n is that function.
LEMMA EachFacts ==
    ASSUME NEW n \in Nat, NEW f, f = [k \in 1..n |-> f[k]]
    PROVE  /\ IsSeq(SubSeq(f, 1, n))
           /\ Len(SubSeq(f, 1, n)) = n
           /\ \A k \in 1..n : SubSeq(f, 1, n)[k] = f[k]
<1> DEFINE T == {f[k] : k \in 1..n}
           g == SubSeq(f, 1, n)
<1>1. f \in [1..n -> T]
  OBVIOUS
<1> HIDE DEF T
<1>2. f \in Seq(T) /\ Len(f) = n
  BY <1>1
<1>3. /\ g \in Seq(T)
      /\ Len(g) = IF 1 <= n THEN n - 1 + 1 ELSE 0
      /\ \A k \in 1..(n - 1 + 1) : g[k] = f[1 + k - 1]
  <2>1. 1 \in Int /\ n \in Int /\ \A k \in 1..n : f[k] \in T
    BY <1>1
  <2> QED
    BY <1>2, <2>1
<1> HIDE DEF g
<1>4. Len(g) = n /\ n - 1 + 1 = n
  BY <1>3
<1>5. ASSUME NEW k \in 1..n PROVE g[k] = f[k]
  <2>1. 1 + k - 1 = k
    OBVIOUS
  <2> QED
    BY <1>3, <1>4, <2>1, Zenon
<1>6. IsSeq(g)
  BY <1>3, SeqIsSeq, Zenon
<1> QED
  BY <1>4, <1>5, <1>6, Zenon DEF g

\* What is left when place i is taken out.
LEMMA RemovedFacts ==
    ASSUME NEW q, IsSeq(q), NEW i \in 1..Len(q)
    PROVE  /\ IsSeq(RemoveAt(q, i))
           /\ Len(RemoveAt(q, i)) = Len(q) - 1
           /\ \A n \in 1..(Len(q) - 1) : RemoveAt(q, i)[n] = IF n < i THEN q[n] ELSE q[n + 1]
<1> DEFINE S == {q[n] : n \in DOMAIN q}
           a == SubSeq(q, 1, i - 1)
           z == SubSeq(q, i + 1, Len(q))
           w == a \o z
<1>1. q \in Seq(S) /\ Len(q) \in Nat
  BY DEF IsSeq
<1> HIDE DEF S
<1>3. /\ a \in Seq(S) /\ Len(a) = i - 1
      /\ \A n \in 1..(i - 1) : a[n] = q[n]
  BY <1>1
<1>4. /\ z \in Seq(S) /\ Len(z) = Len(q) - i
      /\ \A n \in 1..(Len(q) - i) : z[n] = q[i + n]
  <2>1. \A n \in (i + 1)..Len(q) : q[n] \in S
    BY <1>1
  <2>2. /\ z \in Seq(S)
        /\ Len(z) = IF i + 1 <= Len(q) THEN Len(q) - (i + 1) + 1 ELSE 0
        /\ \A n \in 1..(Len(q) - (i + 1) + 1) : z[n] = q[i + 1 + n - 1]
    BY <1>1, <2>1
  <2> QED
    BY <1>1, <2>2
<1> HIDE DEF a, z
<1>5. /\ w \in Seq(S) /\ Len(w) = Len(a) + Len(z)
      /\ \A n \in 1..(Len(a) + Len(z)) :
           w[n] = IF n <= Len(a) THEN a[n] ELSE z[n - Len(a)]
  <2>1. a \in Seq(S) /\ z \in Seq(S)
    BY <1>3, <1>4
  <2> QED
    BY <2>1
<1> HIDE DEF w
<1>6. Len(a) + Len(z) = Len(q) - 1
  BY <1>1, <1>3, <1>4
<1>7. \A n \in 1..(Len(q) - 1) : w[n] = IF n <= i - 1 THEN a[n] ELSE z[n - (i - 1)]
  BY <1>3, <1>5, <1>6, Zenon
<1>8. ASSUME NEW n \in 1..(Len(q) - 1)
      PROVE  w[n] = IF n < i THEN q[n] ELSE q[n + 1]
  <2>1. CASE n < i
    <3>1. n <= i - 1 /\ n \in 1..(i - 1)
      BY <2>1, <1>1
    <3> QED
      BY <2>1, <3>1, <1>3, <1>7, Zenon
  <2>2. CASE ~(n < i)
    <3>1. n - (i - 1) \in 1..(Len(q) - i) /\ ~(n <= i - 1)
      BY <2>2, <1>1
    <3>2. z[n - (i - 1)] = q[i + (n - (i - 1))]
      BY <3>1, <1>4, Zenon
    <3>3. i + (n - (i - 1)) = n + 1
      BY <1>1
    <3> QED
      BY <2>2, <3>1, <3>2, <3>3, <1>7, Zenon
  <2> QED
    BY <2>1, <2>2
<1>9. IsSeq(w)
  BY <1>5, SeqIsSeq, Zenon
<1>10. RemoveAt(q, i) = w
  BY Zenon DEF RemoveAt, w, a, z
<1> QED
  BY <1>5, <1>6, <1>8, <1>9, <1>10, Zenon

\* One more at the end.
LEMMA AppendFacts ==
    ASSUME NEW q, IsSeq(q), NEW e
    PROVE  /\ IsSeq(Append(q, e))
           /\ Len(Append(q, e)) = Len(q) + 1
           /\ \A n \in 1..Len(q) : Append(q, e)[n] = q[n]
           /\ Append(q, e)[Len(q) + 1] = e
<1> DEFINE S == {q[n] : n \in DOMAIN q} \cup {e}
           w == Append(q, e)
<1>1. q \in Seq({q[n] : n \in DOMAIN q})
  BY DEF IsSeq
<1>2. q \in Seq(S) /\ e \in S
  BY <1>1
<1> HIDE DEF S
<1>3. /\ w \in Seq(S) /\ Len(w) = Len(q) + 1
      /\ \A n \in 1..Len(q) : w[n] = q[n]
      /\ w[Len(q) + 1] = e
  BY <1>2
<1> HIDE DEF w
<1>4. IsSeq(w)
  BY <1>3, SeqIsSeq, Zenon
<1> QED
  BY <1>3, <1>4, Zenon DEF w

\* w is q with e at its end.
Appended(q, e, w) ==
    /\ IsSeq(w) /\ Len(w) = Len(q) + 1 /\ Len(q) \in Nat
    /\ \A n \in 1..Len(q) : w[n] = q[n]
    /\ w[Len(q) + 1] = e

\* Append, in one word.
LEMMA AppendIs ==
    ASSUME NEW q, IsSeq(q), NEW e
    PROVE  Appended(q, e, Append(q, e))
<1>1. Len(q) \in Nat
  BY IsSeqFacts, Zenon
<1> QED
  BY <1>1, AppendFacts DEF Appended

\* Place i taken to the front.
LEMMA FrontFacts ==
    ASSUME NEW q, IsSeq(q), NEW i \in 1..Len(q)
    PROVE  /\ IsSeq(<<q[i]>> \o RemoveAt(q, i))
           /\ Len(<<q[i]>> \o RemoveAt(q, i)) = Len(q)
           /\ \A n \in 1..Len(q) : (<<q[i]>> \o RemoveAt(q, i))[n]
                                     = IF n = 1 THEN q[i] ELSE IF n <= i THEN q[n - 1] ELSE q[n]
<1> DEFINE r == RemoveAt(q, i)
           S == {r[n] : n \in DOMAIN r} \cup {q[i]}
           h == <<q[i]>>
           w == h \o r
<1>1. /\ IsSeq(r) /\ Len(r) = Len(q) - 1 /\ Len(q) \in Nat
      /\ \A n \in 1..(Len(q) - 1) : r[n] = IF n < i THEN q[n] ELSE q[n + 1]
  BY RemovedFacts, IsSeqFacts, Zenon
<1> HIDE DEF r
<1>2. r \in Seq({r[n] : n \in DOMAIN r})
  BY <1>1 DEF IsSeq
<1>3. r \in Seq(S)
  BY <1>2
<1>4. q[i] \in S
  OBVIOUS
<1> HIDE DEF S
<1>5. h \in Seq(S)
  BY <1>4
<1>6. Len(h) = 1 /\ h[1] = q[i]
  OBVIOUS
<1> HIDE DEF h
<1>7. /\ w \in Seq(S) /\ Len(w) = Len(h) + Len(r)
      /\ \A n \in 1..(Len(h) + Len(r)) : w[n] = IF n <= Len(h) THEN h[n] ELSE r[n - Len(h)]
  BY <1>3, <1>5
<1> HIDE DEF w
<1>8. IsSeq(w)
  BY <1>7, SeqIsSeq, Zenon
<1>9. Len(w) = Len(q)
  BY <1>1, <1>6, <1>7
<1>10. ASSUME NEW n \in 1..Len(q)
       PROVE  w[n] = IF n = 1 THEN q[i] ELSE IF n <= i THEN q[n - 1] ELSE q[n]
  BY <1>1, <1>6, <1>7, <1>9
<1> QED
  BY <1>8, <1>9, <1>10, Zenon DEF w, h, r

-----------------------------------------------------------------------------
(* The state a handler works on.  The requests at the UMAC and the sequence
   numbers may have any value: what is proved does not depend on them. *)

Shape(s) == s = [out |-> s.out, vs |-> s.vs, units |-> s.units, ack |-> s.ack, rx |-> s.rx,
                 mac |-> s.mac, receipt |-> s.receipt, told |-> s.told, up |-> s.up]

IsTransfer(t) ==
    /\ t = [sdu |-> t.sdu, ns |-> t.ns, nr |-> t.nr, submitted |-> t.submitted,
            done |-> t.done, count |-> t.count, first |-> t.first, exhausted |-> t.exhausted]
    /\ t.sdu \in Sdus /\ t.submitted \in BOOLEAN /\ t.first \in BOOLEAN

IsRepeated(u) ==
    /\ u = [sdu |-> u.sdu, complete |-> u.complete, failed |-> u.failed,
            submitted |-> u.submitted, defer |-> u.defer]
    /\ u.sdu \in Units

Transfers(q) ==
    /\ IsSeq(q)
    /\ \A i \in 1..Len(q) : IsTransfer(q[i])
    /\ \A i, j \in 1..Len(q) : q[i].sdu = q[j].sdu => i = j
Repetitions(q) ==
    /\ IsSeq(q)
    /\ \A i \in 1..Len(q) : IsRepeated(q[i])
    /\ \A i, j \in 1..Len(q) : q[i].sdu = q[j].sdu => i = j

\* The reports of a message go with its receipt.
States == {"Unused", "Pending", "Transmitted", "Discarded", "Lost", "Acknowledged"}
Accounts(receipt_, told_) ==
    /\ receipt_ \in [Messages -> States]
    /\ told_ = [m \in Messages |-> told_[m]]
    /\ \A m \in Messages : told_[m] \in Story(m, receipt_[m])

\* A transfer in the LLC is open, and so is a message that is being repeated.
OpenOut(s, i) == IF s.out[i].first
                 THEN s.receipt[s.out[i].sdu] = "Transmitted" /\ s.told[s.out[i].sdu] = <<"accepted", "first">>
                 ELSE s.receipt[s.out[i].sdu] = "Pending" /\ s.told[s.out[i].sdu] = <<"accepted">>
OpenUnit(s, i) == s.receipt[s.units[i].sdu] = "Pending" /\ s.told[s.units[i].sdu] = <<>>

Good(s) ==
    /\ Shape(s)
    /\ Transfers(s.out)
    /\ Repetitions(s.units)
    /\ Accounts(s.receipt, s.told)
    /\ \A i \in 1..Len(s.out) : OpenOut(s, i)
    /\ \A i \in 1..Len(s.units) : OpenUnit(s, i)

\* At most one transfer is at the UMAC.
OneIn(s) == \A i, j \in Submitted(s) : i = j

-----------------------------------------------------------------------------
(* Inert effects: those that leave the receipts, the reports and the messages in
   work alone and submit nothing. *)

LikeOut(q, r) ==
    /\ IsSeq(r) /\ Len(r) = Len(q)
    /\ \A i \in 1..Len(q) : /\ IsTransfer(r[i])
                            /\ r[i].sdu = q[i].sdu /\ r[i].first = q[i].first
                            /\ r[i].submitted => q[i].submitted
LikeUnits(q, r) ==
    /\ IsSeq(r) /\ Len(r) = Len(q)
    /\ \A i \in 1..Len(q) : IsRepeated(r[i]) /\ r[i].sdu = q[i].sdu

Inert(s, t) ==
    /\ Shape(t)
    /\ t.receipt = s.receipt /\ t.told = s.told
    /\ LikeOut(s.out, t.out)
    /\ LikeUnits(s.units, t.units)

\* What is inert keeps the transfers, the receipts and the one transfer at the UMAC.
LEMMA InertGood ==
    ASSUME NEW s, Good(s), NEW t, Inert(s, t)
    PROVE  /\ Good(t)
           /\ OneIn(s) => OneIn(t)
<1>1. Len(s.out) \in Nat /\ Len(s.units) \in Nat /\ Len(t.out) = Len(s.out) /\ Len(t.units) = Len(s.units)
  BY IsSeqFacts DEF Good, Transfers, Repetitions, Inert, LikeOut, LikeUnits
<1>2. Transfers(t.out) /\ Repetitions(t.units)
  BY <1>1 DEF Good, Transfers, Repetitions, Inert, LikeOut, LikeUnits
<1>3. ASSUME NEW i \in 1..Len(t.out) PROVE OpenOut(t, i)
  <2>1. OpenOut(s, i) /\ t.out[i].sdu = s.out[i].sdu /\ t.out[i].first = s.out[i].first
    BY <1>1 DEF Good, Inert, LikeOut
  <2>2. t.receipt = s.receipt /\ t.told = s.told
    BY DEF Inert
  <2> QED
    BY <2>1, <2>2, Zenon DEF OpenOut
<1>4. ASSUME NEW i \in 1..Len(t.units) PROVE OpenUnit(t, i)
  <2>1. OpenUnit(s, i) /\ t.units[i].sdu = s.units[i].sdu
    BY <1>1 DEF Good, Inert, LikeUnits
  <2>2. t.receipt = s.receipt /\ t.told = s.told
    BY DEF Inert
  <2> QED
    BY <2>1, <2>2, Zenon DEF OpenUnit
<1>5. OneIn(s) => OneIn(t)
  BY <1>1 DEF Inert, LikeOut, OneIn, Submitted
<1> QED
  BY <1>2, <1>3, <1>4, <1>5 DEF Good, Inert

\* One inert change after another is inert.
LEMMA InertTrans ==
    ASSUME NEW s, NEW t, NEW u, Inert(s, t), Inert(t, u)
    PROVE  Inert(s, u)
<1>1. LikeOut(s.out, u.out)
  BY DEF Inert, LikeOut
<1>2. LikeUnits(s.units, u.units)
  BY DEF Inert, LikeUnits
<1> QED
  BY <1>1, <1>2, Zenon DEF Inert

\* Nothing happening is inert.
LEMMA GoodLike ==
    ASSUME NEW s, Good(s)
    PROVE  LikeOut(s.out, s.out) /\ LikeUnits(s.units, s.units) /\ Inert(s, s)
BY DEF Good, Transfers, Repetitions, LikeOut, LikeUnits, Inert

\* One place replaced; nothing happens at a place that is not there.
Replaced(q, i, e) == [q EXCEPT ![i] = e]

\* A place of the queue rewritten for the same TL-SDU.
LEMMA PlaceFacts ==
    ASSUME NEW q, Transfers(q), NEW i, NEW e,
           i \in 1..Len(q) => IsTransfer(e) /\ e.sdu = q[i].sdu,
           NEW r, r = Replaced(q, i, e)
    PROVE  /\ Transfers(r) /\ Len(r) = Len(q)
           /\ \A n \in 1..Len(q) : r[n] = IF n = i THEN e ELSE q[n]
<1> DEFINE S == {q[n] : n \in DOMAIN q} \cup {e}
<1>1. q \in Seq({q[n] : n \in DOMAIN q}) /\ Len(q) \in Nat /\ DOMAIN q = 1..Len(q)
  BY IsSeqFacts DEF Transfers, IsSeq
<1>2. q \in Seq(S) /\ e \in S
  BY <1>1
<1> HIDE DEF S
<1>3. r \in Seq(S) /\ Len(r) = Len(q)
  <2>1. q \in [1..Len(q) -> S]
    BY <1>1, <1>2
  <2>2. [q EXCEPT ![i] = e] \in [1..Len(q) -> S]
    BY Zenon, <1>2, <2>1
  <2>3. r \in [1..Len(q) -> S]
    BY <2>2, Zenon DEF Replaced
  <2> QED
    BY <1>1, <2>3
<1>4. IsSeq(r)
  BY <1>3, SeqIsSeq, Zenon
<1>5. \A n \in 1..Len(q) : r[n] = IF n = i THEN e ELSE q[n]
  BY <1>1 DEF Replaced
<1>6. Transfers(r)
  BY <1>3, <1>4, <1>5 DEF Transfers
<1> QED
  BY <1>3, <1>5, <1>6

\* A place rewritten that is not handed to the UMAC by that.
LEMMA PlaceLike ==
    ASSUME NEW q, Transfers(q), NEW i, NEW e,
           i \in 1..Len(q) => /\ IsTransfer(e)
                              /\ e.sdu = q[i].sdu /\ e.first = q[i].first
                              /\ e.submitted => q[i].submitted
    PROVE  LikeOut(q, [q EXCEPT ![i] = e])
<1> DEFINE r == [q EXCEPT ![i] = e]
<1>1. /\ Transfers(r) /\ Len(r) = Len(q)
      /\ \A n \in 1..Len(q) : r[n] = IF n = i THEN e ELSE q[n]
  <2>1. i \in 1..Len(q) => IsTransfer(e) /\ e.sdu = q[i].sdu
    OBVIOUS
  <2>2. r = Replaced(q, i, e)
    BY DEF Replaced
  <2> HIDE DEF r
  <2> QED
    BY <2>1, <2>2, PlaceFacts
<1> HIDE DEF r
<1>2. LikeOut(q, r)
  BY <1>1 DEF LikeOut, Transfers
<1> QED
  BY <1>2 DEF r

\* One field of the state changed: the proofs follow four of them.
Same(s, t) == Shape(t) /\ t.out = s.out /\ t.units = s.units /\ t.receipt = s.receipt /\ t.told = s.told

\* The fields the invariant does not mention.
LEMMA SetIgnored ==
    ASSUME NEW s, Shape(s), NEW x
    PROVE  /\ Same(s, [s EXCEPT !.vs = x]) /\ Same(s, [s EXCEPT !.ack = x])
           /\ Same(s, [s EXCEPT !.rx = x]) /\ Same(s, [s EXCEPT !.mac = x])
           /\ Same(s, [s EXCEPT !.up = x])
<1>1. Same(s, [s EXCEPT !.vs = x])
  BY DEF Shape, Same
<1>2. Same(s, [s EXCEPT !.ack = x])
  BY DEF Shape, Same
<1>3. Same(s, [s EXCEPT !.rx = x])
  BY DEF Shape, Same
<1>4. Same(s, [s EXCEPT !.mac = x])
  BY DEF Shape, Same
<1>5. Same(s, [s EXCEPT !.up = x])
  BY DEF Shape, Same
<1> QED
  BY <1>1, <1>2, <1>3, <1>4, <1>5

\* The state with another queue of transfers.
LEMMA SetOut ==
    ASSUME NEW s, Shape(s), NEW x
    PROVE  /\ Shape([s EXCEPT !.out = x]) /\ [s EXCEPT !.out = x].out = x
           /\ [s EXCEPT !.out = x].units = s.units /\ [s EXCEPT !.out = x].receipt = s.receipt /\ [s EXCEPT !.out = x].told = s.told
BY DEF Shape

\* The state with another queue of unacknowledged messages.
LEMMA SetUnits ==
    ASSUME NEW s, Shape(s), NEW x
    PROVE  /\ Shape([s EXCEPT !.units = x]) /\ [s EXCEPT !.units = x].units = x
           /\ [s EXCEPT !.units = x].out = s.out /\ [s EXCEPT !.units = x].receipt = s.receipt /\ [s EXCEPT !.units = x].told = s.told
BY DEF Shape

\* The state with other receipts.
LEMMA SetReceipt ==
    ASSUME NEW s, Shape(s), NEW x
    PROVE  /\ Shape([s EXCEPT !.receipt = x]) /\ [s EXCEPT !.receipt = x].receipt = x
           /\ [s EXCEPT !.receipt = x].out = s.out /\ [s EXCEPT !.receipt = x].units = s.units /\ [s EXCEPT !.receipt = x].told = s.told
BY DEF Shape

\* The state with other reports to the MLE.
LEMMA SetTold ==
    ASSUME NEW s, Shape(s), NEW x
    PROVE  /\ Shape([s EXCEPT !.told = x]) /\ [s EXCEPT !.told = x].told = x
           /\ [s EXCEPT !.told = x].out = s.out /\ [s EXCEPT !.told = x].units = s.units /\ [s EXCEPT !.told = x].receipt = s.receipt
BY DEF Shape

\* One field of a transfer changed that makes no difference.
LEMMA PlaceFields ==
    ASSUME NEW t, IsTransfer(t), NEW x
    PROVE  \A e \in {[t EXCEPT !.ns = x], [t EXCEPT !.nr = x], [t EXCEPT !.done = x],
                     [t EXCEPT !.count = x], [t EXCEPT !.exhausted = x]} :
             /\ IsTransfer(e)
             /\ e.sdu = t.sdu /\ e.first = t.first /\ e.submitted = t.submitted
<1>1. ASSUME NEW e, e = [t EXCEPT !.ns = x]
      PROVE  IsTransfer(e) /\ e.sdu = t.sdu /\ e.first = t.first /\ e.submitted = t.submitted
  BY <1>1 DEF IsTransfer
<1>2. ASSUME NEW e, e = [t EXCEPT !.nr = x]
      PROVE  IsTransfer(e) /\ e.sdu = t.sdu /\ e.first = t.first /\ e.submitted = t.submitted
  BY <1>2 DEF IsTransfer
<1>3. ASSUME NEW e, e = [t EXCEPT !.done = x]
      PROVE  IsTransfer(e) /\ e.sdu = t.sdu /\ e.first = t.first /\ e.submitted = t.submitted
  BY <1>3 DEF IsTransfer
<1>4. ASSUME NEW e, e = [t EXCEPT !.count = x]
      PROVE  IsTransfer(e) /\ e.sdu = t.sdu /\ e.first = t.first /\ e.submitted = t.submitted
  BY <1>4 DEF IsTransfer
<1>5. ASSUME NEW e, e = [t EXCEPT !.exhausted = x]
      PROVE  IsTransfer(e) /\ e.sdu = t.sdu /\ e.first = t.first /\ e.submitted = t.submitted
  BY <1>5 DEF IsTransfer
<1> QED
  BY <1>1, <1>2, <1>3, <1>4, <1>5, Zenon

\* A transfer handed to the UMAC or taken back.
LEMMA PlaceSubmitted ==
    ASSUME NEW t, IsTransfer(t), NEW b \in BOOLEAN
    PROVE  /\ IsTransfer([t EXCEPT !.submitted = b]) /\ [t EXCEPT !.submitted = b].submitted = b
           /\ [t EXCEPT !.submitted = b].sdu = t.sdu /\ [t EXCEPT !.submitted = b].first = t.first
BY DEF IsTransfer

\* A transfer whose first transmission is, or is not, complete.
LEMMA PlaceFirst ==
    ASSUME NEW t, IsTransfer(t), NEW b \in BOOLEAN
    PROVE  /\ IsTransfer([t EXCEPT !.first = b]) /\ [t EXCEPT !.first = b].first = b
           /\ [t EXCEPT !.first = b].sdu = t.sdu
           /\ [t EXCEPT !.first = b].submitted = t.submitted
BY DEF IsTransfer

\* The counters and flags of an unacknowledged message.
LEMMA UnitFields ==
    ASSUME NEW u, IsRepeated(u), NEW x
    PROVE  \A e \in {[u EXCEPT !.complete = x], [u EXCEPT !.failed = x],
                     [u EXCEPT !.submitted = x], [u EXCEPT !.defer = x]} :
             IsRepeated(e) /\ e.sdu = u.sdu
<1>1. ASSUME NEW e, e = [u EXCEPT !.complete = x]
      PROVE  IsRepeated(e) /\ e.sdu = u.sdu
  BY <1>1 DEF IsRepeated
<1>2. ASSUME NEW e, e = [u EXCEPT !.failed = x]
      PROVE  IsRepeated(e) /\ e.sdu = u.sdu
  BY <1>2 DEF IsRepeated
<1>3. ASSUME NEW e, e = [u EXCEPT !.submitted = x]
      PROVE  IsRepeated(e) /\ e.sdu = u.sdu
  BY <1>3 DEF IsRepeated
<1>4. ASSUME NEW e, e = [u EXCEPT !.defer = x]
      PROVE  IsRepeated(e) /\ e.sdu = u.sdu
  BY <1>4 DEF IsRepeated
<1> QED
  BY <1>1, <1>2, <1>3, <1>4, Zenon

\* So one place of the queue gets another number, acknowledgement or timer.
LEMMA FieldInert ==
    ASSUME NEW s, Good(s), NEW i, NEW x
    PROVE  /\ Inert(s, [s EXCEPT !.out[i].nr = x])
           /\ Inert(s, [s EXCEPT !.out[i].done = x])
           /\ Inert(s, [s EXCEPT !.out[i].count = x])
           /\ Inert(s, [s EXCEPT !.out[i].exhausted = x])
<1>1. Shape(s) /\ Transfers(s.out)
  BY DEF Good
<1>2. ASSUME NEW e, i \in 1..Len(s.out) => /\ IsTransfer(e)
                                           /\ e.sdu = s.out[i].sdu /\ e.first = s.out[i].first
                                           /\ e.submitted = s.out[i].submitted
      PROVE  Inert(s, [s EXCEPT !.out = [s.out EXCEPT ![i] = e]])
  <2>1. LikeOut(s.out, [s.out EXCEPT ![i] = e])
    BY Zenon, <1>1, <1>2, PlaceLike
  <2> QED
    BY <1>1, <2>1, SetOut, GoodLike DEF Inert
<1>3. i \in 1..Len(s.out) => IsTransfer(s.out[i])
  BY <1>1 DEF Transfers
<1>4. Inert(s, [s EXCEPT !.out[i].nr = x])
  <2> DEFINE e == [s.out[i] EXCEPT !.nr = x]
  <2>1. i \in 1..Len(s.out) => /\ IsTransfer(e)
                               /\ e.sdu = s.out[i].sdu /\ e.first = s.out[i].first
                               /\ e.submitted = s.out[i].submitted
    BY Zenon, <1>3, PlaceFields
  <2> QED
    BY <1>2, <2>1, Zenon
<1>5. Inert(s, [s EXCEPT !.out[i].done = x])
  <2> DEFINE e == [s.out[i] EXCEPT !.done = x]
  <2>1. i \in 1..Len(s.out) => /\ IsTransfer(e)
                               /\ e.sdu = s.out[i].sdu /\ e.first = s.out[i].first
                               /\ e.submitted = s.out[i].submitted
    BY Zenon, <1>3, PlaceFields
  <2> QED
    BY <1>2, <2>1, Zenon
<1>6. Inert(s, [s EXCEPT !.out[i].count = x])
  <2> DEFINE e == [s.out[i] EXCEPT !.count = x]
  <2>1. i \in 1..Len(s.out) => /\ IsTransfer(e)
                               /\ e.sdu = s.out[i].sdu /\ e.first = s.out[i].first
                               /\ e.submitted = s.out[i].submitted
    BY Zenon, <1>3, PlaceFields
  <2> QED
    BY <1>2, <2>1, Zenon
<1>7. Inert(s, [s EXCEPT !.out[i].exhausted = x])
  <2> DEFINE e == [s.out[i] EXCEPT !.exhausted = x]
  <2>1. i \in 1..Len(s.out) => /\ IsTransfer(e)
                               /\ e.sdu = s.out[i].sdu /\ e.first = s.out[i].first
                               /\ e.submitted = s.out[i].submitted
    BY Zenon, <1>3, PlaceFields
  <2> QED
    BY <1>2, <2>1, Zenon
<1> QED
  BY <1>4, <1>5, <1>6, <1>7

\* Another queue with the same transfers.
LEMMA OutInert ==
    ASSUME NEW s, Good(s), NEW q, LikeOut(s.out, q)
    PROVE  Inert(s, [s EXCEPT !.out = q])
<1> DEFINE t == [s EXCEPT !.out = q]
<1>1. Shape(t) /\ t.out = q /\ t.units = s.units /\ t.receipt = s.receipt /\ t.told = s.told
  BY Zenon, SetOut DEF Good
<1> HIDE DEF t
<1> QED
  BY <1>1, GoodLike DEF Inert, t

\* Another queue with the same unacknowledged messages.
LEMMA UnitsInert ==
    ASSUME NEW s, Good(s), NEW q, LikeUnits(s.units, q)
    PROVE  Inert(s, [s EXCEPT !.units = q])
<1> DEFINE t == [s EXCEPT !.units = q]
<1>1. Shape(t) /\ t.units = q /\ t.out = s.out /\ t.receipt = s.receipt /\ t.told = s.told
  BY SetUnits DEF Good
<1> HIDE DEF t
<1> QED
  BY <1>1, GoodLike DEF Inert, t

\* One place of the unacknowledged messages rewritten for the same message.
LEMMA UnitPlaceInert ==
    ASSUME NEW s, Good(s), NEW i \in 1..Len(s.units), NEW e, IsRepeated(e), e.sdu = s.units[i].sdu
    PROVE  Inert(s, [s EXCEPT !.units = Replaced(s.units, i, e)])
<1> DEFINE q == s.units
           r == Replaced(q, i, e)
           S == {q[n] : n \in DOMAIN q} \cup {e}
<1>1. /\ q \in Seq({q[n] : n \in DOMAIN q}) /\ Len(q) \in Nat /\ DOMAIN q = 1..Len(q)
      /\ \A n \in 1..Len(q) : IsRepeated(q[n])
  BY IsSeqFacts DEF Good, Repetitions, IsSeq
<1>2. q \in Seq(S) /\ e \in S
  BY <1>1
<1> HIDE DEF S, q
<1>3. r \in [1..Len(q) -> S]
  <2>1. q \in [1..Len(q) -> S]
    BY <1>1, <1>2
  <2> QED
    BY Zenon, <1>2, <2>1 DEF Replaced
<1>4. \A n \in 1..Len(q) : r[n] = IF n = i THEN e ELSE q[n]
  BY <1>1 DEF Replaced
<1> HIDE DEF r
<1>5. r \in Seq(S) /\ Len(r) = Len(q)
  BY <1>1, <1>3
<1>6. IsSeq(r)
  BY <1>5, SeqIsSeq, Zenon
<1>7. LikeUnits(q, r)
  BY <1>1, <1>4, <1>5, <1>6 DEF LikeUnits, q
<1> QED
  BY <1>7, UnitsInert, Zenon DEF q, r

\* So its counters and whether it is at the UMAC.
LEMMA UnitFieldInert ==
    ASSUME NEW s, Good(s), NEW i \in 1..Len(s.units), NEW x
    PROVE  /\ Inert(s, [s EXCEPT !.units[i].submitted = x])
           /\ Inert(s, [s EXCEPT !.units[i].complete = x])
           /\ Inert(s, [s EXCEPT !.units[i].failed = x])
<1>1. IsRepeated(s.units[i])
  BY DEF Good, Repetitions
<1>2. \A e : IsRepeated(e) /\ e.sdu = s.units[i].sdu =>
            Inert(s, [s EXCEPT !.units = [s.units EXCEPT ![i] = e]])
  BY UnitPlaceInert, Zenon DEF Replaced
<1> DEFINE u == s.units[i]
           M == {[u EXCEPT !.complete = x], [u EXCEPT !.failed = x],
                 [u EXCEPT !.submitted = x], [u EXCEPT !.defer = x]}
<1>3. \A e \in M : IsRepeated(e) /\ e.sdu = u.sdu
  <2>1. IsRepeated(u)
    BY <1>1
  <2> HIDE DEF u
  <2> QED
    BY <2>1, UnitFields, Zenon
<1>4. /\ [u EXCEPT !.complete = x] \in M /\ [u EXCEPT !.failed = x] \in M
      /\ [u EXCEPT !.submitted = x] \in M
  OBVIOUS
<1> HIDE DEF M
<1> QED
  BY <1>2, <1>3, <1>4, Zenon

\* Changes of ignored fields only.
LEMMA SameInert ==
    ASSUME NEW s, Good(s), NEW t, Same(s, t)
    PROVE  Inert(s, t)
BY GoodLike DEF Inert, Same

\* Changes of the requests at the UMAC, of the acknowledgement that waits and of
\* what was received.
LEMMA IgnoredInert ==
    ASSUME NEW s, Good(s), NEW x
    PROVE  /\ Inert(s, [s EXCEPT !.vs = x]) /\ Inert(s, [s EXCEPT !.ack = x])
           /\ Inert(s, [s EXCEPT !.rx = x]) /\ Inert(s, [s EXCEPT !.mac = x])
           /\ Inert(s, [s EXCEPT !.up = x])
<1>1. Shape(s)
  BY DEF Good
<1> QED
  BY <1>1, SetIgnored, SameInert, Zenon

\* Changes of the requests at the UMAC.
LEMMA MacOps ==
    ASSUME NEW s, Good(s), NEW m, NEW x
    PROVE  /\ Inert(s, Disown(s, m)) /\ Inert(s, MarkMac(s, m, x)) /\ Inert(s, PushAck(s, x))
           /\ Inert(s, Cancel(s, x)) /\ Inert(s, Late(s))
<1>1. \A q : Inert(s, [s EXCEPT !.mac = q])
  BY IgnoredInert, Zenon
<1>2. Inert(s, Disown(s, m))
  BY <1>1, Zenon DEF Disown
<1>3. Inert(s, MarkMac(s, m, x))
  BY <1>1, Zenon DEF MarkMac
<1>4. Inert(s, PushAck(s, x))
  BY <1>1, Zenon DEF PushAck
<1>5. Inert(s, Cancel(s, x))
  BY <1>1, Zenon DEF Cancel
<1>6. Inert(s, Late(s))
  BY <1>1, Zenon DEF Late
<1> QED
  BY <1>2, <1>3, <1>4, <1>5, <1>6, Zenon

\* Composition, with the invariant of what lies between.
LEMMA InertThen ==
    ASSUME NEW s, Good(s), NEW t, Inert(s, t), NEW u, Good(t) => Inert(t, u)
    PROVE  Inert(s, u) /\ Good(t) /\ Good(u)
BY InertGood, InertTrans, Zenon

\* fold_waiting_ack_into_mac_ready_bl_data: the waiting acknowledgement goes with the data.
LEMMA FoldInert ==
    ASSUME NEW s, Good(s), NEW i
    PROVE  Inert(s, Fold(s, i))
<1> DEFINE a == [s EXCEPT !.ack = None]
           n == [s EXCEPT !.out[i].nr = None]
<1>1. CASE s.ack = None
  <2>1. Fold(s, i) \in {s, n}
    BY <1>1, Zenon DEF Fold
  <2>2. Inert(s, s) /\ Inert(s, n)
    BY GoodLike, FieldInert, Zenon
  <2> HIDE DEF n
  <2> QED
    BY <2>1, <2>2, Zenon
<1>2. CASE s.ack # None /\ s.out[i].sdu \in Wide
  <2> DEFINE b == [a EXCEPT !.out[i].nr = None]
  <2>1. Fold(s, i) = PushAck(b, s.ack.nr)
    BY <1>2 DEF Fold
  <2>2. Inert(s, a) /\ (Good(a) => Inert(a, b))
    BY IgnoredInert, FieldInert, Zenon
  <2>3. Inert(s, b) /\ Good(b)
    BY <2>2, InertThen, Zenon
  <2> HIDE DEF b
  <2> QED
    BY <2>1, <2>3, MacOps, InertTrans, Zenon
<1>3. CASE s.ack # None /\ s.out[i].sdu \notin Wide
  <2> DEFINE b == [s EXCEPT !.out[i].nr = s.ack.nr]
             c == [b EXCEPT !.ack = None]
  <2>1. Fold(s, i) = c
    BY <1>3 DEF Fold
  <2>2. Inert(s, b) /\ (Good(b) => Inert(b, c))
    BY IgnoredInert, FieldInert, Zenon
  <2> HIDE DEF b, c
  <2> QED
    BY <2>1, <2>2, InertThen, Zenon
<1> QED
  BY <1>1, <1>2, <1>3, Zenon

\* submit_ack_replies_to_umac: an acknowledgement on its own.
LEMMA SubmitAckInert ==
    ASSUME NEW s, Good(s)
    PROVE  Inert(s, SubmitAck(s))
<1> DEFINE a == [s EXCEPT !.ack = None]
<1>1. Inert(s, a) /\ (Good(a) => Inert(a, PushAck(a, s.ack.nr)))
  BY IgnoredInert, MacOps, Zenon
<1>2. SubmitAck(s) \in {s, PushAck(a, s.ack.nr)}
  BY Zenon DEF SubmitAck
<1> QED
  BY <1>1, <1>2, InertThen, GoodLike, Zenon

\* normalize_unsubmitted_ns_for_key: whatever numbers it gives out.
LEMMA NormalizeInert ==
    ASSUME NEW s, Good(s)
    PROVE  Inert(s, Normalize(s))
<1> DEFINE W == Waiting(s)
           Rank(i) == Cardinality({j \in W : Before(s, j, i)})
           Nth(n) == CHOOSE i \in W : Cardinality({j \in W : j < i}) = n
           Num(i) == s.out[Nth(Rank(i))].ns
           f == [i \in 1..Len(s.out) |-> IF i \in W THEN [s.out[i] EXCEPT !.ns = Num(i)] ELSE s.out[i]]
           q == SubSeq(f, 1, Len(s.out))
<1>1. Normalize(s) = [s EXCEPT !.out = q]
  BY Zenon DEF Normalize, Each
<1> HIDE DEF Num, W
<1>2. Len(s.out) \in Nat /\ Shape(s) /\ \A i \in 1..Len(s.out) : IsTransfer(s.out[i])
  BY IsSeqFacts DEF Good, Transfers
<1>3. \A i \in 1..Len(s.out) : /\ IsTransfer(f[i])
                               /\ f[i].sdu = s.out[i].sdu /\ f[i].first = s.out[i].first
                               /\ f[i].submitted = s.out[i].submitted
  <2> TAKE i \in 1..Len(s.out)
  <2>1. f[i] \in {[s.out[i] EXCEPT !.ns = Num(i)], s.out[i]}
    BY Zenon
  <2> QED
    BY <1>2, <2>1, PlaceFields, ZenonT(60)
<1>4. f = [i \in 1..Len(s.out) |-> f[i]]
  BY Zenon
<1> HIDE DEF f
<1>5. IsSeq(q) /\ Len(q) = Len(s.out) /\ \A i \in 1..Len(s.out) : q[i] = f[i]
  BY <1>2, <1>4, EachFacts, Zenon
<1> HIDE DEF q
<1>6. LikeOut(s.out, q)
  BY <1>3, <1>5, Zenon DEF LikeOut
<1>7. Inert(s, [s EXCEPT !.out = q])
  BY <1>6, OutInert, Zenon
<1> QED
  BY <1>1, <1>7, Zenon

\* An emergency takes a transfer, and repetitions, back from the UMAC.
LEMMA TakenBackInert ==
    ASSUME NEW s, Good(s), NEW i
    PROVE  Inert(s, [s EXCEPT !.out[i].submitted = FALSE])
<1> DEFINE e == [s.out[i] EXCEPT !.submitted = FALSE]
<1>1. Transfers(s.out)
  BY DEF Good
<1>2. i \in 1..Len(s.out) => IsTransfer(s.out[i])
  BY <1>1 DEF Transfers
<1>3. i \in 1..Len(s.out) => IsTransfer(e) /\ e.sdu = s.out[i].sdu /\ e.first = s.out[i].first /\ ~e.submitted
  BY Zenon, <1>2, PlaceSubmitted
<1> HIDE DEF e
<1>4. LikeOut(s.out, [s.out EXCEPT ![i] = e])
  BY Zenon, <1>1, <1>3, PlaceLike
<1> QED
  BY <1>4, OutInert, Zenon DEF e

\* An emergency: the transfers at the UMAC are taken back.
LEMMA CancelTransfersInert ==
    ASSUME NEW s, Good(s)
    PROVE  Inert(s, CancelTransfers(s))
<1> DEFINE i == CHOOSE i \in Displaced(s) : TRUE
           t == [s EXCEPT !.out[i].submitted = FALSE]
           c == Cancel(t, {s.out[i].sdu})
<1>1. CancelTransfers(s) \in {s, c}
  BY Zenon DEF CancelTransfers
<1> HIDE DEF i
<1>2. Inert(s, t) /\ (Good(t) => Inert(t, c))
  BY TakenBackInert, MacOps, Zenon
<1> HIDE DEF t, c
<1>3. Inert(s, c) /\ Inert(s, s)
  BY <1>2, InertThen, GoodLike, Zenon
<1> QED
  BY <1>1, <1>3, Zenon

\* The same for unacknowledged messages.
LEMMA CancelUnitsInert ==
    ASSUME NEW s, Good(s), NEW V
    PROVE  Inert(s, CancelUnits(s, V))
<1> DEFINE f == [i \in 1..Len(s.units) |->
                   IF i \in V THEN [s.units[i] EXCEPT !.submitted = FALSE, !.defer = TRUE] ELSE s.units[i]]
           q == SubSeq(f, 1, Len(s.units))
           t == [s EXCEPT !.units = q]
           M == {s.units[i].sdu : i \in V}
<1>1. CancelUnits(s, V) = Cancel(t, M)
  BY Zenon DEF CancelUnits, Each
<1>2. Len(s.units) \in Nat /\ \A i \in 1..Len(s.units) : IsRepeated(s.units[i])
  BY IsSeqFacts DEF Good, Repetitions
<1>3. ASSUME NEW i \in 1..Len(s.units)
      PROVE  IsRepeated(f[i]) /\ f[i].sdu = s.units[i].sdu
  <2> DEFINE u == s.units[i]
             d == [u EXCEPT !.submitted = FALSE]
             e == [d EXCEPT !.defer = TRUE]
  <2>1. f[i] \in {e, u}
    BY Zenon
  <2>2. IsRepeated(d) /\ d.sdu = u.sdu /\ IsRepeated(u)
    BY Zenon, <1>2, UnitFields
  <2> HIDE DEF d
  <2>3. IsRepeated(e) /\ e.sdu = d.sdu
    BY Zenon, <2>2, UnitFields
  <2> HIDE DEF e, f
  <2> QED
    BY <2>1, <2>2, <2>3, Zenon
<1>4. f = [i \in 1..Len(s.units) |-> f[i]]
  BY Zenon
<1> HIDE DEF f
<1>5. IsSeq(q) /\ Len(q) = Len(s.units) /\ \A i \in 1..Len(s.units) : q[i] = f[i]
  BY <1>2, <1>4, EachFacts, Zenon
<1> HIDE DEF q
<1>6. LikeUnits(s.units, q)
  BY <1>3, <1>5, Zenon DEF LikeUnits
<1>7. Inert(s, t)
  BY <1>6, UnitsInert, Zenon
<1> HIDE DEF t, M
<1> QED
  BY <1>1, <1>7, MacOps, InertThen, Zenon

\* Unacknowledged messages handed to the UMAC.
LEMMA SubmitUnitsInert ==
    ASSUME NEW s, Good(s)
    PROVE  Inert(s, SubmitUnits(s))
<1> DEFINE Free == {i \in 1..Len(s.units) : ~s.units[i].submitted /\ ~s.units[i].defer}
           f == [i \in 1..Len(s.units) |->
                   [s.units[i] EXCEPT !.submitted = @ \/ i \in Free, !.defer = FALSE]]
           q == SubSeq(f, 1, Len(s.units))
           t == [s EXCEPT !.units = q]
<1>1. \E x : SubmitUnits(s) = [t EXCEPT !.mac = x]
  BY Zenon DEF SubmitUnits, Each
<1>2. Len(s.units) \in Nat /\ \A i \in 1..Len(s.units) : IsRepeated(s.units[i])
  BY IsSeqFacts DEF Good, Repetitions
<1> HIDE DEF Free
<1>3. ASSUME NEW i \in 1..Len(s.units)
      PROVE  IsRepeated(f[i]) /\ f[i].sdu = s.units[i].sdu
  <2> DEFINE u == s.units[i]
             d == [u EXCEPT !.submitted = @ \/ i \in Free]
             e == [d EXCEPT !.defer = FALSE]
  <2>1. f[i] = e
    BY Zenon
  <2>2. IsRepeated(d) /\ d.sdu = u.sdu
    BY Zenon, <1>2, UnitFields
  <2> HIDE DEF d
  <2>3. IsRepeated(e) /\ e.sdu = d.sdu
    BY Zenon, <2>2, UnitFields
  <2> HIDE DEF e, f
  <2> QED
    BY <2>1, <2>2, <2>3, Zenon
<1>4. f = [i \in 1..Len(s.units) |-> f[i]]
  BY Zenon
<1> HIDE DEF f
<1>5. IsSeq(q) /\ Len(q) = Len(s.units) /\ \A i \in 1..Len(s.units) : q[i] = f[i]
  BY <1>2, <1>4, EachFacts, Zenon
<1> HIDE DEF q
<1>6. LikeUnits(s.units, q)
  BY <1>3, <1>5, Zenon DEF LikeUnits
<1>7. Inert(s, t)
  BY <1>6, UnitsInert, Zenon
<1> HIDE DEF t
<1>8. \A x : Good(t) => Inert(t, [t EXCEPT !.mac = x])
  BY IgnoredInert, Zenon
<1>9. Good(t) => Inert(t, SubmitUnits(s))
  BY <1>1, <1>8, Zenon
<1> QED
  BY <1>7, <1>9, InertThen, Zenon

\* The timers of a frame.
LEMMA AgedInert ==
    ASSUME NEW s, Good(s)
    PROVE  Inert(s, Aged(s))
<1> DEFINE f == [i \in 1..Len(s.out) |->
                   [s.out[i] EXCEPT !.done = Older(@, T251), !.exhausted = Older(@, Grace)]]
           q == SubSeq(f, 1, Len(s.out))
           t == [s EXCEPT !.out = q]
<1>1. \E x : Aged(s) = [t EXCEPT !.rx = x]
  BY Zenon DEF Aged, Each
<1>2. Len(s.out) \in Nat /\ \A i \in 1..Len(s.out) : IsTransfer(s.out[i])
  BY IsSeqFacts DEF Good, Transfers
<1>3. ASSUME NEW i \in 1..Len(s.out)
      PROVE  /\ IsTransfer(f[i])
             /\ f[i].sdu = s.out[i].sdu /\ f[i].first = s.out[i].first
             /\ f[i].submitted = s.out[i].submitted
  <2> DEFINE u == s.out[i]
             d == [u EXCEPT !.done = Older(@, T251)]
             e == [d EXCEPT !.exhausted = Older(@, Grace)]
  <2>1. f[i] = e
    BY Zenon
  <2>2. IsTransfer(d) /\ d.sdu = u.sdu /\ d.first = u.first /\ d.submitted = u.submitted
    BY Zenon, <1>2, PlaceFields
  <2> HIDE DEF d
  <2>3. IsTransfer(e) /\ e.sdu = d.sdu /\ e.first = d.first /\ e.submitted = d.submitted
    BY Zenon, <2>2, PlaceFields
  <2> HIDE DEF e, f
  <2> QED
    BY <2>1, <2>2, <2>3, Zenon
<1>4. f = [i \in 1..Len(s.out) |-> f[i]]
  BY Zenon
<1> HIDE DEF f
<1>5. IsSeq(q) /\ Len(q) = Len(s.out) /\ \A i \in 1..Len(s.out) : q[i] = f[i]
  BY <1>2, <1>4, EachFacts, Zenon
<1> HIDE DEF q
<1>6. LikeOut(s.out, q)
  BY <1>3, <1>5, Zenon DEF LikeOut
<1>7. Inert(s, t)
  BY <1>6, OutInert, Zenon
<1> HIDE DEF t
<1>8. \A x : Good(t) => Inert(t, [t EXCEPT !.rx = x])
  BY IgnoredInert, Zenon
<1>9. Good(t) => Inert(t, Aged(s))
  BY <1>1, <1>8, Zenon
<1> QED
  BY <1>7, <1>9, InertThen, Zenon

-----------------------------------------------------------------------------
(* Submission *)

\* On a link with no other transfer at the UMAC: one is there afterwards, at most.
LEMMA SubmitGood ==
    ASSUME NEW s, Good(s), NEW i, Submitted(s) \subseteq {i}
    PROVE  /\ Good(Submit(s, i)) /\ OneIn(Submit(s, i))
           /\ Submit(s, i).receipt = s.receipt
<1> DEFINE d == Disown(s, s.out[i].sdu)
           e == [d.out[i] EXCEPT !.submitted = TRUE]
           a == [d EXCEPT !.out[i].submitted = TRUE]
           b == [a EXCEPT !.out[i].done = None]
           x == Append(b.mac, Tracked(s.out[i].sdu, s.out[i].ns, s.out[i].nr))
           c == [b EXCEPT !.mac = x]
<1>1. Submit(s, i) = c
  BY DEF Submit
<1>2. Inert(s, d)
  BY MacOps, Zenon
<1> HIDE DEF d
<1>3. Good(d)
  BY <1>2, InertGood, Zenon
<1>4. Submitted(d) \subseteq {i}
  BY <1>2 DEF Inert, LikeOut, Submitted
<1>5. /\ Shape(a) /\ a.units = d.units /\ a.receipt = d.receipt /\ a.told = d.told
      /\ a.out = [d.out EXCEPT ![i] = e]
  BY <1>3, SetOut DEF Good
<1>6. i \in 1..Len(d.out) => IsTransfer(e) /\ e.sdu = d.out[i].sdu /\ e.first = d.out[i].first
  BY Zenon, <1>3, PlaceSubmitted DEF Good, Transfers
<1> HIDE DEF a, e
<1>7. /\ Transfers(a.out) /\ Len(a.out) = Len(d.out)
      /\ \A n \in 1..Len(d.out) : a.out[n] = IF n = i THEN e ELSE d.out[n]
  <2>1. Transfers(d.out) /\ (i \in 1..Len(d.out) => IsTransfer(e) /\ e.sdu = d.out[i].sdu)
    BY <1>3, <1>6 DEF Good
  <2>2. a.out = Replaced(d.out, i, e)
    BY <1>5 DEF Replaced
  <2> QED
    BY <2>1, <2>2, PlaceFacts
<1>8. ASSUME NEW n \in 1..Len(a.out) PROVE OpenOut(a, n)
  <2>1. OpenOut(d, n) /\ a.out[n].sdu = d.out[n].sdu /\ a.out[n].first = d.out[n].first
    BY <1>3, <1>6, <1>7 DEF Good
  <2> QED
    BY <1>5, <2>1, Zenon DEF OpenOut
<1>9. ASSUME NEW n \in 1..Len(a.units) PROVE OpenUnit(a, n)
  BY <1>3, <1>5, Zenon DEF Good, OpenUnit
<1>10. Good(a)
  BY <1>3, <1>5, <1>7, <1>8, <1>9, Zenon DEF Good
<1>11. OneIn(a)
  BY <1>4, <1>7 DEF OneIn, Submitted
<1>12. Inert(a, b)
  BY <1>10, FieldInert, Zenon
<1> HIDE DEF b
<1>13. Good(b) /\ Inert(b, c)
  BY <1>10, <1>12, InertGood, IgnoredInert, Zenon
<1> HIDE DEF c
<1>14. Inert(a, c)
  BY <1>12, <1>13, InertTrans, Zenon
<1>15. Good(c) /\ OneIn(c)
  BY <1>10, <1>11, <1>14, InertGood, Zenon
<1> QED
  BY <1>1, <1>2, <1>5, <1>14, <1>15, Zenon DEF Inert

\* The same with the acknowledgement folded in.
LEMMA FoldAndSubmitGood ==
    ASSUME NEW s, Good(s), NEW i, Submitted(s) \subseteq {i}
    PROVE  /\ Good(FoldAndSubmit(s, i)) /\ OneIn(FoldAndSubmit(s, i))
           /\ FoldAndSubmit(s, i).receipt = s.receipt
<1> DEFINE f == Fold(s, i)
<1>1. Inert(s, f)
  BY FoldInert
<1> HIDE DEF f
<1>2. Good(f) /\ f.receipt = s.receipt
  BY <1>1, InertGood DEF Inert
<1>3. Submitted(f) \subseteq {i}
  BY <1>1 DEF Inert, LikeOut, Submitted
<1> QED
  BY <1>2, <1>3, SubmitGood, Zenon DEF FoldAndSubmit, f

\* submit_free_messages_to_umac
LEMMA SubmitFreeGood ==
    ASSUME NEW s, Good(s), OneIn(s)
    PROVE  /\ Good(SubmitFree(s)) /\ OneIn(SubmitFree(s))
           /\ SubmitFree(s).receipt = s.receipt
<1> DEFINE a == CancelTransfers(s)
           c == CancelUnits(a, DisplacedUnits(s))
           n == Normalize(c)
           i == CHOOSE i \in Waiting(c) : \A j \in Waiting(c) \ {i} : Before(c, i, j)
<1>1. SubmitFree(s) = IF Submitted(c) # {} \/ c.out = <<>> THEN c ELSE FoldAndSubmit(n, i)
  BY Zenon DEF SubmitFree
<1>2. Inert(s, a) /\ (Good(a) => Inert(a, c))
  BY CancelTransfersInert, CancelUnitsInert, Zenon
<1> HIDE DEF a, c, i
<1>3. Inert(s, c) /\ Good(c)
  BY <1>2, InertThen, Zenon
<1>4. OneIn(c) /\ c.receipt = s.receipt
  BY <1>3, InertGood DEF Inert
<1>5. Inert(c, n)
  BY <1>3, NormalizeInert
<1> HIDE DEF n
<1>6. CASE Submitted(c) # {} \/ c.out = <<>>
  BY <1>1, <1>3, <1>4, <1>6, Zenon
<1>7. CASE ~(Submitted(c) # {} \/ c.out = <<>>)
  <2>1. Good(n) /\ n.receipt = s.receipt
    BY <1>3, <1>4, <1>5, InertGood DEF Inert
  <2>2. Submitted(n) \subseteq {i}
    BY <1>5, <1>7 DEF Inert, LikeOut, Submitted
  <2> QED
    BY <1>1, <1>7, <2>1, <2>2, FoldAndSubmitGood, Zenon
<1> QED
  BY <1>6, <1>7, Zenon

-----------------------------------------------------------------------------
(* Marks and reports *)

\* The moves of a receipt: what its owner may see from one step to the next.
Moves == {<<"Unused", "Pending">>, <<"Unused", "Discarded">>,
          <<"Pending", "Transmitted">>, <<"Pending", "Discarded">>, <<"Pending", "Lost">>,
          <<"Pending", "Acknowledged">>, <<"Transmitted", "Lost">>, <<"Transmitted", "Acknowledged">>}

\* The receipt of m moves, if any.
Touches(r, s, m) ==
    /\ \A x \in Messages \ {m} : s[x] = r[x]
    /\ s[m] = r[m] \/ <<r[m], s[m]>> \in Moves

\* Two moves of one receipt in use are one move.
LEMMA TouchTrans ==
    ASSUME NEW r, NEW s, NEW t, NEW m, Touches(r, s, m), Touches(s, t, m), r[m] # "Unused"
    PROVE  Touches(r, t, m)
BY DEF Touches, Moves

\* Reports written out.
LEMMA AppendTwo ==
    ASSUME NEW a, NEW b
    PROVE  Append(<<a>>, b) = <<a, b>>
<1> DEFINE S == {a, b}
<1>1. <<a>> \in Seq(S)
  OBVIOUS
<1>2. b \in S
  OBVIOUS
<1>3. <<a, b>> \in Seq(S) /\ Len(<<a, b>>) = 2
  OBVIOUS
<1> DEFINE q == <<a>>
           w == Append(q, b)
<1>4. Len(q) = 1 /\ q[1] = a
  OBVIOUS
<1> HIDE DEF S
<1>5. w \in Seq(S) /\ Len(w) = 2 /\ w[1] = a /\ w[2] = b
  <2> HIDE DEF q
  <2> QED
    BY <1>1, <1>2, <1>4 DEF q
<1> HIDE DEF w
<1>6. \A n \in 1..Len(w) : w[n] = <<a, b>>[n]
  BY <1>5
<1>7. w = <<a, b>>
  BY <1>3, <1>5, <1>6
<1> QED
  BY <1>7 DEF w

\* Three of them.
LEMMA AppendThree ==
    ASSUME NEW a, NEW b, NEW c
    PROVE  Append(<<a, b>>, c) = <<a, b, c>>
<1> DEFINE S == {a, b, c}
<1>1. <<a, b>> \in Seq(S)
  OBVIOUS
<1>2. c \in S
  OBVIOUS
<1>3. <<a, b, c>> \in Seq(S) /\ Len(<<a, b, c>>) = 3
  OBVIOUS
<1> DEFINE q == <<a, b>>
           w == Append(q, c)
<1>4. Len(q) = 2 /\ q[1] = a /\ q[2] = b
  OBVIOUS
<1> HIDE DEF S
<1>5. w \in Seq(S) /\ Len(w) = 3 /\ w[1] = a /\ w[2] = b /\ w[3] = c
  <2> HIDE DEF q
  <2> QED
    BY <1>1, <1>2, <1>4 DEF q
<1> HIDE DEF w
<1>6. \A n \in 1..Len(w) : w[n] = <<a, b, c>>[n]
  BY <1>5
<1>7. w = <<a, b, c>>
  BY <1>3, <1>5, <1>6
<1> QED
  BY <1>7 DEF w

\* The reports the LLC gives the MLE, written out.
LEMMA Appends ==
    /\ Append(<<>>, "failed") = <<"failed">>
    /\ Append(<<>>, "success") = <<"success">>
    /\ Append(<<>>, "accepted") = <<"accepted">>
    /\ Append(<<"accepted">>, "first") = <<"accepted", "first">>
    /\ Append(<<"accepted">>, "failed") = <<"accepted", "failed">>
    /\ Append(<<"accepted", "first">>, "failed") = <<"accepted", "first", "failed">>
    /\ Append(<<"accepted", "first">>, "success") = <<"accepted", "first", "success">>
<1>1. Append(<<>>, "failed") = <<"failed">>
  OBVIOUS
<1>2. Append(<<>>, "success") = <<"success">>
  OBVIOUS
<1>3. Append(<<>>, "accepted") = <<"accepted">>
  OBVIOUS
<1>4. Append(<<"accepted">>, "first") = <<"accepted", "first">>
  BY AppendTwo
<1>5. Append(<<"accepted">>, "failed") = <<"accepted", "failed">>
  BY AppendTwo
<1>6. Append(<<"accepted", "first">>, "failed") = <<"accepted", "first", "failed">>
  BY AppendThree
<1>7. Append(<<"accepted", "first">>, "success") = <<"accepted", "first", "success">>
  BY AppendThree
<1> QED
  BY <1>1, <1>2, <1>3, <1>4, <1>5, <1>6, <1>7, Zenon

\* A report changes what the MLE was told, and nothing else.
LEMMA TellFacts ==
    ASSUME NEW s, Shape(s), NEW m, NEW w, NEW t, t = Tell(s, m, w)
    PROVE  /\ Shape(t) /\ t.out = s.out /\ t.units = s.units /\ t.receipt = s.receipt
           /\ t.told = Replaced(s.told, m, Append(s.told[m], w))
<1> DEFINE x == Replaced(s.told, m, Append(s.told[m], w))
<1>1. t = [s EXCEPT !.told = x]
  BY DEF Tell, Replaced
<1> HIDE DEF x
<1>2. Shape(t) /\ t.out = s.out /\ t.units = s.units /\ t.receipt = s.receipt /\ t.told = x
  BY <1>1, SetTold
<1> QED
  BY <1>2 DEF x

\* mark_ack_service_failed
FailedState(st) == CASE st = "Pending" -> "Discarded" [] st = "Transmitted" -> "Lost" [] OTHER -> st

\* A failure moves the receipt and reports it.
LEMMA FailedFacts ==
    ASSUME NEW s, Shape(s), NEW m, NEW t, t = Failed(s, m)
    PROVE  /\ Shape(t) /\ t.out = s.out /\ t.units = s.units
           /\ t.receipt = Replaced(s.receipt, m, FailedState(s.receipt[m]))
           /\ t.told = Replaced(s.told, m, Append(s.told[m], "failed"))
<1> DEFINE x == Replaced(s.receipt, m, FailedState(s.receipt[m]))
           r == [s EXCEPT !.receipt = x]
<1>1. t = Tell(r, m, "failed")
  BY DEF Failed, FailedState, Replaced
<1> HIDE DEF x
<1>2. Shape(r) /\ r.out = s.out /\ r.units = s.units /\ r.receipt = x /\ r.told = s.told
  BY SetReceipt
<1> HIDE DEF r
<1>3. /\ Shape(t) /\ t.out = r.out /\ t.units = r.units /\ t.receipt = r.receipt
      /\ t.told = Replaced(r.told, m, Append(r.told[m], "failed"))
  BY <1>1, <1>2, TellFacts
<1> QED
  BY <1>2, <1>3 DEF x

\* The story of one message goes on.
LEMMA AccountStep ==
    ASSUME NEW r, NEW t, Accounts(r, t), NEW m \in Messages, NEW st \in States, NEW y \in Story(m, st)
    PROVE  Accounts(Replaced(r, m, st), Replaced(t, m, y))
<1> DEFINE a == [r EXCEPT ![m] = st]
           b == [t EXCEPT ![m] = y]
<1>1. a \in [Messages -> States] /\ b = [x \in Messages |-> b[x]]
  BY DEF Accounts
<1>2. \A x \in Messages : a[x] = IF x = m THEN st ELSE r[x]
  BY DEF Accounts
<1>3. \A x \in Messages : b[x] = IF x = m THEN y ELSE t[x]
  BY DEF Accounts
<1> HIDE DEF a, b
<1>4. \A x \in Messages : b[x] \in Story(x, a[x])
  BY <1>2, <1>3 DEF Accounts
<1> QED
  BY <1>1, <1>4 DEF Accounts, Replaced, a, b

\* What an end of a transfer or of a repetition makes of the story.
LEMMA Endings ==
    ASSUME NEW s, Good(s)
    PROVE  /\ \A i \in 1..Len(s.out) :
                /\ FailedState(s.receipt[s.out[i].sdu]) \in {"Discarded", "Lost"}
                /\ Append(s.told[s.out[i].sdu], "failed")
                     \in Story(s.out[i].sdu, FailedState(s.receipt[s.out[i].sdu]))
                /\ <<s.receipt[s.out[i].sdu], FailedState(s.receipt[s.out[i].sdu])>> \in Moves
           /\ \A i \in 1..Len(s.units) :
                /\ FailedState(s.receipt[s.units[i].sdu]) = "Discarded"
                /\ Append(s.told[s.units[i].sdu], "failed") \in Story(s.units[i].sdu, "Discarded")
                /\ Append(s.told[s.units[i].sdu], "success") \in Story(s.units[i].sdu, "Transmitted")
<1>1. ASSUME NEW i \in 1..Len(s.out)
      PROVE  /\ FailedState(s.receipt[s.out[i].sdu]) \in {"Discarded", "Lost"}
             /\ Append(s.told[s.out[i].sdu], "failed")
                  \in Story(s.out[i].sdu, FailedState(s.receipt[s.out[i].sdu]))
             /\ <<s.receipt[s.out[i].sdu], FailedState(s.receipt[s.out[i].sdu])>> \in Moves
  <2>1. OpenOut(s, i) /\ s.out[i].sdu \in Sdus
    BY Zenon DEF Good, Transfers, IsTransfer
  <2>2. CASE s.out[i].first
    <3>1. s.receipt[s.out[i].sdu] = "Transmitted" /\ s.told[s.out[i].sdu] = <<"accepted", "first">>
      BY <2>1, <2>2, Zenon DEF OpenOut
    <3> QED
      BY <2>1, <3>1, Appends DEF FailedState, Story, Moves
  <2>3. CASE ~s.out[i].first
    <3>1. s.receipt[s.out[i].sdu] = "Pending" /\ s.told[s.out[i].sdu] = <<"accepted">>
      BY <2>1, <2>3, Zenon DEF OpenOut
    <3> QED
      BY <2>1, <3>1, Appends DEF FailedState, Story, Moves
  <2> QED
    BY <2>2, <2>3
<1>2. ASSUME NEW i \in 1..Len(s.units)
      PROVE  /\ FailedState(s.receipt[s.units[i].sdu]) = "Discarded"
             /\ Append(s.told[s.units[i].sdu], "failed") \in Story(s.units[i].sdu, "Discarded")
             /\ Append(s.told[s.units[i].sdu], "success") \in Story(s.units[i].sdu, "Transmitted")
  <2>1. s.receipt[s.units[i].sdu] = "Pending" /\ s.told[s.units[i].sdu] = <<>>
    BY DEF Good, OpenUnit
  <2>2. s.units[i].sdu \in Units /\ s.units[i].sdu \notin Sdus
    BY Zenon, LinkAssumption DEF Good, Repetitions, IsRepeated
  <2> QED
    BY <2>1, <2>2, Appends DEF FailedState, Story
<1> QED
  BY <1>1, <1>2, ZenonT(60)

\* A transfer leaves the queue with the last report of its message.
LEMMA EndTransfer ==
    ASSUME NEW s, Good(s), NEW i \in 1..Len(s.out), NEW t, Shape(t),
           t.out = RemoveAt(s.out, i), t.units = s.units,
           NEW st \in States, NEW y \in Story(s.out[i].sdu, st),
           t.receipt = Replaced(s.receipt, s.out[i].sdu, st),
           t.told = Replaced(s.told, s.out[i].sdu, y)
    PROVE  Good(t) /\ (OneIn(s) => OneIn(t))
<1> DEFINE m == s.out[i].sdu
           Old(n) == IF n < i THEN n ELSE n + 1
<1>1. IsSeq(s.out) /\ Len(s.out) \in Nat
  BY IsSeqFacts DEF Good, Transfers
<1>2. /\ IsSeq(t.out) /\ Len(t.out) = Len(s.out) - 1
      /\ \A n \in 1..(Len(s.out) - 1) : t.out[n] = IF n < i THEN s.out[n] ELSE s.out[n + 1]
  <2> DEFINE q == s.out
             r == t.out
  <2>1. r = RemoveAt(q, i) /\ IsSeq(q) /\ i \in 1..Len(q)
    BY <1>1
  <2> HIDE DEF q, r
  <2>2. /\ IsSeq(RemoveAt(q, i)) /\ Len(RemoveAt(q, i)) = Len(q) - 1
        /\ \A n \in 1..(Len(q) - 1) : RemoveAt(q, i)[n] = IF n < i THEN q[n] ELSE q[n + 1]
    BY <2>1, RemovedFacts, Zenon
  <2> QED
    BY <2>1, <2>2 DEF q, r
<1>3. \A n \in 1..Len(t.out) : Old(n) \in 1..Len(s.out) /\ Old(n) # i /\ t.out[n] = s.out[Old(n)]
  BY <1>1, <1>2
<1>4. \A n, k \in 1..Len(t.out) : Old(n) = Old(k) => n = k
  BY <1>1, <1>2
<1> HIDE DEF Old
<1>5. Transfers(t.out)
  <2>1. \A n \in 1..Len(t.out) : IsTransfer(t.out[n])
    BY <1>3, Zenon DEF Good, Transfers
  <2>2. ASSUME NEW n \in 1..Len(t.out), NEW k \in 1..Len(t.out), t.out[n].sdu = t.out[k].sdu
        PROVE  n = k
    <3>1. s.out[Old(n)].sdu = s.out[Old(k)].sdu /\ Old(n) \in 1..Len(s.out) /\ Old(k) \in 1..Len(s.out)
      BY <1>3, <2>2, Zenon
    <3>2. Old(n) = Old(k)
      BY <3>1, Zenon DEF Good, Transfers
    <3> QED
      BY <1>4, <3>2, Zenon
  <2> QED
    BY <1>2, <2>1, <2>2, Zenon DEF Transfers
<1>6. m \in Messages /\ m \in Sdus
  BY Zenon DEF Good, Transfers, IsTransfer, Messages
<1>7. Accounts(t.receipt, t.told)
  BY <1>6, AccountStep DEF Good
<1>8. \A x \in Messages : x # m => t.receipt[x] = s.receipt[x] /\ t.told[x] = s.told[x]
  BY DEF Good, Accounts, Replaced
<1> HIDE DEF m
<1>9. ASSUME NEW n \in 1..Len(t.out) PROVE OpenOut(t, n)
  <2>1. OpenOut(s, Old(n)) /\ IsTransfer(s.out[Old(n)]) /\ s.out[Old(n)].sdu # m
    BY <1>3, Zenon DEF Good, Transfers, m
  <2>2. s.out[Old(n)].sdu \in Messages
    BY <2>1 DEF IsTransfer, Messages
  <2>3. t.out[n] = s.out[Old(n)]
    BY <1>3
  <2> QED
    BY <1>8, <2>1, <2>2, <2>3, ZenonT(60) DEF OpenOut
<1>10. ASSUME NEW n \in 1..Len(t.units) PROVE OpenUnit(t, n)
  <2>1. OpenUnit(s, n) /\ s.units[n].sdu \in Units
    BY Zenon DEF Good, Repetitions, IsRepeated
  <2>2. s.units[n].sdu \in Messages /\ s.units[n].sdu # m
    BY <1>6, <2>1, LinkAssumption DEF Messages
  <2> QED
    BY <1>8, <2>1, <2>2, Zenon DEF OpenUnit
<1>11. OneIn(s) => OneIn(t)
  <2>1. \A n \in Submitted(t) : n \in 1..Len(t.out) /\ Old(n) \in Submitted(s)
    BY <1>3 DEF Submitted
  <2> QED
    BY <1>4, <2>1, Zenon DEF OneIn
<1> QED
  BY <1>5, <1>7, <1>9, <1>10, <1>11, Zenon DEF Good

\* A repetition leaves its queue with the last report of its message.
LEMMA EndUnit ==
    ASSUME NEW s, Good(s), NEW i \in 1..Len(s.units), NEW t, Shape(t),
           t.units = RemoveAt(s.units, i), t.out = s.out,
           NEW st \in States, NEW y \in Story(s.units[i].sdu, st),
           t.receipt = Replaced(s.receipt, s.units[i].sdu, st),
           t.told = Replaced(s.told, s.units[i].sdu, y)
    PROVE  Good(t) /\ (OneIn(s) => OneIn(t))
<1> DEFINE m == s.units[i].sdu
           Old(n) == IF n < i THEN n ELSE n + 1
<1>1. IsSeq(s.units) /\ Len(s.units) \in Nat
  BY IsSeqFacts DEF Good, Repetitions
<1>2. /\ IsSeq(t.units) /\ Len(t.units) = Len(s.units) - 1
      /\ \A n \in 1..(Len(s.units) - 1) : t.units[n] = IF n < i THEN s.units[n] ELSE s.units[n + 1]
  <2> DEFINE q == s.units
             r == t.units
  <2>1. r = RemoveAt(q, i) /\ IsSeq(q) /\ i \in 1..Len(q)
    BY <1>1
  <2> HIDE DEF q, r
  <2>2. /\ IsSeq(RemoveAt(q, i)) /\ Len(RemoveAt(q, i)) = Len(q) - 1
        /\ \A n \in 1..(Len(q) - 1) : RemoveAt(q, i)[n] = IF n < i THEN q[n] ELSE q[n + 1]
    BY <2>1, RemovedFacts, Zenon
  <2> QED
    BY <2>1, <2>2 DEF q, r
<1>3. \A n \in 1..Len(t.units) : Old(n) \in 1..Len(s.units) /\ Old(n) # i /\ t.units[n] = s.units[Old(n)]
  BY <1>1, <1>2
<1>4. \A n, k \in 1..Len(t.units) : Old(n) = Old(k) => n = k
  BY <1>1, <1>2
<1> HIDE DEF Old
<1>5. Repetitions(t.units)
  <2>1. \A n \in 1..Len(t.units) : IsRepeated(t.units[n])
    BY <1>3, Zenon DEF Good, Repetitions
  <2>2. ASSUME NEW n \in 1..Len(t.units), NEW k \in 1..Len(t.units), t.units[n].sdu = t.units[k].sdu
        PROVE  n = k
    <3>1. s.units[Old(n)].sdu = s.units[Old(k)].sdu /\ Old(n) \in 1..Len(s.units) /\ Old(k) \in 1..Len(s.units)
      BY <1>3, <2>2, Zenon
    <3>2. Old(n) = Old(k)
      BY <3>1, Zenon DEF Good, Repetitions
    <3> QED
      BY <1>4, <3>2, Zenon
  <2> QED
    BY <1>2, <2>1, <2>2, Zenon DEF Repetitions
<1>6. m \in Messages /\ m \in Units
  BY Zenon DEF Good, Repetitions, IsRepeated, Messages
<1>7. Accounts(t.receipt, t.told)
  BY <1>6, AccountStep DEF Good
<1>8. \A x \in Messages : x # m => t.receipt[x] = s.receipt[x] /\ t.told[x] = s.told[x]
  BY DEF Good, Accounts, Replaced
<1> HIDE DEF m
<1>9. ASSUME NEW n \in 1..Len(t.units) PROVE OpenUnit(t, n)
  <2>1. OpenUnit(s, Old(n)) /\ IsRepeated(s.units[Old(n)]) /\ s.units[Old(n)].sdu # m
    BY <1>3, ZenonT(60) DEF Good, Repetitions, m
  <2>2. s.units[Old(n)].sdu \in Messages
    BY <2>1 DEF IsRepeated, Messages
  <2>3. t.units[n] = s.units[Old(n)]
    BY <1>3
  <2> QED
    BY <1>8, <2>1, <2>2, <2>3, Zenon DEF OpenUnit
<1>10. ASSUME NEW n \in 1..Len(t.out) PROVE OpenOut(t, n)
  <2>1. OpenOut(s, n) /\ s.out[n].sdu \in Sdus
    BY Zenon DEF Good, Transfers, IsTransfer
  <2>2. s.out[n].sdu \in Messages /\ s.out[n].sdu # m
    BY <1>6, <2>1, LinkAssumption DEF Messages
  <2> QED
    BY <1>8, <2>1, <2>2, ZenonT(60) DEF OpenOut
<1>11. OneIn(s) => OneIn(t)
  BY Zenon DEF OneIn, Submitted
<1> QED
  BY <1>5, <1>7, <1>9, <1>10, <1>11, ZenonT(60) DEF Good

\* A transfer taken out of the queue: reports and receipts stay.
LEMMA DropFacts ==
    ASSUME NEW s, Shape(s), NEW i, NEW d, d = Drop(s, i)
    PROVE  /\ Shape(d) /\ d.out = RemoveAt(s.out, i) /\ d.units = s.units
           /\ d.receipt = s.receipt /\ d.told = s.told
<1> DEFINE e == Disown(s, s.out[i].sdu)
<1>1. Same(s, e)
  BY SetIgnored, Zenon DEF Disown
<1> HIDE DEF e
<1>2. d = [e EXCEPT !.out = RemoveAt(e.out, i)]
  BY Zenon DEF Drop, e
<1> DEFINE x == RemoveAt(e.out, i)
<1>3. x = RemoveAt(s.out, i)
  BY <1>1 DEF Same
<1> HIDE DEF x
<1>4. Shape(d) /\ d.out = x /\ d.units = e.units /\ d.receipt = e.receipt /\ d.told = e.told
  BY <1>1, <1>2, SetOut DEF Same, x
<1> QED
  BY <1>1, <1>3, <1>4 DEF Same

\* Where one receipt moves.
LEMMA TouchOne ==
    ASSUME NEW s, Good(s), NEW m \in Messages, NEW st,
           st = s.receipt[m] \/ <<s.receipt[m], st>> \in Moves,
           NEW r, r = Replaced(s.receipt, m, st)
    PROVE  Touches(s.receipt, r, m)
<1>1. s.receipt \in [Messages -> States]
  BY DEF Good, Accounts
<1> QED
  BY <1>1 DEF Touches, Replaced

\* A transfer fails.
LEMMA FailAtGood ==
    ASSUME NEW s, Good(s), NEW i \in 1..Len(s.out)
    PROVE  /\ Good(FailAt(s, i)) /\ (OneIn(s) => OneIn(FailAt(s, i)))
           /\ Touches(s.receipt, FailAt(s, i).receipt, s.out[i].sdu)
<1> DEFINE m == s.out[i].sdu
           d == Drop(s, i)
           t == FailAt(s, i)
           st == FailedState(s.receipt[m])
           y == Append(s.told[m], "failed")
<1>1. /\ Shape(d) /\ d.out = RemoveAt(s.out, i) /\ d.units = s.units
      /\ d.receipt = s.receipt /\ d.told = s.told
  BY DropFacts DEF Good
<1>2. t = Failed(d, m)
  BY SMTT(30), ZenonT(30) DEF FailAt
<1> HIDE DEF d, t
<1>3. /\ Shape(t) /\ t.out = d.out /\ t.units = d.units
      /\ t.receipt = Replaced(d.receipt, m, FailedState(d.receipt[m]))
      /\ t.told = Replaced(d.told, m, Append(d.told[m], "failed"))
  BY <1>1, <1>2, FailedFacts, SMTT(30), ZenonT(30)
<1>4. st \in States /\ y \in Story(m, st) /\ <<s.receipt[m], st>> \in Moves
  BY Endings DEF States
<1>5. m \in Messages
  BY ZenonT(60) DEF Good, Transfers, IsTransfer, Messages
<1>6. /\ t.receipt = Replaced(s.receipt, m, st) /\ t.told = Replaced(s.told, m, y)
      /\ t.out = RemoveAt(s.out, i) /\ t.units = s.units
  BY <1>1, <1>3
<1> HIDE DEF st, y
<1>7. Good(t) /\ (OneIn(s) => OneIn(t))
  BY ZenonT(60), <1>3, <1>4, <1>6, EndTransfer
<1>8. Touches(s.receipt, t.receipt, m)
  BY <1>4, <1>5, <1>6, TouchOne, SMTT(30), ZenonT(30)
<1> QED
  BY <1>7, <1>8, SMTT(30), ZenonT(30) DEF t

\* The terminal's acknowledgement ends a transfer that has been sent.
LEMMA SuccessGood ==
    ASSUME NEW s, Good(s), NEW i \in 1..Len(s.out), s.out[i].first, NEW t,
           t = Tell(Acknowledged(Drop(s, i), s.out[i].sdu), s.out[i].sdu, "success")
    PROVE  /\ Good(t) /\ (OneIn(s) => OneIn(t))
           /\ Touches(s.receipt, t.receipt, s.out[i].sdu)
<1> DEFINE m == s.out[i].sdu
           d == Drop(s, i)
           a == Acknowledged(d, m)
           y == <<"accepted", "first", "success">>
<1>1. m \in Sdus /\ m \in Messages /\ s.receipt[m] = "Transmitted" /\ s.told[m] = <<"accepted", "first">>
  BY ZenonT(60) DEF Good, OpenOut, Transfers, IsTransfer, Messages
<1>2. /\ Shape(d) /\ d.out = RemoveAt(s.out, i) /\ d.units = s.units
      /\ d.receipt = s.receipt /\ d.told = s.told
  BY DropFacts, SMTT(30), ZenonT(30) DEF Good
<1> HIDE DEF d
<1>3. a = [d EXCEPT !.receipt = Replaced(d.receipt, m, "Acknowledged")]
  BY <1>1, <1>2 DEF Acknowledged, Replaced
<1> DEFINE x == Replaced(d.receipt, m, "Acknowledged")
<1>4. Shape(a) /\ a.receipt = x /\ a.out = d.out /\ a.units = d.units /\ a.told = d.told
  <2> HIDE DEF x
  <2> QED
    BY <1>2, <1>3, SetReceipt DEF x
<1> HIDE DEF a
<1>5. t = Tell(a, m, "success")
  BY SMTT(30), ZenonT(30) DEF a, d
<1>6. /\ Shape(t) /\ t.out = a.out /\ t.units = a.units /\ t.receipt = a.receipt
      /\ t.told = Replaced(a.told, m, Append(a.told[m], "success"))
  BY <1>4, <1>5, TellFacts
<1>7. /\ t.receipt = Replaced(s.receipt, m, "Acknowledged") /\ t.told = Replaced(s.told, m, y)
      /\ t.out = RemoveAt(s.out, i) /\ t.units = s.units
  <2>1. a.receipt = Replaced(s.receipt, m, "Acknowledged") /\ a.told = s.told
    BY <1>2, <1>4, Zenon
  <2>2. Append(a.told[m], "success") = y
    BY <1>1, <2>1, Appends, Zenon
  <2> HIDE DEF m, y
  <2> QED
    BY <1>2, <1>4, <1>6, <2>1, <2>2, Zenon
<1>8. y \in Story(m, "Acknowledged") /\ "Acknowledged" \in States
  BY DEF Story, States
<1> HIDE DEF y
<1>9. Good(t) /\ (OneIn(s) => OneIn(t))
  BY <1>6, <1>7, <1>8, EndTransfer, ZenonT(60)
<1>10. Touches(s.receipt, t.receipt, m)
  <2>1. <<s.receipt[m], "Acknowledged">> \in Moves
    BY <1>1, SMTT(30), ZenonT(30) DEF Moves
  <2> QED
    BY <1>1, <1>7, <2>1, TouchOne, SMTT(30), ZenonT(30)
<1> QED
  BY <1>9, <1>10

\* mark_ack_service_first_complete: the transfer stays, and has been sent.
LEMMA FirstCompleteGood ==
    ASSUME NEW s, Good(s), NEW i \in 1..Len(s.out), NEW t, t = FirstComplete(s, i)
    PROVE  /\ Good(t) /\ Touches(s.receipt, t.receipt, s.out[i].sdu)
           /\ Len(t.out) = Len(s.out) /\ t.out[i].first
           /\ \A n \in 1..Len(s.out) : /\ t.out[n].sdu = s.out[n].sdu
                                       /\ t.out[n].submitted = s.out[n].submitted
<1>1. CASE s.out[i].first
  <2>1. t = s
    BY <1>1, Zenon DEF FirstComplete
  <2> QED
    BY <1>1, <2>1, Zenon DEF Touches
<1>2. CASE ~s.out[i].first
  <2> DEFINE m == s.out[i].sdu
             e == [s.out[i] EXCEPT !.first = TRUE]
             q == Replaced(s.out, i, e)
             a == [s EXCEPT !.out = q]
             x == Replaced(s.receipt, m, "Transmitted")
             b == [a EXCEPT !.receipt = x]
             y == <<"accepted", "first">>
  <2>1. Shape(s) /\ Transfers(s.out) /\ IsTransfer(s.out[i]) /\ OpenOut(s, i)
    BY DEF Good, Transfers
  <2>2. m \in Sdus /\ m \in Messages /\ s.receipt[m] = "Pending" /\ s.told[m] = <<"accepted">>
    BY <1>2, <2>1, Zenon DEF OpenOut, IsTransfer, Messages
  <2>3. Shape(a) /\ a.out = q /\ a.units = s.units /\ a.receipt = s.receipt /\ a.told = s.told
    <3> HIDE DEF q
    <3> QED
      BY <2>1, SetOut
  <2>4. t = Tell(Sent(a, m), m, "first")
    BY <1>2 DEF FirstComplete, Replaced
  <2> HIDE DEF a
  <2>5. Sent(a, m) = b
    BY <2>2, <2>3 DEF Sent, Replaced
  <2>6. Shape(b) /\ b.receipt = x /\ b.out = q /\ b.units = s.units /\ b.told = s.told
    <3> HIDE DEF q, x
    <3> QED
      BY <2>3, SetReceipt
  <2> HIDE DEF b
  <2>7. /\ Shape(t) /\ t.out = b.out /\ t.units = b.units /\ t.receipt = b.receipt
        /\ t.told = Replaced(b.told, m, Append(b.told[m], "first"))
    BY <2>4, <2>5, <2>6, TellFacts
  <2>8. IsTransfer(e) /\ e.first /\ e.sdu = s.out[i].sdu /\ e.submitted = s.out[i].submitted
    BY Zenon, <2>1, PlaceFirst
  <2> HIDE DEF e
  <2>9. /\ Transfers(t.out) /\ Len(t.out) = Len(s.out)
        /\ \A n \in 1..Len(s.out) : t.out[n] = IF n = i THEN e ELSE s.out[n]
    <3>1. i \in 1..Len(s.out) => IsTransfer(e) /\ e.sdu = s.out[i].sdu
      BY <2>8
    <3>2. t.out = Replaced(s.out, i, e)
      BY <2>6, <2>7
    <3> QED
      BY <2>1, <3>1, <3>2, PlaceFacts
  <2>10. t.receipt = x /\ t.told = Replaced(s.told, m, y) /\ t.units = s.units
    <3>1. Append(s.told[m], "first") = y
      BY <2>2, Appends, ZenonT(60)
    <3> HIDE DEF x, y, m
    <3> QED
      BY <2>6, <2>7, <3>1, Zenon
  <2>11. Accounts(t.receipt, t.told)
    <3>1. y \in Story(m, "Transmitted") /\ "Transmitted" \in States
      BY <2>2, SMTT(30), ZenonT(30) DEF Story, States
    <3> HIDE DEF y
    <3> QED
      BY <2>2, <2>10, <3>1, AccountStep DEF Good
  <2>12. /\ t.receipt[m] = "Transmitted" /\ t.told[m] = y
         /\ \A z \in Messages : z # m => t.receipt[z] = s.receipt[z] /\ t.told[z] = s.told[z]
    BY <2>2, <2>10 DEF Good, Accounts, Replaced
  <2> HIDE DEF m
  <2>13. ASSUME NEW n \in 1..Len(t.out) PROVE OpenOut(t, n)
    <3>1. CASE n = i
      <4>1. t.out[n].first /\ t.out[n].sdu = m
        BY <2>8, <2>9, <3>1 DEF m
      <4> QED
        BY <2>12, <4>1, Zenon DEF OpenOut
    <3>2. CASE n # i
      <4>1. OpenOut(s, n) /\ t.out[n] = s.out[n] /\ s.out[n].sdu # m /\ s.out[n].sdu \in Messages
        BY Zenon, <2>9, <3>2 DEF Good, Transfers, IsTransfer, Messages, m
      <4> QED
        BY <2>12, <4>1, ZenonT(60) DEF OpenOut
    <3> QED
      BY <3>1, <3>2
  <2>14. ASSUME NEW n \in 1..Len(t.units) PROVE OpenUnit(t, n)
    <3>1. OpenUnit(s, n) /\ s.units[n].sdu \in Messages /\ s.units[n].sdu # m
      BY ZenonT(60), <2>2, <2>10, LinkAssumption DEF Good, Repetitions, IsRepeated, Messages
    <3> QED
      BY <2>10, <2>12, <3>1, Zenon DEF OpenUnit
  <2>15. Good(t)
    BY <2>7, <2>9, <2>10, <2>11, <2>13, <2>14, Zenon DEF Good
  <2>16. Touches(s.receipt, t.receipt, m)
    BY <2>2, <2>12 DEF Touches, Moves
  <2> QED
    BY <2>8, <2>9, <2>15, <2>16 DEF m
<1> QED
  BY <1>1, <1>2

\* A transfer goes to the front of the queue.
LEMMA ToFrontGood ==
    ASSUME NEW s, Good(s), NEW i \in 1..Len(s.out), NEW t, t = ToFront(s, i)
    PROVE  Good(t) /\ (OneIn(s) => OneIn(t)) /\ t.receipt = s.receipt
<1> DEFINE q == s.out
           w == <<q[i]>> \o RemoveAt(q, i)
           Old(n) == IF n = 1 THEN i ELSE IF n <= i THEN n - 1 ELSE n
<1>1. IsSeq(q) /\ Len(q) \in Nat /\ Shape(s)
  BY IsSeqFacts DEF Good, Transfers
<1>2. t = [s EXCEPT !.out = w]
  BY Zenon DEF ToFront
<1> HIDE DEF q
<1>3. /\ IsSeq(w) /\ Len(w) = Len(q)
      /\ \A n \in 1..Len(q) : w[n] = IF n = 1 THEN q[i] ELSE IF n <= i THEN q[n - 1] ELSE q[n]
  BY Zenon, <1>1, FrontFacts DEF q
<1> HIDE DEF w
<1>4. Shape(t) /\ t.out = w /\ t.units = s.units /\ t.receipt = s.receipt /\ t.told = s.told
  BY <1>1, <1>2, SetOut, SMTT(30), ZenonT(30)
<1>5. i \in 1..Len(q)
  BY DEF q
<1>6. \A n \in 1..Len(w) : Old(n) \in 1..Len(q) /\ w[n] = q[Old(n)]
  BY <1>1, <1>3, <1>5
<1>7. \A n, k \in 1..Len(w) : Old(n) = Old(k) => n = k
  BY <1>1, <1>3, <1>5
<1> HIDE DEF Old
<1>8. Transfers(t.out)
  <2>1. \A n \in 1..Len(w) : IsTransfer(w[n])
    BY <1>6, Zenon DEF Good, Transfers, q
  <2>2. ASSUME NEW n \in 1..Len(w), NEW k \in 1..Len(w), w[n].sdu = w[k].sdu
        PROVE  n = k
    <3>1. q[Old(n)].sdu = q[Old(k)].sdu /\ Old(n) \in 1..Len(q) /\ Old(k) \in 1..Len(q)
      BY <1>6, <2>2, Zenon
    <3>2. Old(n) = Old(k)
      BY <3>1, Zenon DEF Good, Transfers, q
    <3> QED
      BY <1>7, <3>2, Zenon
  <2> QED
    BY <1>3, <1>4, <2>1, <2>2, Zenon DEF Transfers
<1>9. ASSUME NEW n \in 1..Len(t.out) PROVE OpenOut(t, n)
  <2>1. OpenOut(s, Old(n)) /\ t.out[n] = s.out[Old(n)]
    BY <1>4, <1>6, Zenon DEF Good, q
  <2> QED
    BY <1>4, <2>1, Zenon DEF OpenOut
<1>10. ASSUME NEW n \in 1..Len(t.units) PROVE OpenUnit(t, n)
  BY <1>4, Zenon DEF Good, OpenUnit
<1>11. OneIn(s) => OneIn(t)
  <2>1. \A n \in Submitted(t) : n \in 1..Len(w) /\ Old(n) \in Submitted(s)
    BY <1>4, <1>6 DEF Submitted, q
  <2> QED
    BY <1>7, <2>1, Zenon DEF OneIn
<1> QED
  BY <1>4, <1>8, <1>9, <1>10, <1>11, Zenon DEF Good

-----------------------------------------------------------------------------
(* Requests *)

\* A message nobody has sent yet is in no queue.
LEMMA UnusedIdle ==
    ASSUME NEW s, Good(s), NEW m \in Messages, s.receipt[m] = "Unused"
    PROVE  /\ s.told[m] = <<>>
           /\ \A n \in 1..Len(s.out) : s.out[n].sdu # m
           /\ \A n \in 1..Len(s.units) : s.units[n].sdu # m
<1>1. s.told[m] = <<>>
  BY DEF Good, Accounts, Story
<1>2. ASSUME NEW n \in 1..Len(s.out) PROVE s.out[n].sdu # m
  <2>1. OpenOut(s, n)
    BY DEF Good
  <2>2. s.receipt[s.out[n].sdu] \in {"Transmitted", "Pending"}
    BY <2>1, Zenon DEF OpenOut
  <2> QED
    BY <2>2
<1>3. ASSUME NEW n \in 1..Len(s.units) PROVE s.units[n].sdu # m
  BY DEF Good, OpenUnit
<1> QED
  BY <1>1, <1>2, <1>3, Zenon

\* The story of a message that is in no queue goes on.
LEMMA IdleStep ==
    ASSUME NEW s, Good(s), NEW m \in Messages,
           \A n \in 1..Len(s.out) : s.out[n].sdu # m,
           \A n \in 1..Len(s.units) : s.units[n].sdu # m,
           NEW st \in States, NEW y \in Story(m, st), NEW t, Shape(t),
           t.out = s.out, t.units = s.units,
           t.receipt = Replaced(s.receipt, m, st), t.told = Replaced(s.told, m, y)
    PROVE  Good(t)
<1>1. Accounts(t.receipt, t.told)
  BY AccountStep, SMTT(30), ZenonT(30) DEF Good
<1>2. \A z \in Messages : z # m => t.receipt[z] = s.receipt[z] /\ t.told[z] = s.told[z]
  BY DEF Good, Accounts, Replaced
<1>3. ASSUME NEW n \in 1..Len(t.out) PROVE OpenOut(t, n)
  <2>1. OpenOut(s, n) /\ s.out[n].sdu # m /\ s.out[n].sdu \in Messages
    BY Zenon DEF Good, Transfers, IsTransfer, Messages
  <2> QED
    BY <1>2, <2>1, Zenon DEF OpenOut
<1>4. ASSUME NEW n \in 1..Len(t.units) PROVE OpenUnit(t, n)
  <2>1. OpenUnit(s, n) /\ s.units[n].sdu # m /\ s.units[n].sdu \in Messages
    BY Zenon DEF Good, Repetitions, IsRepeated, Messages
  <2> QED
    BY <1>2, <2>1, Zenon DEF OpenUnit
<1> QED
  BY <1>1, <1>3, <1>4, ZenonT(60) DEF Good

\* A request refused.
LEMMA RefusedGood ==
    ASSUME NEW s, Good(s), OneIn(s), NEW m \in Messages, s.receipt[m] = "Unused", NEW t, t = Refused(s, m)
    PROVE  Good(t) /\ OneIn(t) /\ Touches(s.receipt, t.receipt, m)
<1> DEFINE x == Replaced(s.receipt, m, "Discarded")
           a == [s EXCEPT !.receipt = x]
           y == <<"failed">>
<1>1. t = Tell(a, m, "failed")
  BY DEF Refused, Replaced
<1>2. Shape(a) /\ a.out = s.out /\ a.units = s.units /\ a.receipt = x /\ a.told = s.told
  <2> HIDE DEF x
  <2> QED
    BY SetReceipt DEF Good
<1> HIDE DEF a
<1>3. /\ Shape(t) /\ t.out = a.out /\ t.units = a.units /\ t.receipt = a.receipt
      /\ t.told = Replaced(a.told, m, Append(a.told[m], "failed"))
  BY <1>1, <1>2, TellFacts
<1>4. /\ s.told[m] = <<>>
      /\ \A n \in 1..Len(s.out) : s.out[n].sdu # m
      /\ \A n \in 1..Len(s.units) : s.units[n].sdu # m
  BY UnusedIdle
<1>5. t.told = Replaced(s.told, m, y) /\ t.receipt = x /\ t.out = s.out /\ t.units = s.units
  <2>1. Append(s.told[m], "failed") = y
    BY <1>4, Appends, Zenon
  <2> HIDE DEF x, y
  <2> QED
    BY <1>2, <1>3, <2>1, Zenon
<1>6. y \in Story(m, "Discarded") /\ "Discarded" \in States
  BY DEF Story, States
<1> HIDE DEF y
<1>7. Good(t)
  BY <1>3, <1>4, <1>5, <1>6, IdleStep, SMTT(30), ZenonT(30)
<1>8. <<s.receipt[m], "Discarded">> \in Moves
  BY DEF Moves
<1>9. Touches(s.receipt, t.receipt, m)
  BY <1>5, <1>8, TouchOne
<1>10. OneIn(t)
  BY <1>5, Zenon DEF OneIn, Submitted
<1> QED
  BY <1>7, <1>9, <1>10

\* rx_tla_tldata_req_bl: a transfer that waits at the end of the queue, or a refusal.
LEMMA DataReqGood ==
    ASSUME NEW s, Good(s), OneIn(s), NEW m \in Sdus, s.receipt[m] = "Unused", NEW t, t = DataReq(s, m)
    PROVE  Good(t) /\ OneIn(t) /\ Touches(s.receipt, t.receipt, m)
<1> DEFINE e == [sdu |-> m, ns |-> s.vs, nr |-> None, submitted |-> FALSE, done |-> None,
                 count |-> 0, first |-> FALSE, exhausted |-> None]
           q == Append(s.out, e)
           x == Replaced(s.receipt, m, "Pending")
           y == <<"accepted">>
           a == [s EXCEPT !.out = q]
           b == [a EXCEPT !.vs = 1 - a.vs]
           c == [b EXCEPT !.receipt = x]
<1>0. m \in Messages
  BY DEF Messages
<1>1. CASE m \in TooLong \/ Len(s.out) >= MaxOut
  <2>1. t = Refused(s, m)
    BY <1>1, Zenon DEF DataReq
  <2> QED
    BY <1>0, <2>1, RefusedGood, Zenon
<1>2. CASE ~(m \in TooLong \/ Len(s.out) >= MaxOut)
  <2>1. Shape(a) /\ a.out = q /\ a.units = s.units /\ a.receipt = s.receipt /\ a.told = s.told
    <3> HIDE DEF q
    <3> QED
      BY ZenonT(60), SetOut DEF Good
  <2>2. a.vs = s.vs
    BY DEF Good, Shape
  <2>3. Same(a, b)
    <3> HIDE DEF a
    <3> QED
      BY Zenon, <2>1, SetIgnored
  <2>4. t = Tell(c, m, "accepted")
    <3>1. c = [s EXCEPT !.out = q, !.vs = 1 - @, !.receipt[m] = "Pending"]
      BY DEF Good, Shape, Replaced
    <3> QED
      BY <1>2, <3>1 DEF DataReq
  <2> HIDE DEF a, b
  <2>5. Shape(c) /\ c.receipt = x /\ c.out = q /\ c.units = s.units /\ c.told = s.told
    <3> HIDE DEF x, q
    <3> QED
      BY <2>1, <2>3, SetReceipt, SMTT(30), ZenonT(30) DEF Same
  <2> HIDE DEF c
  <2>6. /\ Shape(t) /\ t.out = c.out /\ t.units = c.units /\ t.receipt = c.receipt
        /\ t.told = Replaced(c.told, m, Append(c.told[m], "accepted"))
    BY <2>4, <2>5, TellFacts
  <2>7. /\ s.told[m] = <<>>
        /\ \A n \in 1..Len(s.out) : s.out[n].sdu # m
        /\ \A n \in 1..Len(s.units) : s.units[n].sdu # m
    BY <1>0, UnusedIdle
  <2>8. t.told = Replaced(s.told, m, y) /\ t.receipt = x /\ t.out = q /\ t.units = s.units
    <3>1. Append(s.told[m], "accepted") = y
      BY <2>7, Appends, ZenonT(60)
    <3> HIDE DEF x, y, q
    <3> QED
      BY <2>5, <2>6, <3>1, Zenon
  <2>9. Accounts(t.receipt, t.told)
    <3>1. y \in Story(m, "Pending") /\ "Pending" \in States
      BY SMTT(30), ZenonT(30) DEF Story, States
    <3> HIDE DEF y
    <3> QED
      BY <1>0, <2>8, <3>1, AccountStep DEF Good
  <2>10. /\ t.receipt[m] = "Pending" /\ t.told[m] = y
         /\ \A z \in Messages : z # m => t.receipt[z] = s.receipt[z] /\ t.told[z] = s.told[z]
    BY <1>0, <2>8, SMTT(30), ZenonT(30) DEF Good, Accounts, Replaced
  <2>11. IsTransfer(e) /\ e.sdu = m /\ ~e.first /\ ~e.submitted
    BY DEF IsTransfer
  <2> HIDE DEF e
  <2>12. /\ IsSeq(q) /\ Len(q) = Len(s.out) + 1 /\ Len(s.out) \in Nat
         /\ \A n \in 1..Len(s.out) : q[n] = s.out[n]
         /\ q[Len(s.out) + 1] = e
    <3>1. IsSeq(s.out)
      BY DEF Good, Transfers
    <3>2. Appended(s.out, e, q)
      BY <3>1, AppendIs, Zenon
    <3> HIDE DEF q
    <3> QED
      BY <3>2 DEF Appended
  <2> HIDE DEF q
  <2>13. \A n \in 1..Len(q) : n \in 1..Len(s.out) \/ n = Len(s.out) + 1
    BY <2>12
  <2>14. Transfers(q)
    <3>1. \A n \in 1..Len(q) : IsTransfer(q[n])
      BY <2>11, <2>12, <2>13, SMTT(30), ZenonT(30) DEF Good, Transfers
    <3>2. \A n, k \in 1..Len(q) : q[n].sdu = q[k].sdu => n = k
      BY <2>7, <2>11, <2>12, <2>13, SMTT(30), ZenonT(30) DEF Good, Transfers
    <3> QED
      BY <2>12, <3>1, <3>2 DEF Transfers
  <2>15. ASSUME NEW n \in 1..Len(t.out) PROVE OpenOut(t, n)
    <3>1. CASE n = Len(s.out) + 1
      <4>1. t.out[n] = e
        BY <2>8, <2>12, <3>1
      <4> QED
        BY <2>10, <2>11, <4>1, Zenon DEF OpenOut
    <3>2. CASE n \in 1..Len(s.out)
      <4>1. OpenOut(s, n) /\ t.out[n] = s.out[n] /\ s.out[n].sdu # m /\ s.out[n].sdu \in Messages
        BY Zenon, <2>7, <2>8, <2>12, <3>2 DEF Good, Transfers, IsTransfer, Messages
      <4> QED
        BY <2>10, <4>1, ZenonT(60) DEF OpenOut
    <3> QED
      BY <2>8, <2>13, <3>1, <3>2, Zenon
  <2>16. ASSUME NEW n \in 1..Len(t.units) PROVE OpenUnit(t, n)
    <3>1. OpenUnit(s, n) /\ s.units[n].sdu # m /\ s.units[n].sdu \in Messages
      BY Zenon, <2>7, <2>8 DEF Good, Repetitions, IsRepeated, Messages
    <3> QED
      BY <2>8, <2>10, <3>1, Zenon DEF OpenUnit
  <2>17. Good(t)
    BY <2>6, <2>8, <2>9, <2>14, <2>15, <2>16, Zenon DEF Good
  <2>18. OneIn(t)
    <3>1. \A n \in Submitted(t) : n \in Submitted(s)
      BY ZenonT(60), <2>8, <2>11, <2>12, <2>13 DEF Submitted
    <3> QED
      BY <3>1, Zenon DEF OneIn
  <2>19. Touches(s.receipt, t.receipt, m)
    BY <2>10 DEF Touches, Moves
  <2> QED
    BY <2>17, <2>18, <2>19
<1> QED
  BY <1>1, <1>2

\* An unacknowledged message queued.
LEMMA EnqueueGood ==
    ASSUME NEW s, Good(s), OneIn(s), NEW m \in Units, s.receipt[m] = "Unused", NEW t, t = Enqueue(s, m)
    PROVE  Good(t) /\ OneIn(t) /\ Touches(s.receipt, t.receipt, m)
<1> DEFINE e == [sdu |-> m, complete |-> 0, failed |-> 0, submitted |-> FALSE, defer |-> FALSE]
           q == Append(s.units, e)
           x == Replaced(s.receipt, m, "Pending")
           a == [s EXCEPT !.units = q]
<1>1. m \in Messages /\ m \notin Sdus
  BY LinkAssumption DEF Messages
<1>2. /\ s.told[m] = <<>>
      /\ \A n \in 1..Len(s.out) : s.out[n].sdu # m
      /\ \A n \in 1..Len(s.units) : s.units[n].sdu # m
  BY <1>1, UnusedIdle
<1>3. Shape(a) /\ a.units = q /\ a.out = s.out /\ a.receipt = s.receipt /\ a.told = s.told
  <2> HIDE DEF q
  <2> QED
    BY ZenonT(60), SetUnits DEF Good
<1>4. t = [a EXCEPT !.receipt = x]
  BY DEF Enqueue, Good, Shape, Replaced
<1> HIDE DEF a
<1>5. Shape(t) /\ t.receipt = x /\ t.units = q /\ t.out = s.out /\ t.told = s.told
  <2> HIDE DEF x, q
  <2> QED
    BY <1>3, <1>4, SetReceipt, SMTT(30), ZenonT(30)
<1>6. /\ t.receipt[m] = "Pending"
      /\ \A z \in Messages : z # m => t.receipt[z] = s.receipt[z]
      /\ t.receipt \in [Messages -> States]
  BY <1>1, <1>5, SMTT(30), ZenonT(30) DEF Good, Accounts, Replaced, States
<1>7. Accounts(t.receipt, t.told)
  <2>1. <<>> \in Story(m, "Pending")
    BY <1>1 DEF Story
  <2>2. ASSUME NEW z \in Messages PROVE t.told[z] \in Story(z, t.receipt[z])
    <3>1. CASE z = m
      BY <1>2, <1>5, <1>6, <2>1, <3>1, SMTT(30), ZenonT(30)
    <3>2. CASE z # m
      BY <1>5, <1>6, <3>2, SMTT(30), ZenonT(30) DEF Good, Accounts
    <3> QED
      BY <3>1, <3>2
  <2>3. t.told = [z \in Messages |-> t.told[z]]
    BY <1>5 DEF Good, Accounts
  <2> QED
    BY <1>6, <2>2, <2>3 DEF Accounts
<1>8. IsRepeated(e) /\ e.sdu = m
  BY DEF IsRepeated
<1> HIDE DEF e
<1>9. /\ IsSeq(q) /\ Len(q) = Len(s.units) + 1 /\ Len(s.units) \in Nat
      /\ \A n \in 1..Len(s.units) : q[n] = s.units[n]
      /\ q[Len(s.units) + 1] = e
  <2>1. IsSeq(s.units)
    BY DEF Good, Repetitions
  <2>2. Appended(s.units, e, q)
    BY <2>1, AppendIs, Zenon
  <2> HIDE DEF q
  <2> QED
    BY <2>2 DEF Appended
<1> HIDE DEF q
<1>10. \A n \in 1..Len(q) : n \in 1..Len(s.units) \/ n = Len(s.units) + 1
  BY <1>9
<1>11. Repetitions(q)
  <2>1. \A n \in 1..Len(q) : IsRepeated(q[n])
    BY <1>8, <1>9, <1>10, SMTT(30), ZenonT(30) DEF Good, Repetitions
  <2>2. \A n, k \in 1..Len(q) : q[n].sdu = q[k].sdu => n = k
    BY <1>2, <1>8, <1>9, <1>10, SMTT(30), ZenonT(30) DEF Good, Repetitions
  <2> QED
    BY <1>9, <2>1, <2>2 DEF Repetitions
<1>12. ASSUME NEW n \in 1..Len(t.units) PROVE OpenUnit(t, n)
  <2>1. CASE n = Len(s.units) + 1
    BY <1>2, <1>5, <1>6, <1>8, <1>9, <2>1 DEF OpenUnit
  <2>2. CASE n \in 1..Len(s.units)
    <3>1. OpenUnit(s, n) /\ t.units[n] = s.units[n] /\ s.units[n].sdu # m /\ s.units[n].sdu \in Messages
      BY Zenon, <1>2, <1>5, <1>9, <2>2 DEF Good, Repetitions, IsRepeated, Messages
    <3> QED
      BY <1>5, <1>6, <3>1, Zenon DEF OpenUnit
  <2> QED
    BY <1>5, <1>10, <2>1, <2>2, Zenon
<1>13. ASSUME NEW n \in 1..Len(t.out) PROVE OpenOut(t, n)
  <2>1. OpenOut(s, n) /\ s.out[n].sdu # m /\ s.out[n].sdu \in Messages
    BY Zenon, <1>2, <1>5 DEF Good, Transfers, IsTransfer, Messages
  <2> QED
    BY <1>5, <1>6, <2>1, Zenon DEF OpenOut
<1>14. Good(t)
  BY <1>5, <1>7, <1>11, <1>12, <1>13, Zenon DEF Good
<1>15. OneIn(t)
  BY <1>5, Zenon DEF OneIn, Submitted
<1>16. Touches(s.receipt, t.receipt, m)
  BY <1>6 DEF Touches, Moves
<1> QED
  BY <1>14, <1>15, <1>16

\* Nothing that ends a repetition touches the receipts of the transfers.
SduReceipts(r, s) == \A x \in Sdus : s[x] = r[x]

\* An unacknowledged message that fails leaves the receipts of the transfers alone.
LEMMA FailUnitGood ==
    ASSUME NEW s, Good(s), OneIn(s), NEW i \in 1..Len(s.units), NEW t, t = FailUnit(s, i)
    PROVE  /\ Good(t) /\ OneIn(t) /\ SduReceipts(s.receipt, t.receipt)
           /\ \A x \in Messages : s.receipt[x] = "Unused" => t.receipt[x] = "Unused"
<1> DEFINE m == s.units[i].sdu
           k == MarkMac(s, m, "Discarded")
           d == Disown(k, m)
           q == RemoveAt(s.units, i)
           a == [d EXCEPT !.units = q]
           st == FailedState(s.receipt[m])
           y == Append(s.told[m], "failed")
<1>1. Same(s, k)
  BY SetIgnored, Zenon DEF MarkMac, Good
<1>2. Same(k, d)
  <2> HIDE DEF k
  <2> QED
    BY <1>1, SetIgnored, ZenonT(60) DEF Disown, Same
<1> HIDE DEF k
<1>3. Same(s, d)
  BY <1>1, <1>2 DEF Same
<1>4. t = Failed(a, m)
  <2>1. d.units = s.units
    BY <1>3 DEF Same
  <2>2. t = Failed([d EXCEPT !.units = RemoveAt(d.units, i)], m)
    BY Zenon DEF FailUnit, k
  <2> QED
    BY <2>1, <2>2, SMTT(30), ZenonT(30)
<1> HIDE DEF d
<1>5. Shape(a) /\ a.units = q /\ a.out = s.out /\ a.receipt = s.receipt /\ a.told = s.told
  <2> HIDE DEF q
  <2> QED
    BY <1>3, SetUnits, SMTT(30), ZenonT(30) DEF Same
<1> HIDE DEF a
<1>6. /\ Shape(t) /\ t.out = a.out /\ t.units = a.units
      /\ t.receipt = Replaced(a.receipt, m, FailedState(a.receipt[m]))
      /\ t.told = Replaced(a.told, m, Append(a.told[m], "failed"))
  BY <1>4, <1>5, FailedFacts, SMTT(30), ZenonT(30)
<1>7. /\ t.receipt = Replaced(s.receipt, m, st) /\ t.told = Replaced(s.told, m, y)
      /\ t.out = s.out /\ t.units = q
  BY <1>5, <1>6, SMTT(30), ZenonT(30)
<1>8. st \in States /\ y \in Story(m, st) /\ st = "Discarded"
  BY Endings DEF States
<1>9. m \in Units /\ s.receipt[m] = "Pending"
  BY ZenonT(60) DEF Good, Repetitions, IsRepeated, OpenUnit
<1>10. /\ SduReceipts(s.receipt, t.receipt)
       /\ \A x \in Messages : s.receipt[x] = "Unused" => t.receipt[x] = "Unused"
  <2>1. s.receipt \in [Messages -> States]
    BY SMTT(30), ZenonT(30) DEF Good, Accounts
  <2>2. \A x \in Messages : t.receipt[x] = IF x = m THEN st ELSE s.receipt[x]
    BY <1>7, <2>1 DEF Replaced
  <2>3. m \notin Sdus /\ Sdus \subseteq Messages
    BY <1>9, LinkAssumption DEF Messages
  <2> HIDE DEF st, y
  <2> QED
    BY <1>9, <2>2, <2>3 DEF SduReceipts
<1> HIDE DEF st, y
<1>11. Good(t) /\ OneIn(t)
  BY ZenonT(60), <1>6, <1>7, <1>8, EndUnit
<1> QED
  BY <1>10, <1>11

-----------------------------------------------------------------------------
(* Timers *)

\* What a handler does to the transfer at place i, of message m: the transfers stay
\* where they are, none is submitted, and only the receipt of m moves.
InPlace(s, t, m) ==
    /\ Good(t) /\ Touches(s.receipt, t.receipt, m)
    /\ Len(t.out) = Len(s.out)
    /\ \A n \in 1..Len(s.out) : /\ t.out[n].sdu = s.out[n].sdu
                                /\ t.out[n].submitted => s.out[n].submitted

\* What is inert leaves every transfer in its place.
LEMMA InertInPlace ==
    ASSUME NEW s, Good(s), NEW t, Inert(s, t), NEW m
    PROVE  InPlace(s, t, m)
<1>1. Good(t)
  BY InertGood, Zenon
<1>2. Touches(s.receipt, t.receipt, m)
  BY DEF Inert, Touches
<1> QED
  BY <1>1, <1>2 DEF Inert, LikeOut, InPlace

\* So does the first complete transmission.
LEMMA FirstInPlace ==
    ASSUME NEW s, Good(s), NEW i \in 1..Len(s.out)
    PROVE  InPlace(s, FirstComplete(s, i), s.out[i].sdu) /\ FirstComplete(s, i).out[i].first
<1> DEFINE t == FirstComplete(s, i)
<1>1. /\ Good(t) /\ Touches(s.receipt, t.receipt, s.out[i].sdu)
      /\ Len(t.out) = Len(s.out) /\ t.out[i].first
      /\ \A n \in 1..Len(s.out) : /\ t.out[n].sdu = s.out[n].sdu
                                  /\ t.out[n].submitted = s.out[n].submitted
  <2> HIDE DEF t
  <2> QED
    BY FirstCompleteGood DEF t
<1> HIDE DEF t
<1>2. InPlace(s, t, s.out[i].sdu) /\ t.out[i].first
  BY <1>1 DEF InPlace
<1> QED
  BY <1>2, SMTT(30), ZenonT(30) DEF t

\* And one after the other.
LEMMA InPlaceTrans ==
    ASSUME NEW s, Good(s), NEW i \in 1..Len(s.out), NEW t, NEW u,
           InPlace(s, t, s.out[i].sdu), InPlace(t, u, s.out[i].sdu)
    PROVE  InPlace(s, u, s.out[i].sdu)
<1>1. s.receipt[s.out[i].sdu] # "Unused"
  <2>1. OpenOut(s, i)
    BY DEF Good
  <2> QED
    BY <2>1 DEF OpenOut
<1>2. Touches(s.receipt, u.receipt, s.out[i].sdu)
  BY <1>1, TouchTrans DEF InPlace
<1> QED
  BY <1>2, SMTT(30), ZenonT(30) DEF InPlace

\* The only transfer at the UMAC stays the only one.
LEMMA InPlaceOne ==
    ASSUME NEW s, OneIn(s), NEW i \in Submitted(s), NEW t, NEW m, InPlace(s, t, m)
    PROVE  /\ Submitted(t) \subseteq {i} /\ OneIn(t)
           /\ i \in 1..Len(t.out) /\ t.out[i].sdu = s.out[i].sdu
<1>1. Submitted(t) \subseteq Submitted(s)
  BY DEF Submitted, InPlace
<1>2. i \in 1..Len(t.out) /\ t.out[i].sdu = s.out[i].sdu
  BY DEF Submitted, InPlace
<1> QED
  BY <1>1, <1>2, ZenonT(60) DEF OneIn

\* reconcile_umac_done_from_reporter
LEMMA ReconcileInPlace ==
    ASSUME NEW s, Good(s), NEW i \in 1..Len(s.out)
    PROVE  InPlace(s, Reconcile(s, i), s.out[i].sdu)
<1> DEFINE m == s.out[i].sdu
           t == [s EXCEPT !.out[i].done = 0]
           f == FirstComplete(t, i)
<1>1. Reconcile(s, i) \in {s, f, t}
  BY Zenon DEF Reconcile
<1>2. Inert(s, t) /\ Inert(s, s)
  BY FieldInert, GoodLike, Zenon
<1> HIDE DEF t
<1>3. InPlace(s, t, m) /\ InPlace(s, s, m)
  BY <1>2, InertInPlace, ZenonT(60)
<1>4. Good(t) /\ i \in 1..Len(t.out) /\ t.out[i].sdu = m
  BY <1>3 DEF InPlace
<1>5. InPlace(t, f, m)
  BY <1>4, FirstInPlace
<1> HIDE DEF f
<1>6. InPlace(s, f, m)
  BY <1>3, <1>5, InPlaceTrans, ZenonT(60)
<1> QED
  BY <1>1, <1>3, <1>6, Zenon

\* What a handler may make of the transfers: only the receipt of m moves.
Handles(s, t, m) == Good(t) /\ OneIn(t) /\ Touches(s.receipt, t.receipt, m)

\* What leaves the transfers in place, before a handler of the same transfer.
LEMMA InPlaceThen ==
    ASSUME NEW s, Good(s), NEW i \in 1..Len(s.out), NEW t, NEW u,
           InPlace(s, t, s.out[i].sdu), Handles(t, u, s.out[i].sdu)
    PROVE  Handles(s, u, s.out[i].sdu)
<1>1. s.receipt[s.out[i].sdu] # "Unused"
  <2>1. OpenOut(s, i)
    BY DEF Good
  <2> QED
    BY <2>1 DEF OpenOut
<1> QED
  BY <1>1, TouchTrans, SMTT(30), ZenonT(30) DEF InPlace, Handles

\* submit_retransmissions_to_umac
LEMMA RetryHandles ==
    ASSUME NEW s, Good(s), OneIn(s), NEW i \in 1..Len(s.out), Submitted(s) \subseteq {i}
    PROVE  Handles(s, Retry(s, i), s.out[i].sdu)
<1> DEFINE m == s.out[i].sdu
           c == [s EXCEPT !.out[i].count = s.out[i].count + 1]
           x == [s EXCEPT !.out[i].exhausted = 0]
<1>1. Retry(s, i) \in {FailAt(s, i), s, FoldAndSubmit(c, i), x}
  BY Zenon DEF Retry
<1>2. Inert(s, c) /\ Inert(s, x) /\ Inert(s, s)
  BY FieldInert, GoodLike, Zenon
<1> HIDE DEF c, x
<1>3. Handles(s, s, m) /\ Handles(s, x, m)
  <2>1. InPlace(s, s, m) /\ InPlace(s, x, m) /\ OneIn(x)
    BY <1>2, InertInPlace, InertGood, Zenon
  <2> QED
    BY <2>1, Zenon DEF InPlace, Handles
<1>4. Handles(s, FailAt(s, i), m)
  BY FailAtGood, Zenon DEF Handles
<1>5. Handles(s, FoldAndSubmit(c, i), m)
  <2>1. Good(c) /\ InPlace(s, c, m) /\ c.receipt = s.receipt
    BY <1>2, InertInPlace, InertGood, ZenonT(60) DEF Inert
  <2>2. Submitted(c) \subseteq {i}
    BY <1>2 DEF Inert, LikeOut, Submitted
  <2>3. /\ Good(FoldAndSubmit(c, i)) /\ OneIn(FoldAndSubmit(c, i))
        /\ FoldAndSubmit(c, i).receipt = s.receipt
    BY <2>1, <2>2, FoldAndSubmitGood, ZenonT(60)
  <2> QED
    BY <2>3, Zenon DEF Handles, Touches
<1> QED
  BY <1>1, <1>3, <1>4, <1>5, Zenon

\* A step of the LLC: at most one transfer's receipt moves, and none is taken into use.
NoneUsed(r, s) == \A x \in Messages : r[x] = "Unused" => s[x] = "Unused"
Steps(s, t) ==
    /\ Good(t) /\ OneIn(t) /\ NoneUsed(s.receipt, t.receipt)
    /\ t.receipt = s.receipt \/ \E m \in Sdus : Touches(s.receipt, t.receipt, m)

\* What is inert is a step of the link.
LEMMA InertSteps ==
    ASSUME NEW s, Good(s), OneIn(s), NEW t, Inert(s, t)
    PROVE  Steps(s, t)
BY InertGood DEF Steps, Inert, NoneUsed

\* Handling one transfer is a step of the link.
LEMMA HandlesSteps ==
    ASSUME NEW s, Good(s), NEW i \in 1..Len(s.out), NEW t, Handles(s, t, s.out[i].sdu)
    PROVE  Steps(s, t)
<1>1. s.out[i].sdu \in Sdus
  BY Zenon DEF Good, Transfers, IsTransfer
<1>2. OpenOut(s, i)
  BY DEF Good
<1>3. s.receipt[s.out[i].sdu] # "Unused"
  BY <1>2 DEF OpenOut
<1>4. Touches(s.receipt, t.receipt, s.out[i].sdu)
  BY DEF Handles
<1>5. NoneUsed(s.receipt, t.receipt)
  BY <1>3, <1>4 DEF NoneUsed, Touches
<1> QED
  BY <1>1, <1>5, Zenon DEF Steps, Handles

\* A step before, or after, something inert is a step.
LEMMA InertFirst ==
    ASSUME NEW s, NEW t, NEW u, Inert(s, t), Steps(t, u)
    PROVE  Steps(s, u)
<1>1. t.receipt = s.receipt
  BY DEF Inert
<1> QED
  BY <1>1, Zenon DEF Steps

\* The same with the inert part at the end.
LEMMA InertLast ==
    ASSUME NEW s, NEW t, NEW u, Steps(s, t), Inert(t, u)
    PROVE  Steps(s, u)
<1>1. u.receipt = t.receipt /\ Good(u) /\ OneIn(u)
  BY InertGood DEF Inert, Steps
<1> QED
  BY <1>1, ZenonT(60) DEF Steps

\* T.251 over: the transfer is sent again, waits for a late acknowledgement, or fails.
LEMMA RetransmitSteps ==
    ASSUME NEW s, Good(s), OneIn(s)
    PROVE  Steps(s, Retransmit(s))
<1> DEFINE i == CHOOSE i \in Submitted(s) : TRUE
           m == s.out[i].sdu
           r == Reconcile(s, i)
           t == Retry(r, i)
<1>1. CASE Submitted(s) = {}
  <2>1. Retransmit(s) = s
    BY <1>1, Zenon DEF Retransmit
  <2> QED
    BY <2>1, GoodLike, InertSteps
<1>2. CASE Submitted(s) # {}
  <2>1. Retransmit(s) = t
    BY <1>2, Zenon DEF Retransmit
  <2>2. i \in Submitted(s)
    BY <1>2
  <2> HIDE DEF i
  <2>3. i \in 1..Len(s.out)
    BY <2>2 DEF Submitted
  <2>4. InPlace(s, r, m)
    BY <2>3, ReconcileInPlace
  <2> HIDE DEF r
  <2>5. /\ Submitted(r) \subseteq {i} /\ OneIn(r) /\ Good(r)
        /\ i \in 1..Len(r.out) /\ r.out[i].sdu = m
    <3>1. /\ Submitted(r) \subseteq {i} /\ OneIn(r)
          /\ i \in 1..Len(r.out) /\ r.out[i].sdu = m
      BY <2>2, <2>4, InPlaceOne, Zenon
    <3>2. Good(r)
      BY <2>4, SMTT(30), ZenonT(30) DEF InPlace
    <3> QED
      BY <3>1, <3>2
  <2>6. Handles(r, t, m)
    BY <2>5, RetryHandles
  <2> HIDE DEF t
  <2>7. Handles(s, t, m)
    BY <2>3, <2>4, <2>6, InPlaceThen
  <2> QED
    BY <2>1, <2>3, <2>7, HandlesSteps
<1> QED
  BY <1>1, <1>2

\* tick_end
LEMMA TickedSteps ==
    ASSUME NEW s, Good(s), OneIn(s)
    PROVE  Steps(s, SubmitUnits(SubmitAck(SubmitFree(Retransmit(Aged(Late(s)))))))
<1> DEFINE a == Late(s)
           b == Aged(a)
           c == Retransmit(b)
           d == SubmitFree(c)
           e == SubmitAck(d)
           f == SubmitUnits(e)
<1>1. Inert(s, a) /\ (Good(a) => Inert(a, b))
  BY MacOps, AgedInert, Zenon
<1> HIDE DEF a, b
<1>2. Inert(s, b) /\ Good(b) /\ OneIn(b)
  BY <1>1, InertThen, InertGood, Zenon
<1>3. Steps(b, c)
  BY <1>2, RetransmitSteps
<1> HIDE DEF c
<1>4. Good(d) /\ OneIn(d) /\ d.receipt = c.receipt
  BY <1>3, SubmitFreeGood DEF Steps
<1> HIDE DEF d
<1>5. Steps(b, d)
  BY <1>3, <1>4, Zenon DEF Steps
<1>6. Inert(d, e) /\ (Good(e) => Inert(e, f))
  BY <1>4, SubmitAckInert, SubmitUnitsInert, Zenon
<1> HIDE DEF e, f
<1>7. Inert(d, f)
  BY <1>4, <1>6, InertThen, Zenon
<1>8. Steps(s, f)
  BY <1>2, <1>5, <1>7, InertFirst, InertLast, Zenon
<1> QED
  BY <1>8, Zenon DEF a, b, c, d, e, f

-----------------------------------------------------------------------------
(* Reports and acknowledgements *)

\* The transfer at the UMAC is submitted again.
LEMMA ResubmitHandles ==
    ASSUME NEW s, Good(s), NEW i \in 1..Len(s.out), Submitted(s) \subseteq {i}
    PROVE  Handles(s, FoldAndSubmit(s, i), s.out[i].sdu)
BY FoldAndSubmitGood, Zenon DEF Handles, Touches

\* A transfer's report: sent, or failed and submitted again while it may be.
LEMMA DataReportSteps ==
    ASSUME NEW s, Good(s), OneIn(s), NEW i \in Submitted(s), NEW sent
    PROVE  Steps(s, DataReport(s, i, sent))
<1> DEFINE m == s.out[i].sdu
           k == MarkMac(s, m, "Discarded")
           a == [k EXCEPT !.out[i].done = 0]
           t == [a EXCEPT !.out[i].exhausted = None]
           c == [t EXCEPT !.out[i].count = t.out[i].count + 1]
           l == MarkMac(s, m, "Transmitted")
           v == IF l.out[i].done = None THEN 0 ELSE l.out[i].done
           b == [l EXCEPT !.out[i].done = v]
<1>1. DataReport(s, i, sent) \in {FirstComplete(b, i), FoldAndSubmit(c, i), FailAt(t, i)}
  BY Zenon DEF DataReport
<1>2. i \in 1..Len(s.out)
  BY DEF Submitted
<1>3. Inert(s, k) /\ Inert(s, l)
  BY MacOps, Zenon
<1> HIDE DEF k, l, v
<1>4. (Good(k) => Inert(k, a)) /\ (Good(a) => Inert(a, t)) /\ (Good(t) => Inert(t, c)) /\ (Good(l) => Inert(l, b))
  BY FieldInert, Zenon
<1> HIDE DEF a, b, c, t
<1>5. Inert(s, b) /\ Inert(s, t) /\ Inert(s, c)
  BY <1>3, <1>4, InertThen, Zenon
<1>6. ASSUME NEW u, Inert(s, u)
      PROVE  /\ Good(u) /\ OneIn(u) /\ i \in 1..Len(u.out) /\ u.out[i].sdu = m
             /\ Submitted(u) \subseteq {i} /\ u.receipt = s.receipt
  <2>1. InPlace(s, u, m)
    BY <1>6, InertInPlace
  <2> QED
    BY ZenonT(60), <1>6, <2>1, InPlaceOne DEF InPlace, Inert
<1>7. Steps(s, FirstComplete(b, i))
  <2>1. Good(b) /\ OneIn(b) /\ i \in 1..Len(b.out)
    BY <1>5, <1>6, Zenon
  <2> DEFINE f == FirstComplete(b, i)
  <2>2. InPlace(b, f, b.out[i].sdu)
    BY <2>1, FirstInPlace
  <2> HIDE DEF f
  <2>3. OneIn(f)
    <3>1. \A n \in Submitted(f) : n \in Submitted(b)
      BY <2>2 DEF InPlace, Submitted
    <3> QED
      BY <2>1, <3>1, Zenon DEF OneIn
  <2>4. Handles(b, f, b.out[i].sdu)
    BY <2>2, <2>3, Zenon DEF InPlace, Handles
  <2>5. Steps(b, f)
    BY <2>1, <2>4, HandlesSteps, Zenon
  <2> QED
    BY <1>5, <2>5, InertFirst, Zenon DEF f
<1>8. Steps(s, FoldAndSubmit(c, i))
  <2>1. Good(c) /\ i \in 1..Len(c.out) /\ Submitted(c) \subseteq {i}
    BY <1>5, <1>6, Zenon
  <2>2. Steps(c, FoldAndSubmit(c, i))
    BY <2>1, ResubmitHandles, HandlesSteps, Zenon
  <2> QED
    BY <1>5, <2>2, InertFirst, Zenon
<1>9. Steps(s, FailAt(t, i))
  <2>1. Good(t) /\ OneIn(t) /\ i \in 1..Len(t.out)
    BY <1>5, <1>6, Zenon
  <2>2. Handles(t, FailAt(t, i), t.out[i].sdu)
    BY <2>1, FailAtGood, Zenon DEF Handles
  <2>3. Steps(t, FailAt(t, i))
    BY <2>1, <2>2, HandlesSteps, ZenonT(60)
  <2> QED
    BY <1>5, <2>3, InertFirst, Zenon
<1> QED
  BY <1>1, <1>7, <1>8, <1>9, Zenon

\* A step of the LLC that concerns unacknowledged messages only.
UnitSteps(s, t) ==
    /\ Good(t) /\ OneIn(t) /\ NoneUsed(s.receipt, t.receipt)
    /\ SduReceipts(s.receipt, t.receipt)

\* An unacknowledged message leaves its queue with its outcome.
LEMMA UnitGone ==
    ASSUME NEW s, Good(s), OneIn(s), NEW i \in 1..Len(s.units), NEW st, NEW w, NEW t, Shape(t),
           <<st, w>> \in {<<"Transmitted", "success">>, <<"Discarded", "failed">>},
           t.units = RemoveAt(s.units, i), t.out = s.out,
           t.receipt = Replaced(s.receipt, s.units[i].sdu, st),
           t.told = Replaced(s.told, s.units[i].sdu, Append(s.told[s.units[i].sdu], w))
    PROVE  UnitSteps(s, t)
<1> DEFINE m == s.units[i].sdu
           y == Append(s.told[m], w)
<1>1. st \in States /\ y \in Story(m, st)
  BY Endings DEF States
<1>2. m \in Units /\ s.receipt \in [Messages -> States]
  BY ZenonT(60) DEF Good, Repetitions, IsRepeated, Accounts
<1>3. SduReceipts(s.receipt, t.receipt) /\ NoneUsed(s.receipt, t.receipt)
  <2>1. s.receipt[m] # "Unused"
    BY SMTT(30), ZenonT(30) DEF Good, OpenUnit
  <2>2. t.receipt = [s.receipt EXCEPT ![m] = st]
    BY DEF Replaced
  <2> HIDE DEF m
  <2>3. \A x \in Messages : x # m => t.receipt[x] = s.receipt[x]
    BY <1>2, <2>2
  <2>4. \A x \in Sdus : x \in Messages /\ x # m
    BY <1>2, LinkAssumption DEF Messages
  <2> QED
    BY <2>1, <2>3, <2>4, SMTT(30), ZenonT(30) DEF SduReceipts, NoneUsed
<1> HIDE DEF y
<1>4. Good(t) /\ OneIn(t)
  BY ZenonT(60), <1>1, EndUnit DEF y
<1> QED
  BY <1>3, <1>4, SMTT(30), ZenonT(30) DEF UnitSteps

\* As the report of its last repetition has it: sent, or failed.
LEMMA UnitOutcome ==
    ASSUME NEW s, Good(s), OneIn(s), NEW i \in 1..Len(s.units), NEW q, q = RemoveAt(s.units, i),
           NEW a, Shape(a), a.units = q, a.out = s.out, a.receipt = s.receipt, a.told = s.told
    PROVE  /\ UnitSteps(s, Tell(Sent(a, s.units[i].sdu), s.units[i].sdu, "success"))
           /\ UnitSteps(s, Failed(a, s.units[i].sdu))
<1> DEFINE m == s.units[i].sdu
<1>2. s.receipt[m] = "Pending"
  BY DEF Good, OpenUnit
<1> HIDE DEF m
<1>3. UnitSteps(s, Failed(a, m))
  <2> DEFINE t == Failed(a, m)
  <2>0. t = Failed(a, m)
    OBVIOUS
  <2> HIDE DEF t
  <2>1. /\ Shape(t) /\ t.out = a.out /\ t.units = a.units
        /\ t.receipt = Replaced(a.receipt, m, FailedState(a.receipt[m]))
        /\ t.told = Replaced(a.told, m, Append(a.told[m], "failed"))
    BY <2>0, FailedFacts
  <2>2. FailedState(a.receipt[m]) = "Discarded"
    BY <1>2, SMTT(30), ZenonT(30) DEF FailedState
  <2>3. /\ t.units = q /\ t.out = s.out /\ t.receipt = Replaced(s.receipt, m, "Discarded")
        /\ t.told = Replaced(s.told, m, Append(s.told[m], "failed"))
    BY <2>1, <2>2
  <2>4. <<"Discarded", "failed">> \in {<<"Transmitted", "success">>, <<"Discarded", "failed">>}
    OBVIOUS
  <2>5. UnitSteps(s, t)
    BY <2>1, <2>3, <2>4, UnitGone, ZenonT(60) DEF m
  <2> QED
    BY <2>5 DEF t
<1>4. UnitSteps(s, Tell(Sent(a, m), m, "success"))
  <2> DEFINE r == Replaced(a.receipt, m, "Transmitted")
             b == [a EXCEPT !.receipt = r]
             t == Tell(b, m, "success")
  <2>1. Sent(a, m) = b
    BY <1>2 DEF Sent, Replaced
  <2> HIDE DEF r
  <2>2. Shape(b) /\ b.receipt = r /\ b.out = a.out /\ b.units = a.units /\ b.told = a.told
    BY SetReceipt, SMTT(30), ZenonT(30)
  <2> HIDE DEF b
  <2>3. /\ Shape(t) /\ t.out = b.out /\ t.units = b.units /\ t.receipt = b.receipt
        /\ t.told = Replaced(b.told, m, Append(b.told[m], "success"))
    BY <2>2, TellFacts, SMTT(30), ZenonT(30)
  <2> HIDE DEF t
  <2>4. /\ t.units = q /\ t.out = s.out /\ t.receipt = r
        /\ t.told = Replaced(s.told, m, Append(s.told[m], "success")) /\ a.receipt = s.receipt
    BY <2>2, <2>3
  <2>5. r = Replaced(s.receipt, m, "Transmitted")
    BY <2>4, Zenon DEF r
  <2>6. <<"Transmitted", "success">> \in {<<"Transmitted", "success">>, <<"Discarded", "failed">>}
    OBVIOUS
  <2>7. UnitSteps(s, t)
    BY <2>3, <2>4, <2>5, <2>6, UnitGone, ZenonT(60) DEF m
  <2> QED
    BY <2>1, <2>7 DEF t
<1> QED
  BY <1>3, <1>4, SMTT(30), ZenonT(30) DEF m

\* The UMAC's report of an unacknowledged message.
LEMMA UnitReportSteps ==
    ASSUME NEW s, Good(s), OneIn(s), NEW i \in 1..Len(s.units), NEW sent
    PROVE  UnitSteps(s, UnitReport(s, i, sent))
<1> DEFINE m == s.units[i].sdu
           k == MarkMac(s, m, IF sent THEN "Transmitted" ELSE "Discarded")
           d == Disown(k, m)
           t == [d EXCEPT !.units[i].submitted = FALSE,
                          !.units[i].complete = @ + (IF sent THEN 1 ELSE 0),
                          !.units[i].failed = @ + (IF sent THEN 0 ELSE 1)]
           a == [t EXCEPT !.units = RemoveAt(@, i)]
           z == Tell(Sent(a, m), m, "success")
           f == Failed(a, m)
<1>1. UnitReport(s, i, sent) \in {z, f, t}
  BY Zenon DEF UnitReport
<1>2. Inert(s, k)
  BY MacOps, Zenon
<1> HIDE DEF k
<1>3. Inert(s, d) /\ Good(d)
  <2>1. Good(k) => Inert(k, d)
    BY MacOps, Zenon
  <2> HIDE DEF d
  <2> QED
    BY <1>2, <2>1, InertThen, Zenon
<1> HIDE DEF d
<1> DEFINE x == d.units[i].complete + (IF sent THEN 1 ELSE 0)
           y == d.units[i].failed + (IF sent THEN 0 ELSE 1)
           d1 == [d EXCEPT !.units[i].submitted = FALSE]
           d2 == [d1 EXCEPT !.units[i].complete = x]
           d3 == [d2 EXCEPT !.units[i].failed = y]
<1>30. t = d3
  BY Zenon
<1> HIDE DEF x, y, t
<1>4. Inert(s, d1) /\ Good(d1)
  <2>1. i \in 1..Len(d.units)
    BY <1>3 DEF Inert, LikeUnits
  <2>2. Inert(d, d1)
    BY <1>3, <2>1, UnitFieldInert, Zenon
  <2> HIDE DEF d1
  <2> QED
    BY <1>3, <2>2, InertThen, Zenon
<1> HIDE DEF d1
<1>5. Inert(s, d2) /\ Good(d2)
  <2>1. i \in 1..Len(d1.units)
    BY <1>4 DEF Inert, LikeUnits
  <2>2. Inert(d1, d2)
    BY <1>4, <2>1, UnitFieldInert, Zenon
  <2> HIDE DEF d2
  <2> QED
    BY <1>4, <2>2, InertThen, Zenon
<1> HIDE DEF d2
<1>6. Inert(s, t) /\ Good(t)
  <2>1. i \in 1..Len(d2.units)
    BY <1>5 DEF Inert, LikeUnits
  <2>2. Inert(d2, d3)
    BY <1>5, <2>1, UnitFieldInert, Zenon
  <2>3. Inert(d2, t)
    BY <1>30, <2>2, ZenonT(60)
  <2> QED
    BY <1>5, <2>3, InertThen, Zenon
<1>7. i \in 1..Len(t.units) /\ t.units[i].sdu = m /\ t.receipt = s.receipt /\ OneIn(t)
  BY <1>6, InertGood DEF Inert, LikeUnits
<1> HIDE DEF m
<1> DEFINE q == RemoveAt(t.units, i)
<1>8. a = [t EXCEPT !.units = q]
  OBVIOUS
<1>9. Shape(a) /\ a.units = q /\ a.out = t.out /\ a.receipt = t.receipt /\ a.told = t.told
  <2> HIDE DEF q
  <2> QED
    BY ZenonT(60), <1>6, <1>8, SetUnits DEF Inert
<1> HIDE DEF a
<1>10. UnitSteps(t, z) /\ UnitSteps(t, f)
  <2>1. q = RemoveAt(t.units, i)
    OBVIOUS
  <2> HIDE DEF q
  <2> QED
    BY <1>6, <1>7, <1>9, <2>1, UnitOutcome, Zenon
<1>11. UnitSteps(t, t)
  BY <1>6, <1>7 DEF UnitSteps, SduReceipts, NoneUsed
<1> HIDE DEF z, f
<1>12. UnitSteps(t, UnitReport(s, i, sent))
  BY <1>1, <1>10, <1>11
<1> QED
  BY <1>7, <1>12 DEF UnitSteps

\* rx_tma_report_ind
LEMMA ReportSteps ==
    ASSUME NEW s, Good(s), OneIn(s), NEW m, NEW sent
    PROVE  Steps(s, Report(s, m, sent)) \/ UnitSteps(s, Report(s, m, sent))
<1> DEFINE D == {i \in Submitted(s) : s.out[i].sdu = m}
           U == {i \in 1..Len(s.units) : s.units[i].sdu = m /\ s.units[i].submitted}
           d == CHOOSE i \in D : TRUE
           u == CHOOSE i \in U : TRUE
<1>1. CASE D # {}
  <2>1. d \in Submitted(s)
    BY <1>1
  <2>2. Report(s, m, sent) = DataReport(s, d, sent)
    BY <1>1, Zenon DEF Report
  <2> HIDE DEF d
  <2> QED
    BY <2>1, <2>2, DataReportSteps, Zenon
<1>2. CASE D = {} /\ U # {}
  <2>1. u \in 1..Len(s.units)
    BY <1>2
  <2>2. Report(s, m, sent) = UnitReport(s, u, sent)
    BY <1>2, Zenon DEF Report
  <2> HIDE DEF u
  <2> QED
    BY <2>1, <2>2, UnitReportSteps, Zenon
<1>3. CASE D = {} /\ U = {}
  <2>1. Report(s, m, sent) = s
    BY <1>3, Zenon DEF Report
  <2> QED
    BY <2>1, GoodLike, InertSteps, Zenon
<1> QED
  BY <1>1, <1>2, <1>3, Zenon

\* process_incoming_ack: the acknowledgement ends the transfer, or sends it back to the
\* front of the queue, or fails it.
LEMMA IncomingAckSteps ==
    ASSUME NEW s, Good(s), OneIn(s), NEW n
    PROVE  Steps(s, IncomingAck(s, n))
<1> DEFINE i == CHOOSE i \in Submitted(s) : TRUE
           m == s.out[i].sdu
           r == Reconcile(s, i)
           t == r.out[i]
           early == t.done = None \/ ~t.first
           k == MarkMac(r, t.sdu, "Transmitted")
           e == IF early THEN k ELSE r
           f == FirstComplete(e, i)
           z == Tell(Acknowledged(Drop(f, i), t.sdu), t.sdu, "success")
           d == Disown(r, t.sdu)
           b == [d EXCEPT !.out[i].count = @ + 1, !.out[i].submitted = FALSE,
                          !.out[i].done = None, !.out[i].exhausted = None]
<1>1. CASE Submitted(s) = {}
  <2>1. IncomingAck(s, n) = s
    BY <1>1, Zenon DEF IncomingAck
  <2> QED
    BY <2>1, GoodLike, InertSteps, Zenon
<1>2. CASE Submitted(s) # {}
  <2>1. IncomingAck(s, n) \in {z, ToFront(r, i), ToFront(b, i), FailAt(r, i)}
    BY Zenon, <1>2 DEF IncomingAck
  <2>2. i \in Submitted(s)
    BY <1>2
  <2> HIDE DEF i
  <2>3. i \in 1..Len(s.out)
    BY <2>2 DEF Submitted
  <2>4. InPlace(s, r, m)
    BY <2>3, ReconcileInPlace, Zenon
  <2> HIDE DEF r
  <2>5. Submitted(r) \subseteq {i} /\ OneIn(r) /\ i \in 1..Len(r.out) /\ t.sdu = m
    BY <2>2, <2>4, InPlaceOne, ZenonT(60)
  <2>6. Good(r)
    BY <2>4 DEF InPlace
  <2>7. Handles(r, ToFront(r, i), m)
    BY <2>5, <2>6, ToFrontGood, Zenon DEF Handles, Touches
  <2>8. Handles(r, FailAt(r, i), m)
    BY <2>5, <2>6, FailAtGood, Zenon DEF Handles
  <2>9. Inert(r, e)
    <3>1. Inert(r, k) /\ Inert(r, r)
      BY <2>6, MacOps, GoodLike, ZenonT(60)
    <3> HIDE DEF k
    <3> QED
      BY <3>1
  <2> HIDE DEF e
  <2>10. InPlace(r, e, m) /\ Good(e) /\ OneIn(e) /\ i \in 1..Len(e.out) /\ e.out[i].sdu = m
    <3>1. InPlace(r, e, m) /\ Good(e) /\ OneIn(e)
      BY <2>5, <2>6, <2>9, InertInPlace, InertGood, Zenon
    <3> QED
      BY <2>5, <3>1 DEF InPlace
  <2>11. InPlace(e, f, m) /\ f.out[i].first
    BY <2>10, FirstInPlace, ZenonT(60)
  <2> HIDE DEF f
  <2>12. Good(f) /\ OneIn(f) /\ i \in 1..Len(f.out) /\ f.out[i].sdu = m
    <3>1. \A x \in Submitted(f) : x \in Submitted(e)
      BY <2>11 DEF InPlace, Submitted
    <3>2. OneIn(f)
      BY <2>10, <3>1, Zenon DEF OneIn
    <3> QED
      BY <2>10, <2>11, <3>2, SMTT(30), ZenonT(30) DEF InPlace
  <2>13. Handles(f, z, m)
    <3>1. z = Tell(Acknowledged(Drop(f, i), f.out[i].sdu), f.out[i].sdu, "success")
      BY <2>5, <2>12, ZenonT(60)
    <3> HIDE DEF z
    <3>2. Good(z) /\ OneIn(z) /\ Touches(f.receipt, z.receipt, f.out[i].sdu)
      BY <2>11, <2>12, <3>1, SuccessGood
    <3> QED
      BY <2>12, <3>2, Zenon DEF Handles
  <2> HIDE DEF z
  <2>14. Handles(r, z, m)
    <3>1. Handles(e, z, m)
      BY <2>10, <2>11, <2>13, InPlaceThen, Zenon
    <3> QED
      BY <2>5, <2>6, <2>10, <3>1, InPlaceThen, Zenon
  <2>15. Handles(r, ToFront(b, i), m)
    <3> DEFINE c == d.out[i].count + 1
               b1 == [d EXCEPT !.out[i].count = c]
               b2 == [b1 EXCEPT !.out[i].submitted = FALSE]
               b3 == [b2 EXCEPT !.out[i].done = None]
               b4 == [b3 EXCEPT !.out[i].exhausted = None]
    <3>1. b = b4
      BY Zenon
    <3>2. Inert(r, d)
      BY <2>6, MacOps, Zenon
    <3> HIDE DEF d, b, c
    <3>3. /\ Good(d) => Inert(d, b1)
          /\ Good(b1) => Inert(b1, b2)
          /\ Good(b2) => Inert(b2, b3)
          /\ Good(b3) => Inert(b3, b4)
      BY FieldInert, TakenBackInert, Zenon
    <3> HIDE DEF b1, b2, b3, b4
    <3>4. Inert(r, b4)
      BY <2>6, <3>2, <3>3, InertThen, ZenonT(60)
    <3>5. Good(b) /\ OneIn(b) /\ i \in 1..Len(b.out) /\ b.receipt = r.receipt
      <4>1. Good(b4) /\ OneIn(b4) /\ InPlace(r, b4, m)
        BY <2>5, <2>6, <3>4, InertGood, InertInPlace, Zenon
      <4> QED
        BY <2>5, <3>1, <3>4, <4>1 DEF InPlace, Inert
    <3> DEFINE g == ToFront(b, i)
    <3>6. Good(g) /\ OneIn(g) /\ g.receipt = b.receipt
      BY <3>5, ToFrontGood, Zenon
    <3> HIDE DEF g
    <3> QED
      BY <3>5, <3>6, Zenon DEF Handles, Touches, g
  <2> HIDE DEF b
  <2>16. \A x \in {z, ToFront(r, i), ToFront(b, i), FailAt(r, i)} : Handles(r, x, m)
    BY <2>7, <2>8, <2>14, <2>15, Zenon
  <2>17. Handles(r, IncomingAck(s, n), m)
    BY <2>1, <2>16, Zenon
  <2>18. Handles(s, IncomingAck(s, n), m)
    BY <2>3, <2>4, <2>17, InPlaceThen, Zenon
  <2> QED
    BY <2>3, <2>18, HandlesSteps, Zenon
<1> QED
  BY <1>1, <1>2

\* rx_tma_unitdata_ind_bl
LEMMA InboundSteps ==
    ASSUME NEW s, Good(s), OneIn(s), NEW u, NEW n, NEW ok
    PROVE  Steps(s, Inbound(s, u, n, ok))
<1> DEFINE ns == u % 2
           g == Pruned(s.rx)
           dup == g # None /\ g.ns = ns
           x == IF dup THEN g ELSE [ns |-> ns, age |-> 0]
           y == [nr |-> ns, ind |-> CASE ~dup -> u
                                      [] dup /\ s.ack # None -> s.ack.ind
                                      [] OTHER -> 0]
           z == IF dup THEN s.up ELSE Append(s.up, u)
           d1 == [s EXCEPT !.rx = x]
           d2 == [d1 EXCEPT !.ack = y]
           d == [d2 EXCEPT !.up = z]
           e == [s EXCEPT !.ack = None]
           a == IF ok THEN d ELSE e
<1>1. Inbound(s, u, n, ok) \in {a, IncomingAck(a, n)}
  BY Zenon DEF Inbound
<1> HIDE DEF x, y, z
<1>2. /\ Inert(s, e) /\ Inert(s, d1)
      /\ (Good(d1) => Inert(d1, d2)) /\ (Good(d2) => Inert(d2, d))
  BY IgnoredInert, Zenon
<1> HIDE DEF d1, d2, d, e
<1>3. Inert(s, d)
  BY <1>2, InertThen, Zenon
<1>4. Inert(s, a)
  BY <1>2, <1>3
<1> HIDE DEF a
<1>5. Good(a) /\ OneIn(a)
  BY <1>4, InertGood, Zenon
<1>6. Steps(s, a) /\ Steps(s, IncomingAck(a, n))
  BY <1>4, <1>5, InertSteps, IncomingAckSteps, InertFirst, Zenon
<1> QED
  BY <1>1, <1>6, Zenon

=============================================================================

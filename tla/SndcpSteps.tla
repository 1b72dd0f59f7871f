---------------------------- MODULE SndcpSteps ----------------------------
(***************************************************************************)
(* What each operation of SNDCP keeps and changes, for any number of       *)
(* terminals, NSAPIs, addresses and PDUs: the steps SndcpProofs is made    *)
(* of.                                                                     *)
(***************************************************************************)
EXTENDS SndcpBs, TLAPS

------------------------------------------------------------------------------
(* Numbers, maps and sequences *)

\* The facts about numbers and finite sets that the lemmas rest on. SndcpProofs takes them from
\* the library; here they are a hypothesis, as the prover carries all that is in scope into every
\* obligation.
SetFacts ==
    /\ \A T : T \subseteq Nat /\ T # {} => \E x \in T : \A y \in T : x <= y
    /\ \A S, T : IsFiniteSet(S) /\ T \subseteq S => IsFiniteSet(T)
    /\ \A S : IsFiniteSet(S) => Cardinality(S) \in Nat /\ (Cardinality(S) = 0 <=> S = {})
    /\ \A S, x : IsFiniteSet(S) /\ x \notin S => Cardinality(S \cup {x}) = Cardinality(S) + 1
    /\ \A S, T : IsFiniteSet(S) /\ T \subseteq S =>
                   Cardinality(S \ T) = Cardinality(S) - Cardinality(T)
    /\ IsFiniteSet({})
    /\ \A n \in Nat : IsFiniteSet(1 .. n) /\ Cardinality(1 .. n) = n

\* A set of numbers has a smallest.
LEMMA Smallest ==
    ASSUME SetFacts, NEW T, T \subseteq Nat, T # {}
    PROVE  \E x \in T : \A y \in T : x <= y
BY Zenon DEF SetFacts

\* The numbers of elements of a set, of a part of it and of what the part leaves.
LEMMA Counts ==
    ASSUME SetFacts, NEW S, IsFiniteSet(S), NEW T, T \subseteq S
    PROVE  /\ IsFiniteSet(T) /\ Cardinality(S) \in Nat /\ Cardinality(T) \in Nat
           /\ (Cardinality(T) = 0 <=> T = {})
           /\ Cardinality(S \ T) = Cardinality(S) - Cardinality(T)
BY Zenon DEF SetFacts

\* An element more.
LEMMA CountMore ==
    ASSUME SetFacts, NEW S, IsFiniteSet(S), NEW x, x \notin S
    PROVE  Cardinality(S \cup {x}) = Cardinality(S) + 1
BY Zenon DEF SetFacts

\* The empty set.
LEMMA CountNone ==
    ASSUME SetFacts
    PROVE  IsFiniteSet({}) /\ Cardinality({}) = 0
BY Zenon DEF SetFacts

\* An interval.
LEMMA CountInterval ==
    ASSUME SetFacts, NEW n \in Nat
    PROVE  IsFiniteSet(1 .. n) /\ Cardinality(1 .. n) = n
BY Zenon DEF SetFacts

\* Min gives it.
LEMMA MinFacts ==
    ASSUME SetFacts, NEW T, T \subseteq Nat, T # {}
    PROVE  Min(T) \in T
BY Smallest, Zenon DEF Min

IsMap(f) == f = [x \in DOMAIN f |-> f[x]]

\* An entry more.
LEMMA InsertFacts ==
    ASSUME NEW f, NEW k, NEW v
    PROVE  /\ IsMap(Insert(f, k, v)) /\ DOMAIN Insert(f, k, v) = DOMAIN f \cup {k}
           /\ Insert(f, k, v)[k] = v
           /\ \A x \in DOMAIN f : x # k => Insert(f, k, v)[x] = f[x]
BY Zenon DEF Insert, IsMap

\* Fewer entries.
LEMMA RestrictFacts ==
    ASSUME NEW f, NEW S
    PROVE  /\ IsMap(Restrict(f, S)) /\ DOMAIN Restrict(f, S) = S
           /\ \A x \in S : Restrict(f, S)[x] = f[x]
BY Zenon DEF Restrict, IsMap

------------------------------------------------------------------------------
(* The state machine of a terminal *)

Sane(m) == m \in Machine /\ (m.n = 0 <=> m.st = "Idle")

\* What each event makes of a machine: a new context is always counted, and no event but a
\* deactivation lowers the count.
LEMMA MachineFacts ==
    ASSUME NEW m, Sane(m)
    PROVE  /\ ActivatePdpContext(m) # None
           /\ Sane(ActivatePdpContext(m)) /\ ActivatePdpContext(m).n = m.n + 1
           /\ DeactivatePdpContext(m) # None =>
                Sane(DeactivatePdpContext(m)) /\ m.n > 0 /\ DeactivatePdpContext(m).n = m.n - 1
           /\ DataTransmitRequestReceived(m) # None =>
                Sane(DataTransmitRequestReceived(m)) /\ DataTransmitRequestReceived(m).n = m.n
           /\ EndOfDataReceived(m) # None =>
                Sane(EndOfDataReceived(m)) /\ EndOfDataReceived(m).n = m.n
           /\ ReconnectWithoutDataReceived(m) # None =>
                Sane(ReconnectWithoutDataReceived(m)) /\ ReconnectWithoutDataReceived(m).n = m.n
<1> USE DEF Sane, Machine
<1>1. Sane(ActivatePdpContext(m)) /\ ActivatePdpContext(m).n = m.n + 1
  BY DEF ActivatePdpContext
<1>2. ActivatePdpContext(m) # None
  BY <1>1, PdpAssumption, Zenon
<1>3. DeactivatePdpContext(m) # None =>
        Sane(DeactivatePdpContext(m)) /\ m.n > 0 /\ DeactivatePdpContext(m).n = m.n - 1
  BY DEF DeactivatePdpContext, Idle
<1>4. DataTransmitRequestReceived(m) # None =>
        Sane(DataTransmitRequestReceived(m)) /\ DataTransmitRequestReceived(m).n = m.n
  BY Zenon DEF DataTransmitRequestReceived
<1>5. EndOfDataReceived(m) # None => Sane(EndOfDataReceived(m)) /\ EndOfDataReceived(m).n = m.n
  BY Zenon DEF EndOfDataReceived
<1>6. ReconnectWithoutDataReceived(m) # None =>
        Sane(ReconnectWithoutDataReceived(m)) /\ ReconnectWithoutDataReceived(m).n = m.n
  BY Zenon DEF ReconnectWithoutDataReceived
<1> QED
  BY <1>1, <1>2, <1>3, <1>4, <1>5, <1>6, Zenon

\* The machine after one of several deactivations.
Down(m) == IF DeactivatePdpContext(m) = None THEN m ELSE DeactivatePdpContext(m)

\* The machines after 0, 1 ... n deactivations.
LEMMA DownExists ==
    ASSUME SetFacts, NEW m, NEW n \in Nat
    PROVE  \E f : f = [j \in 0..n |-> IF j = 0 THEN m ELSE Down(f[j - 1])]
<1> DEFINE P(k) == \E f : f = [j \in 0..k |-> IF j = 0 THEN m ELSE Down(f[j - 1])]
           B == {k \in Nat : ~P(k)}
<1>1. SUFFICES ASSUME B # {} PROVE FALSE
  BY Zenon
<1>2. PICK k \in B : \A l \in B : k <= l
  <2>1. B \subseteq Nat
    BY Zenon
  <2> QED
    BY <1>1, <2>1, Smallest, Zenon
<1>3. k # 0
  <2> DEFINE g == [j \in 0..0 |-> m]
  <2>1. g = [j \in 0..0 |-> IF j = 0 THEN m ELSE Down(g[j - 1])]
    OBVIOUS
  <2> QED
    BY <2>1, <1>2, Zenon
<1>4. k - 1 \in Nat /\ k - 1 \notin B
  <2>1. B \subseteq Nat
    BY Zenon
  <2> HIDE DEF B
  <2> QED
    BY <1>2, <1>3, <2>1
<1>5. PICK f : f = [j \in 0..(k - 1) |-> IF j = 0 THEN m ELSE Down(f[j - 1])]
  BY <1>4, Zenon
<1> DEFINE g == [j \in 0..k |-> IF j = k THEN Down(f[k - 1]) ELSE f[j]]
           b == [j \in 0..k |-> IF j = 0 THEN m ELSE Down(g[j - 1])]
<1>6. ASSUME NEW j \in 0..k
      PROVE  g[j] = b[j]
  <2>1. CASE j = 0
    BY <2>1, <1>3, <1>4, <1>5
  <2>2. CASE j = k
    BY <2>2, <1>3, <1>4
  <2>3. CASE j # 0 /\ j # k
    <3>1. j \in 0..(k - 1) /\ j - 1 \in 0..k /\ j - 1 # k
      BY <2>3, <1>4
    <3>2. f[j] = Down(f[j - 1])
      BY <1>5, <2>3, <3>1, Zenon
    <3>3. g[j] = f[j] /\ g[j - 1] = f[j - 1] /\ b[j] = Down(g[j - 1])
      BY <2>3, <3>1, Zenon
    <3> QED
      BY <3>2, <3>3, Zenon
  <2> QED
    BY <2>1, <2>2, <2>3, Zenon
<1>7. g = b
  BY <1>6, Zenon
<1> QED
  BY <1>2, <1>7, Zenon

\* A loop of n deactivations lowers the count by n at most and leaves a machine that fits its
\* count (handle_deactivate_demand removes the contexts first).
LEMMA DeactivatedFacts ==
    ASSUME SetFacts, NEW m, Sane(m), NEW n \in Nat
    PROVE  Sane(Deactivated(m, n)) /\ Deactivated(m, n).n >= m.n - n
<1> DEFINE F(f) == f = [j \in 0..n |-> IF j = 0 THEN m ELSE Down(f[j - 1])]
           after == CHOOSE f : F(f)
<1>1. F(after)
  BY DownExists, ZenonT(60)
<1>2. Deactivated(m, n) = after[n]
  BY Zenon DEF Deactivated, Down
<1> HIDE DEF after
<1> DEFINE B == {j \in 0..n : ~(Sane(after[j]) /\ after[j].n >= m.n - j)}
<1>3. SUFFICES ASSUME B # {} PROVE FALSE
  BY <1>2
<1>4. PICK j \in B : \A l \in B : j <= l
  <2>1. B \subseteq Nat
    OBVIOUS
  <2> QED
    BY <1>3, <2>1, Smallest, Zenon
<1>5. j # 0
  BY <1>1, <1>4 DEF Sane, Machine
<1>6. j - 1 \in 0..n /\ j - 1 \notin B
  BY <1>4, <1>5
<1>7. Sane(after[j - 1]) /\ after[j - 1].n >= m.n - (j - 1)
  BY <1>6, Zenon
<1>8. after[j] = Down(after[j - 1])
  BY <1>1, <1>4, <1>5, Zenon
<1>9. Sane(Down(after[j - 1])) /\ Down(after[j - 1]).n >= after[j - 1].n - 1
  <2> DEFINE x == after[j - 1]
  <2>1. DeactivatePdpContext(x) # None =>
          Sane(DeactivatePdpContext(x)) /\ x.n > 0 /\ DeactivatePdpContext(x).n = x.n - 1
    BY <1>7, MachineFacts, Zenon
  <2> HIDE DEF x
  <2> QED
    BY <1>7, <2>1 DEF Down, Sane, Machine, x
<1>10. Down(after[j - 1]).n >= m.n - j
  BY <1>4, <1>7, <1>9 DEF Sane, Machine
<1> QED
  BY <1>4, <1>8, <1>9, <1>10, Zenon

------------------------------------------------------------------------------
(* The state of SNDCP *)

Shape(s) == s = [ctx |-> s.ctx, sm |-> s.sm, pdch |-> s.pdch, next |-> s.next,
                 handoffs |-> s.handoffs, wap |-> s.wap, keys |-> s.keys]

\* The contexts of a terminal and its machine.
Counted(c, m) == /\ IsMap(c) /\ DOMAIN c \subseteq Nsapis
                 /\ Sane(m) /\ Cardinality(DOMAIN c) <= m.n

Unique(ctx) ==
    \A i, j \in Issis : \A n \in DOMAIN ctx[i], p \in DOMAIN ctx[j] :
        ctx[i][n] \in Pool /\ (ctx[i][n] = ctx[j][p] => i = j /\ n = p)

Contexts(s) ==
    /\ IsMap(s.ctx) /\ DOMAIN s.ctx = Issis /\ IsMap(s.sm) /\ DOMAIN s.sm = Issis
    /\ \A i \in Issis : Counted(s.ctx[i], s.sm[i])
    /\ Unique(s.ctx)

Inverses(wap, keys) ==
    /\ IsMap(wap) /\ IsMap(keys)
    /\ \A h \in DOMAIN wap : wap[h] \in DOMAIN keys /\ keys[wap[h]] = h
    /\ \A k \in DOMAIN keys : keys[k] \in DOMAIN wap /\ wap[keys[k]] = k

\* What is pending has a handle that was given out, and a terminal that is to change channels
\* has a session.
Pending(s) ==
    /\ s.next \in Nat /\ DOMAIN s.handoffs \cup DOMAIN s.wap \subseteq {h \in Nat : h < s.next}
    /\ IsMap(s.handoffs)
    /\ \A h \in DOMAIN s.handoffs : /\ s.handoffs[h].issi \in Issis /\ s.handoffs[h].link \in Links
                                    /\ s.pdch[s.handoffs[h].issi] # None

Good(s) ==
    /\ Shape(s) /\ Contexts(s) /\ s.pdch \in [Issis -> Session \cup {None}]
    /\ Inverses(s.wap, s.keys) /\ Pending(s)

\* What serving terminal i may do: nothing to other terminals, and no step on to the
\* packet-data channel.
Serves(s, t, i) ==
    /\ Good(t) /\ t.next = s.next /\ t.handoffs = s.handoffs
    /\ \A h \in DOMAIN t.wap : h \in DOMAIN s.wap /\ t.wap[h] = s.wap[h]
    /\ DOMAIN t.keys \subseteq DOMAIN s.keys
    /\ \A j \in Issis \ {i} : t.ctx[j] = s.ctx[j] /\ t.sm[j] = s.sm[j] /\ t.pdch[j] = s.pdch[j]
    /\ s.pdch[i] # None => t.pdch[i] # None
    /\ Ready(t, i) => Ready(s, i)

\* Doing nothing serves.
LEMMA ServesSame ==
    ASSUME NEW s, Good(s), NEW i
    PROVE  Serves(s, s, i)
BY Zenon DEF Serves

\* One service after another.
LEMMA ServesTrans ==
    ASSUME NEW i \in Issis, NEW s, NEW t, NEW u, Serves(s, t, i), Serves(t, u, i)
    PROVE  Serves(s, u, i)
<1>1. Good(u) /\ u.next = s.next /\ u.handoffs = s.handoffs
  BY Zenon DEF Serves
<1>2. \A h \in DOMAIN u.wap : h \in DOMAIN s.wap /\ u.wap[h] = s.wap[h]
  BY Zenon DEF Serves
<1>3. DOMAIN u.keys \subseteq DOMAIN s.keys
  BY Zenon DEF Serves
<1>4. \A j \in Issis \ {i} : u.ctx[j] = s.ctx[j] /\ u.sm[j] = s.sm[j] /\ u.pdch[j] = s.pdch[j]
  BY Zenon DEF Serves
<1>5. (s.pdch[i] # None => u.pdch[i] # None) /\ (Ready(u, i) => Ready(s, i))
  BY Zenon DEF Serves
<1> QED
  BY <1>1, <1>2, <1>3, <1>4, <1>5, Zenon DEF Serves

\* The fields after a change of the contexts and machines, of a session, of what is pending.
WithContexts(s, c, m) == [s EXCEPT !.ctx = c, !.sm = m]
WithSessions(s, v) == [s EXCEPT !.pdch = v]
WithPending(s, o, w, k) == [s EXCEPT !.handoffs = o, !.wap = w, !.keys = k]
WithNext(s, n) == [s EXCEPT !.next = n]

\* A step that writes the contexts and the machines changes nothing else.
LEMMA ContextFields ==
    ASSUME NEW s, Shape(s), NEW c, NEW m
    PROVE  LET t == WithContexts(s, c, m)
           IN  /\ Shape(t) /\ t.ctx = c /\ t.sm = m /\ t.pdch = s.pdch /\ t.next = s.next
               /\ t.handoffs = s.handoffs /\ t.wap = s.wap /\ t.keys = s.keys
<1> DEFINE a == [s EXCEPT !.ctx = c]
           t == [s EXCEPT !.ctx = c, !.sm = m]
<1>1. /\ t.ctx = c /\ t.sm = m /\ t.pdch = s.pdch /\ t.next = s.next
      /\ t.handoffs = s.handoffs /\ t.wap = s.wap /\ t.keys = s.keys
  BY Zenon DEF Shape
<1>2. t = [a EXCEPT !.sm = m] /\ Shape(a)
  BY DEF Shape
<1> HIDE DEF a
<1>3. Shape([a EXCEPT !.sm = m])
  BY <1>2 DEF Shape
<1>4. t = WithContexts(s, c, m)
  BY Zenon DEF WithContexts
<1> HIDE DEF t
<1> QED
  BY <1>1, <1>2, <1>3, <1>4, Zenon

\* A step that writes the sessions changes nothing else.
LEMMA SessionField ==
    ASSUME NEW s, Shape(s), NEW v
    PROVE  LET t == WithSessions(s, v)
           IN  /\ Shape(t) /\ t.ctx = s.ctx /\ t.sm = s.sm /\ t.pdch = v /\ t.next = s.next
               /\ t.handoffs = s.handoffs /\ t.wap = s.wap /\ t.keys = s.keys
BY DEF Shape, WithSessions

\* Nor does one that writes the pending maps.
LEMMA PendingFields ==
    ASSUME NEW s, Shape(s), NEW o, NEW w, NEW k
    PROVE  LET t == WithPending(s, o, w, k)
           IN  /\ Shape(t) /\ t.ctx = s.ctx /\ t.sm = s.sm /\ t.pdch = s.pdch /\ t.next = s.next
               /\ t.handoffs = o /\ t.wap = w /\ t.keys = k
<1> DEFINE a == [s EXCEPT !.handoffs = o]
           b == [a EXCEPT !.wap = w]
           t == [s EXCEPT !.handoffs = o, !.wap = w, !.keys = k]
<1>1. /\ t.ctx = s.ctx /\ t.sm = s.sm /\ t.pdch = s.pdch /\ t.next = s.next
      /\ t.handoffs = o /\ t.wap = w /\ t.keys = k
  BY Zenon DEF Shape
<1>2. t = [b EXCEPT !.keys = k]
  BY Zenon
<1>3. Shape(a)
  BY DEF Shape
<1> HIDE DEF a
<1>4. Shape(b)
  BY <1>3 DEF Shape
<1> HIDE DEF b
<1>5. Shape([b EXCEPT !.keys = k])
  BY <1>4 DEF Shape
<1>6. t = WithPending(s, o, w, k)
  BY Zenon DEF WithPending
<1> HIDE DEF t
<1> QED
  BY <1>1, <1>2, <1>5, <1>6, Zenon

\* Nor one that takes the next handle.
LEMMA NextField ==
    ASSUME NEW s, Shape(s), NEW n
    PROVE  LET t == WithNext(s, n)
           IN  /\ Shape(t) /\ t.ctx = s.ctx /\ t.sm = s.sm /\ t.pdch = s.pdch /\ t.next = n
               /\ t.handoffs = s.handoffs /\ t.wap = s.wap /\ t.keys = s.keys
BY DEF Shape, WithNext

\* New contexts and a new machine for terminal i.
LEMMA ContextsServe ==
    ASSUME NEW s, Good(s), NEW i \in Issis, NEW c, NEW m, Counted(c, m), NEW t, Shape(t),
           t.ctx = [s.ctx EXCEPT ![i] = c], t.sm = [s.sm EXCEPT ![i] = m], Unique(t.ctx),
           t.pdch = s.pdch, t.next = s.next, t.handoffs = s.handoffs, t.wap = s.wap,
           t.keys = s.keys
    PROVE  Serves(s, t, i)
<1>1. /\ IsMap(t.ctx) /\ DOMAIN t.ctx = Issis /\ IsMap(t.sm) /\ DOMAIN t.sm = Issis
      /\ t.ctx[i] = c /\ t.sm[i] = m
      /\ \A j \in Issis \ {i} : t.ctx[j] = s.ctx[j] /\ t.sm[j] = s.sm[j]
  BY DEF Good, Contexts, IsMap
<1>2. \A j \in Issis : Counted(t.ctx[j], t.sm[j])
  BY <1>1, Zenon DEF Good, Contexts
<1>3. Contexts(t)
  BY <1>1, <1>2, Zenon DEF Contexts
<1>4. Inverses(t.wap, t.keys) /\ t.pdch \in [Issis -> Session \cup {None}]
  BY Zenon DEF Good
<1>5. Pending(t)
  <2>1. Pending(s)
    BY Zenon DEF Good
  <2> QED
    BY <2>1, Zenon DEF Pending
<1>6. Good(t)
  BY <1>3, <1>4, <1>5, Zenon DEF Good
<1>7. Ready(t, i) => Ready(s, i)
  BY Zenon DEF Ready
<1> QED
  BY <1>1, <1>6, <1>7, Zenon DEF Serves

\* A new session for terminal i.
LEMMA SessionGood ==
    ASSUME NEW s, Good(s), NEW i \in Issis, NEW v \in Session
    PROVE  LET t == [s EXCEPT !.pdch[i] = v]
           IN  /\ Good(t) /\ t.ctx = s.ctx /\ t.sm = s.sm /\ t.next = s.next
               /\ t.handoffs = s.handoffs /\ t.wap = s.wap /\ t.keys = s.keys
               /\ t.pdch[i] = v /\ v # None /\ \A j \in Issis \ {i} : t.pdch[j] = s.pdch[j]
<1> DEFINE p == [s.pdch EXCEPT ![i] = v]
           t == WithSessions(s, p)
<1>1. /\ Shape(t) /\ t.ctx = s.ctx /\ t.sm = s.sm /\ t.pdch = p /\ t.next = s.next
      /\ t.handoffs = s.handoffs /\ t.wap = s.wap /\ t.keys = s.keys
  <2> HIDE DEF p
  <2> QED
    BY SessionField, Zenon DEF Good
<1>2. [s EXCEPT !.pdch[i] = v] = t
  BY Zenon DEF WithSessions
<1>3. p \in [Issis -> Session \cup {None}] /\ p[i] = v /\ \A j \in Issis \ {i} : p[j] = s.pdch[j]
  BY Zenon DEF Good
<1>4. v # None
  BY PdpAssumption, Zenon
<1> HIDE DEF t, p
<1>5. Contexts(t) /\ Inverses(t.wap, t.keys)
  BY <1>1, Zenon DEF Good, Contexts
<1>6. Pending(t)
  <2>1. Pending(s)
    BY Zenon DEF Good
  <2>2. \A h \in DOMAIN t.handoffs : t.pdch[t.handoffs[h].issi] # None
    BY <1>1, <1>3, <1>4, <2>1, ZenonT(60) DEF Pending
  <2> QED
    BY <1>1, <2>1, <2>2, Zenon DEF Pending
<1>7. Good(t)
  BY <1>1, <1>3, <1>5, <1>6, Zenon DEF Good
<1> QED
  BY <1>1, <1>2, <1>3, <1>4, <1>7, Zenon

\* A session by which the terminal is not newly taken to be on the packet-data channel.
LEMMA SessionServes ==
    ASSUME NEW s, Good(s), NEW i \in Issis, NEW v \in Session, v.st = "PdchReady" => Ready(s, i)
    PROVE  /\ Serves(s, [s EXCEPT !.pdch[i] = v], i)
           /\ [s EXCEPT !.pdch[i] = v].pdch[i] = v
<1> DEFINE t == [s EXCEPT !.pdch[i] = v]
<1>1. /\ Good(t) /\ t.ctx = s.ctx /\ t.sm = s.sm /\ t.next = s.next
      /\ t.handoffs = s.handoffs /\ t.wap = s.wap /\ t.keys = s.keys
      /\ t.pdch[i] = v /\ v # None /\ \A j \in Issis \ {i} : t.pdch[j] = s.pdch[j]
  BY SessionGood
<1> HIDE DEF t
<1>2. Ready(t, i) => Ready(s, i)
  BY <1>1, Zenon DEF Ready
<1>3. Serves(s, t, i)
  BY <1>1, <1>2, Zenon DEF Serves
<1> QED
  BY <1>1, <1>3, Zenon DEF t

\* An event of the machine that does not lower its count.
LEMMA IntoServes ==
    ASSUME SetFacts, NEW s, Good(s), NEW i \in Issis, NEW m, m # None => Sane(m) /\ m.n >= s.sm[i].n
    PROVE  Serves(s, Into(s, i, m), i)
<1>1. CASE m = None
  BY <1>1, ServesSame, Zenon DEF Into
<1>2. CASE m # None
  <2> DEFINE x == [s.sm EXCEPT ![i] = m]
             t == WithContexts(s, s.ctx, x)
  <2>1. Into(s, i, m) = t
    <3>1. Into(s, i, m) = [s EXCEPT !.sm = x]
      BY <1>2, Zenon DEF Into
    <3> HIDE DEF x
    <3> QED
      BY <3>1, Zenon DEF Good, Shape, WithContexts
  <2>2. /\ Shape(t) /\ t.ctx = s.ctx /\ t.sm = x /\ t.pdch = s.pdch /\ t.next = s.next
        /\ t.handoffs = s.handoffs /\ t.wap = s.wap /\ t.keys = s.keys
    <3>1. Shape(s)
      BY Zenon DEF Good
    <3> HIDE DEF x
    <3> QED
      BY <3>1, ContextFields
  <2>3. Counted(s.ctx[i], m)
    <3>1. Counted(s.ctx[i], s.sm[i])
      BY Zenon DEF Good, Contexts
    <3>2. Cardinality(DOMAIN s.ctx[i]) \in Nat
      BY <3>1, PdpAssumption, Counts, Zenon DEF Counted
    <3> QED
      BY <1>2, <3>1, <3>2 DEF Counted, Sane, Machine
  <2>4. s.ctx = [s.ctx EXCEPT ![i] = s.ctx[i]]
    BY Zenon DEF Good, Contexts, IsMap
  <2>5. Unique(s.ctx)
    BY Zenon DEF Good, Contexts
  <2> HIDE DEF t
  <2> QED
    BY <2>1, <2>2, <2>3, <2>4, <2>5, ContextsServe, ZenonT(60)
<1> QED
  BY <1>1, <1>2, Zenon

------------------------------------------------------------------------------
(* PDUs *)

\* An address that is given out is of the pool and nobody's: dynamic and static alike.
LEMMA BuildFacts ==
    ASSUME SetFacts, NEW s, NEW want, BuildContext(s, want).k # "ActivateReject"
    PROVE  /\ BuildContext(s, want).addr \in Pool
           /\ ~ AnyIpv4Context(s, BuildContext(s, want).addr)
<1> DEFINE free == {a \in Pool : ~ AnyIpv4Context(s, a)}
<1>1. free # {} => Min(free) \in free
  BY MinFacts, PdpAssumption, Zenon
<1>2. CASE want.t = "Static"
  BY <1>2, Zenon DEF BuildContext, Refuse
<1>3. CASE want.t = "Dynamic"
  <2>1. AllocateDynamicIpv4(s) # None
    BY <1>3, Zenon DEF BuildContext, Refuse
  <2>2. BuildContext(s, want).addr = AllocateDynamicIpv4(s)
    BY <1>3, <2>1, Zenon DEF BuildContext
  <2>3. AllocateDynamicIpv4(s) \in free
    BY <1>1, <2>1, Zenon DEF AllocateDynamicIpv4
  <2> QED
    BY <2>2, <2>3, Zenon
<1>4. CASE want.t \notin {"Static", "Dynamic"}
  BY <1>4, Zenon DEF BuildContext, Refuse
<1> QED
  BY <1>2, <1>3, <1>4, Zenon

\* One more context for terminal i, counted by its machine.
LEMMA NewContextServes ==
    ASSUME SetFacts, NEW s, Good(s), NEW i \in Issis, NEW n \in Nsapis \ DOMAIN s.ctx[i], NEW a \in Pool,
           ~ AnyIpv4Context(s, a)
    PROVE  Serves(s, Into(AddContext(s, i, n, a), i, ActivatePdpContext(s.sm[i])), i)
<1> DEFINE m == ActivatePdpContext(s.sm[i])
           c == Insert(s.ctx[i], n, a)
           x == [s.ctx EXCEPT ![i] = c]
           y == [s.sm EXCEPT ![i] = m]
           t == WithContexts(s, x, y)
<1>0. Counted(s.ctx[i], s.sm[i])
  BY Zenon DEF Good, Contexts
<1>1. m # None /\ Sane(m) /\ m.n = s.sm[i].n + 1
  BY <1>0, MachineFacts, Zenon DEF Counted
<1>2. /\ IsMap(c) /\ DOMAIN c = DOMAIN s.ctx[i] \cup {n} /\ c[n] = a
      /\ \A p \in DOMAIN s.ctx[i] : c[p] = s.ctx[i][p]
  <2> DEFINE f == s.ctx[i]
  <2>1. n \notin DOMAIN f
    BY Zenon
  <2> HIDE DEF f
  <2>2. /\ IsMap(Insert(f, n, a)) /\ DOMAIN Insert(f, n, a) = DOMAIN f \cup {n}
        /\ Insert(f, n, a)[n] = a /\ \A p \in DOMAIN f : Insert(f, n, a)[p] = f[p]
    BY <2>1, Zenon DEF Insert, IsMap
  <2> QED
    BY <2>2, Zenon DEF f
<1>3. Counted(c, m)
  <2> HIDE DEF m, c
  <2>1. IsFiniteSet(DOMAIN s.ctx[i])
    BY <1>0, PdpAssumption, Counts, Zenon DEF Counted
  <2>2. Cardinality(DOMAIN c) = Cardinality(DOMAIN s.ctx[i]) + 1
    BY <1>2, <2>1, CountMore, Zenon
  <2>3. Cardinality(DOMAIN s.ctx[i]) \in Nat
    BY <2>1, Counts, Zenon
  <2> QED
    BY <1>0, <1>1, <1>2, <2>2, <2>3 DEF Counted, Sane, Machine
<1>4. Into(AddContext(s, i, n, a), i, m) = t
  <2>1. AddContext(s, i, n, a) = [s EXCEPT !.ctx = x]
    BY Zenon DEF AddContext
  <2>2. [s EXCEPT !.ctx = x].sm = s.sm
    BY Zenon DEF Good, Shape
  <2> HIDE DEF m, x
  <2>3. Into(AddContext(s, i, n, a), i, m) = [[s EXCEPT !.ctx = x] EXCEPT !.sm = y]
    BY <1>1, <2>1, <2>2, Zenon DEF Into
  <2> HIDE DEF y
  <2> QED
    BY <2>3, Zenon DEF WithContexts
<1>5. /\ Shape(t) /\ t.ctx = x /\ t.sm = y /\ t.pdch = s.pdch /\ t.next = s.next
      /\ t.handoffs = s.handoffs /\ t.wap = s.wap /\ t.keys = s.keys
  <2>1. Shape(s)
    BY Zenon DEF Good
  <2> HIDE DEF x, y
  <2> QED
    BY <2>1, ContextFields
<1>6. Unique(x)
  <2> HIDE DEF c
  <2>1. DOMAIN s.ctx = Issis /\ Unique(s.ctx)
    BY Zenon DEF Good, Contexts
  <2>2. x[i] = c /\ \A j \in Issis \ {i} : x[j] = s.ctx[j]
    BY <2>1, Zenon
  <2>3. \A j \in Issis : \A p \in DOMAIN s.ctx[j] : s.ctx[j][p] # a
    BY Zenon DEF AnyIpv4Context
  <2> HIDE DEF x
  <2>4. \A j \in Issis : \A p \in DOMAIN x[j] :
          (j = i /\ p = n /\ x[j][p] = a) \/ (p \in DOMAIN s.ctx[j] /\ x[j][p] = s.ctx[j][p])
    BY <1>2, <2>2, Zenon
  <2> QED
    BY <2>1, <2>3, <2>4 DEF Unique
<1> HIDE DEF t
<1>7. Serves(s, t, i)
  <2> HIDE DEF m, c
  <2> QED
    BY <1>3, <1>5, <1>6, ContextsServe, Zenon
<1> QED
  BY <1>4, <1>7, Zenon

\* Contexts of terminal i are removed and counted down.
LEMMA DropContextsServes ==
    ASSUME SetFacts, NEW s, Good(s), NEW i \in Issis, NEW g \in SUBSET DOMAIN s.ctx[i]
    PROVE  Serves(s, [s EXCEPT !.ctx[i] = [n \in DOMAIN s.ctx[i] \ g |-> s.ctx[i][n]],
                               !.sm[i] = Deactivated(@, Cardinality(g))], i)
<1> DEFINE m == Deactivated(s.sm[i], Cardinality(g))
           c == [n \in DOMAIN s.ctx[i] \ g |-> s.ctx[i][n]]
           x == [s.ctx EXCEPT ![i] = c]
           y == [s.sm EXCEPT ![i] = m]
           t == WithContexts(s, x, y)
<1>0. Counted(s.ctx[i], s.sm[i])
  BY Zenon DEF Good, Contexts
<1>1. /\ IsFiniteSet(DOMAIN s.ctx[i]) /\ Cardinality(DOMAIN s.ctx[i]) \in Nat
      /\ Cardinality(g) \in Nat
      /\ Cardinality(DOMAIN s.ctx[i] \ g) = Cardinality(DOMAIN s.ctx[i]) - Cardinality(g)
  <2>1. IsFiniteSet(DOMAIN s.ctx[i])
    BY <1>0, PdpAssumption, Counts, Zenon DEF Counted
  <2> QED
    BY <2>1, Counts, Zenon
<1>2. Sane(m) /\ m.n >= s.sm[i].n - Cardinality(g)
  BY <1>0, <1>1, DeactivatedFacts, Zenon DEF Counted
<1>3. Counted(c, m)
  <2>1. IsMap(c) /\ DOMAIN c = DOMAIN s.ctx[i] \ g
    BY Zenon DEF IsMap
  <2> HIDE DEF m, c
  <2> QED
    BY <1>0, <1>1, <1>2, <2>1 DEF Counted, Sane, Machine
<1>4. [s EXCEPT !.ctx[i] = c, !.sm[i] = Deactivated(@, Cardinality(g))] = t
  <2> HIDE DEF c
  <2>1. [s EXCEPT !.ctx[i] = c].sm = s.sm
    BY Zenon DEF Good, Shape
  <2> QED
    BY <2>1, Zenon DEF WithContexts
<1>5. /\ Shape(t) /\ t.ctx = x /\ t.sm = y /\ t.pdch = s.pdch /\ t.next = s.next
      /\ t.handoffs = s.handoffs /\ t.wap = s.wap /\ t.keys = s.keys
  <2>1. Shape(s)
    BY Zenon DEF Good
  <2> HIDE DEF x, y
  <2> QED
    BY <2>1, ContextFields
<1>6. Unique(x)
  <2>1. DOMAIN s.ctx = Issis /\ Unique(s.ctx)
    BY Zenon DEF Good, Contexts
  <2>2. \A j \in Issis : \A p \in DOMAIN x[j] : p \in DOMAIN s.ctx[j] /\ x[j][p] = s.ctx[j][p]
    BY <2>1, Zenon
  <2> HIDE DEF x
  <2> QED
    BY <2>1, <2>2 DEF Unique
<1> HIDE DEF t, m
<1>7. Serves(s, t, i)
  <2> HIDE DEF c
  <2> QED
    BY <1>3, <1>5, <1>6, ContextsServe, Zenon
<1> QED
  BY <1>4, <1>7, Zenon

\* A terminal asks for a context.
LEMMA ActivateServes ==
    ASSUME SetFacts, NEW s, Good(s), NEW i \in Issis, NEW d, d.nsapi \in Nsapis
    PROVE  Serves(s, HandleActivateDemand(s, i, d).s, i)
<1> DEFINE new == BuildContext(s, d.want)
           t == Into(AddContext(s, i, d.nsapi, new.addr), i, ActivatePdpContext(s.sm[i]))
           r == HandleActivateDemand(s, i, d)
<1>1. Serves(s, s, i)
  BY ServesSame, Zenon
<1>2. ASSUME d.nsapi \notin DOMAIN s.ctx[i], new.k # "ActivateReject"
      PROVE  Serves(s, t, i)
  <2>1. new.addr \in Pool /\ ~ AnyIpv4Context(s, new.addr)
    BY <1>2, BuildFacts, Zenon
  <2> HIDE DEF new
  <2> QED
    BY <1>2, <2>1, NewContextServes, Zenon
<1>3. r.s = s \/ (d.nsapi \notin DOMAIN s.ctx[i] /\ new.k # "ActivateReject" /\ r.s = t)
  <2> HIDE DEF new, t
  <2> QED
    BY Zenon DEF HandleActivateDemand, Say, new, t
<1> HIDE DEF t, r
<1> QED
  BY <1>1, <1>2, <1>3, Zenon DEF r

\* A terminal gives up contexts.
LEMMA DeactivateServes ==
    ASSUME SetFacts, NEW s, Good(s), NEW i \in Issis, NEW d
    PROVE  Serves(s, HandleDeactivateDemand(s, i, d).s, i)
<1> DEFINE g == IF d.nsapi = None THEN DOMAIN s.ctx[i] ELSE {d.nsapi} \cap DOMAIN s.ctx[i]
           t == [s EXCEPT !.ctx[i] = [n \in DOMAIN s.ctx[i] \ g |-> s.ctx[i][n]],
                          !.sm[i] = Deactivated(@, Cardinality(g))]
<1>1. g \in SUBSET DOMAIN s.ctx[i]
  BY Zenon
<1>2. HandleDeactivateDemand(s, i, d).s = t
  BY Zenon DEF HandleDeactivateDemand, Say
<1> HIDE DEF g
<1>3. Serves(s, t, i)
  BY <1>1, DropContextsServes, Zenon
<1> QED
  BY <1>2, <1>3, Zenon

\* What the bearer manager and the WAP session do to the machine of a terminal.
LEMMA EventsServe ==
    ASSUME SetFacts, NEW s, Good(s), NEW i \in Issis
    PROVE  /\ Serves(s, Into(s, i, DataTransmitRequestReceived(s.sm[i])), i)
           /\ Serves(s, Into(s, i, EndOfDataReceived(s.sm[i])), i)
           /\ Serves(s, Into(s, i, ReconnectWithoutDataReceived(s.sm[i])), i)
           /\ ReconnectReceived(s.sm[i]) # None =>
                Serves(s, Into(s, i, DataTransmitRequestReceived(ReconnectReceived(s.sm[i]))), i)
<1> DEFINE m == s.sm[i]
<1>1. Sane(m) /\ m.n \in Nat
  BY Zenon DEF Good, Contexts, Counted, Sane, Machine
<1> HIDE DEF m
<1>2. /\ DataTransmitRequestReceived(m) # None =>
           Sane(DataTransmitRequestReceived(m)) /\ DataTransmitRequestReceived(m).n = m.n
      /\ EndOfDataReceived(m) # None => Sane(EndOfDataReceived(m)) /\ EndOfDataReceived(m).n = m.n
      /\ ReconnectWithoutDataReceived(m) # None =>
           Sane(ReconnectWithoutDataReceived(m)) /\ ReconnectWithoutDataReceived(m).n = m.n
  BY <1>1, MachineFacts, Zenon
<1> DEFINE e == EndOfDataReceived(m)
           a == DataTransmitRequestReceived(e)
<1>3. e # None /\ a # None => Sane(a) /\ a.n = m.n
  <2>1. e # None => Sane(e) /\ e.n = m.n
    BY <1>2, Zenon
  <2> HIDE DEF e
  <2>2. Sane(e) => (a # None => Sane(a) /\ a.n = e.n)
    BY MachineFacts, Zenon
  <2> HIDE DEF a
  <2> QED
    BY <2>1, <2>2, Zenon
<1>4. /\ DataTransmitRequestReceived(m) # None =>
           Sane(DataTransmitRequestReceived(m)) /\ DataTransmitRequestReceived(m).n >= s.sm[i].n
      /\ e # None => Sane(e) /\ e.n >= s.sm[i].n
      /\ ReconnectWithoutDataReceived(m) # None =>
           Sane(ReconnectWithoutDataReceived(m)) /\ ReconnectWithoutDataReceived(m).n >= s.sm[i].n
      /\ e # None /\ a # None => Sane(a) /\ a.n >= s.sm[i].n
  <2> HIDE DEF a
  <2> QED
    BY <1>1, <1>2, <1>3 DEF m
<1>5. Serves(s, Into(s, i, DataTransmitRequestReceived(m)), i)
  BY <1>4, IntoServes, Zenon
<1>6. Serves(s, Into(s, i, e), i)
  <2> HIDE DEF e
  <2> QED
    BY <1>4, IntoServes, Zenon
<1>7. Serves(s, Into(s, i, ReconnectWithoutDataReceived(m)), i)
  BY <1>4, IntoServes, Zenon
<1>8. e # None => Serves(s, Into(s, i, a), i)
  <2> HIDE DEF e, a
  <2> QED
    BY <1>4, IntoServes, Zenon
<1> QED
  BY <1>5, <1>6, <1>7, <1>8, Zenon DEF m, ReconnectReceived

\* A terminal asks for the channel, with a context or with one that is recovered for it.
LEMMA RequestServes ==
    ASSUME SetFacts, NEW s, Good(s), NEW i \in Issis, NEW n \in Nsapis
    PROVE  Serves(s, HandleDataTransmitRequest(s, i, n).s, i)
<1>1. ASSUME NEW u, Good(u)
      PROVE  Serves(u, HandleMsDataTransmitRequest(u, i, n).s, i)
  <2> DEFINE t == Into(u, i, DataTransmitRequestReceived(u.sm[i]))
             x == HandleMsDataTransmitRequest(u, i, n)
  <2>1. Serves(u, t, i) /\ Serves(u, u, i)
    BY <1>1, EventsServe, ServesSame, Zenon
  <2>2. x.s = u \/ x.s = t
    <3> HIDE DEF t
    <3> QED
      BY Zenon DEF HandleMsDataTransmitRequest, Say, t
  <2> HIDE DEF t, x
  <2> QED
    BY <2>1, <2>2, Zenon DEF x
<1> DEFINE d == [nsapi |-> n, want |-> [t |-> "Dynamic"], ms |-> "A"]
           c == RecoverMissingContext(s, i, n)
<1>2. Serves(s, c.s, i)
  <2>1. d.nsapi \in Nsapis
    BY Zenon
  <2> HIDE DEF d
  <2>2. Serves(s, HandleActivateDemand(s, i, d).s, i) /\ Serves(s, s, i)
    BY <2>1, ActivateServes, ServesSame, Zenon
  <2>3. c.s = s \/ c = HandleActivateDemand(s, i, d)
    BY Zenon DEF RecoverMissingContext, Say, d
  <2> HIDE DEF c
  <2> QED
    BY <2>2, <2>3, Zenon
<1> HIDE DEF c
<1>3. Serves(s, HandleMsDataTransmitRequest(c.s, i, n).s, i)
  <2>1. Good(c.s)
    BY <1>2, Zenon DEF Serves
  <2> QED
    BY <1>1, <1>2, <2>1, ServesTrans, Zenon
<1>4. \/ HandleDataTransmitRequest(s, i, n) = c
      \/ HandleDataTransmitRequest(s, i, n) = HandleMsDataTransmitRequest(c.s, i, n)
  BY Zenon DEF HandleDataTransmitRequest, c
<1> QED
  BY <1>2, <1>3, <1>4, Zenon

\* Every PDU of a terminal serves it alone.
LEMMA InboundServes ==
    ASSUME SetFacts, NEW s, Good(s), NEW i \in Issis, NEW d,
           d.k \in {"Activate", "Request"} => d.nsapi \in Nsapis,
           d.k = "Reconnect" => d.nsapi \in Nsapis \cup {None}
    PROVE  Serves(s, HandleInboundPdu(s, i, d).s, i)
<1> DEFINE x == HandleInboundPdu(s, i, d)
<1>1. Serves(s, s, i)
  BY ServesSame, Zenon
<1>2. CASE d.k = "Activate"
  BY <1>2, ActivateServes, Zenon DEF HandleInboundPdu
<1>3. CASE d.k = "Deactivate"
  <2>1. x = HandleDeactivateDemand(s, i, d)
    BY <1>3, Zenon DEF HandleInboundPdu
  <2> QED
    BY <2>1, DeactivateServes, Zenon
<1>4. CASE d.k = "Request"
  <2>1. x = HandleDataTransmitRequest(s, i, d.nsapi)
    BY <1>4, Zenon DEF HandleInboundPdu
  <2> QED
    BY <1>4, <2>1, RequestServes, Zenon
<1>5. CASE d.k = "EndOfData"
  <2> DEFINE t == Into(s, i, EndOfDataReceived(s.sm[i]))
  <2>1. x = HandleEndOfData(s, i, d.immediate)
    BY <1>5, Zenon DEF HandleInboundPdu
  <2>2. Serves(s, t, i)
    BY EventsServe, Zenon
  <2> HIDE DEF t
  <2>3. x.s = s \/ x.s = t
    BY <2>1 DEF HandleEndOfData, Say, t
  <2> QED
    BY <1>1, <2>2, <2>3, Zenon
<1>6. CASE d.k = "Reconnect"
  <2> DEFINE t == Into(s, i, ReconnectWithoutDataReceived(s.sm[i]))
             u == Into(s, i, ReconnectReceived(s.sm[i]))
             v == Into(s, i, DataTransmitRequestReceived(ReconnectReceived(s.sm[i])))
             y == ReconnectWithData(s, i, d.nsapi)
  <2>1. x = HandleReconnect(s, i, d.nsapi)
    BY <1>6, Zenon DEF HandleInboundPdu
  <2>2. Serves(s, t, i) /\ Serves(s, u, i) /\ (ReconnectReceived(s.sm[i]) # None => Serves(s, v, i))
    BY EventsServe, Zenon DEF ReconnectReceived
  <2> HIDE DEF t, u, v
  <2>3. y.s = s \/ y.s = u \/ (ReconnectReceived(s.sm[i]) # None /\ y.s = v)
    BY Zenon DEF ReconnectWithData, Say, u, v
  <2>4. Serves(s, y.s, i)
    <3> HIDE DEF y
    <3> QED
      BY <1>1, <2>2, <2>3, Zenon
  <2>5. \/ d.nsapi = None /\ (x.s = s \/ x.s = t)
        \/ d.nsapi # None /\ (x = HandleDataTransmitRequest(s, i, d.nsapi) \/ x = y)
    <3> HIDE DEF y
    <3> QED
      BY <2>1 DEF HandleReconnect, Say, t, y
  <2> HIDE DEF x, y
  <2>6. d.nsapi # None => Serves(s, HandleDataTransmitRequest(s, i, d.nsapi).s, i)
    BY <1>6, RequestServes, Zenon
  <2> QED
    BY <1>1, <2>2, <2>4, <2>5, <2>6, Zenon DEF x
<1>7. CASE d.k = "Unitdata"
  <2>1. x.s = s
    BY <1>7, Zenon DEF HandleInboundPdu, HandleUnitdata, Say
  <2> QED
    BY <1>1, <2>1, Zenon
<1>8. CASE d.k \notin {"Activate", "Deactivate", "Request", "EndOfData", "Reconnect", "Unitdata"}
  <2>1. x.s = s
    BY <1>8, Zenon DEF HandleInboundPdu, Say
  <2> QED
    BY <1>1, <2>1, Zenon
<1> QED
  BY <1>2, <1>3, <1>4, <1>5, <1>6, <1>7, <1>8, Zenon

------------------------------------------------------------------------------
(* Sessions and pending maps *)

\* Terminal i returns to the common control channel.
LEMMA CommonControlServes ==
    ASSUME NEW s, Good(s), NEW i \in Issis, NEW link \in Links
    PROVE  /\ Serves(s, MarkCommonControlOnLink(s, i, link), i)
           /\ MarkCommonControlOnLink(s, i, link).pdch[i] # None
           /\ Serves(s, MarkCommonControl(s, i), i)
           /\ Serves(s, ReturnToCommonControl(s, i).s, i)
           /\ Serves(s, EnsureSession(s, i, link), i)
           /\ EnsureSession(s, i, link).pdch[i] # None
<1> DEFINE v == On(link, "CommonControl")
           w == On(0, "CommonControl")
<1>1. v \in Session /\ w \in Session /\ v # None /\ v.st # "PdchReady" /\ w.st # "PdchReady"
  BY PdpAssumption DEF On, Session, Links
<1> HIDE DEF v, w
<1>2. /\ Serves(s, [s EXCEPT !.pdch[i] = v], i) /\ [s EXCEPT !.pdch[i] = v].pdch[i] = v
      /\ Serves(s, [s EXCEPT !.pdch[i] = w], i)
  BY <1>1, SessionServes, Zenon
<1> DEFINE x == [s EXCEPT !.pdch[i] = v]
           y == [s EXCEPT !.pdch[i] = w]
<1>3. MarkCommonControlOnLink(s, i, link) = x /\ MarkCommonControl(s, i) = y
  BY Zenon DEF MarkCommonControlOnLink, MarkCommonControl, v, w
<1> HIDE DEF x, y
<1>4. ReturnToCommonControl(s, i).s \in {s, y}
  BY <1>3, Zenon DEF ReturnToCommonControl
<1>5. EnsureSession(s, i, link) = IF s.pdch[i] = None THEN x ELSE s
  BY Zenon DEF EnsureSession, x, v
<1>6. Serves(s, s, i)
  BY ServesSame, Zenon
<1>7. Serves(s, x, i) /\ Serves(s, y, i) /\ x.pdch[i] # None
  BY <1>1, <1>2, Zenon DEF x, y
<1> QED
  BY <1>3, <1>4, <1>5, <1>6, <1>7, Zenon

\* A terminal that asks again is served.
LEMMA PrepareRetryServes ==
    ASSUME SetFacts, NEW s, Good(s), NEW i \in Issis, NEW link \in Links
    PROVE  Serves(s, PrepareRetry(s, i, link), i)
<1> DEFINE b == MarkReadyBearerTemporarilyBroken(s, i)
           t == Into(s, i, ReconnectWithoutDataReceived(s.sm[i]))
           c == MarkCommonControlOnLink(b, i, link)
<1>1. Serves(s, s, i) /\ Serves(s, t, i)
  BY ServesSame, EventsServe, Zenon
<1>2. Serves(s, b, i)
  <2> HIDE DEF t
  <2>1. b = s \/ b = t
    BY Zenon DEF MarkReadyBearerTemporarilyBroken, t
  <2> QED
    BY <1>1, <2>1, Zenon
<1> HIDE DEF b
<1>3. Serves(s, c, i)
  <2>1. Good(b)
    BY <1>2, Zenon DEF Serves
  <2>2. Serves(b, c, i)
    BY <2>1, CommonControlServes, Zenon
  <2> QED
    BY <1>2, <2>2, ServesTrans, Zenon
<1>4. PrepareRetry(s, i, link) \in {s, b, c}
  <2> HIDE DEF c
  <2> QED
    BY Zenon DEF PrepareRetry, b, c
<1> HIDE DEF c
<1> QED
  BY <1>1, <1>2, <1>3, <1>4, Zenon

\* New maps of what is pending.
LEMMA PendingGood ==
    ASSUME NEW s, Good(s), NEW o, NEW w, NEW k, IsMap(o), Inverses(w, k),
           \A h \in DOMAIN o : /\ h \in Nat /\ h < s.next /\ o[h].issi \in Issis
                               /\ o[h].link \in Links /\ s.pdch[o[h].issi] # None,
           \A h \in DOMAIN w : h \in Nat /\ h < s.next
    PROVE  LET t == WithPending(s, o, w, k)
           IN  /\ Good(t) /\ t.ctx = s.ctx /\ t.sm = s.sm /\ t.pdch = s.pdch /\ t.next = s.next
               /\ t.handoffs = o /\ t.wap = w /\ t.keys = k
<1> DEFINE t == WithPending(s, o, w, k)
<1>1. /\ Shape(t) /\ t.ctx = s.ctx /\ t.sm = s.sm /\ t.pdch = s.pdch /\ t.next = s.next
      /\ t.handoffs = o /\ t.wap = w /\ t.keys = k
  BY PendingFields DEF Good
<1> HIDE DEF t
<1>2. Contexts(t) /\ t.pdch \in [Issis -> Session \cup {None}] /\ Inverses(t.wap, t.keys)
  BY <1>1, Zenon DEF Good, Contexts
<1>3. s.next \in Nat
  BY Zenon DEF Good, Pending
<1>4. Pending(t)
  BY <1>1, <1>3, Zenon DEF Pending
<1>5. Good(t)
  BY <1>1, <1>2, <1>4, Zenon DEF Good
<1> QED
  BY <1>1, <1>5, Zenon DEF t

\* A transaction is forgotten with its key.
LEMMA ForgetKey ==
    ASSUME NEW w, NEW k, Inverses(w, k), NEW h \in DOMAIN w
    PROVE  Inverses(Restrict(w, DOMAIN w \ {h}), Restrict(k, DOMAIN k \ {w[h]}))
BY DEF Inverses, Restrict, IsMap

\* finish_wap_response serves whichever terminal.
LEMMA FinishServes ==
    ASSUME NEW s, Good(s), NEW i, NEW h
    PROVE  /\ Serves(s, FinishWapResponse(s, h), i)
           /\ h \in DOMAIN s.wap => s.wap[h] \notin DOMAIN FinishWapResponse(s, h).keys
           /\ FinishWapResponse(s, h).pdch = s.pdch
<1>1. CASE h \notin DOMAIN s.wap
  BY <1>1, ServesSame, Zenon DEF FinishWapResponse
<1>2. CASE h \in DOMAIN s.wap
  <2> DEFINE w == Restrict(s.wap, DOMAIN s.wap \ {h})
             k == Restrict(s.keys, DOMAIN s.keys \ {s.wap[h]})
             t == WithPending(s, s.handoffs, w, k)
  <2>1. Inverses(w, k)
    BY <1>2, ForgetKey, Zenon DEF Good
  <2>2. /\ DOMAIN w = DOMAIN s.wap \ {h} /\ DOMAIN k = DOMAIN s.keys \ {s.wap[h]}
        /\ \A x \in DOMAIN w : w[x] = s.wap[x]
    BY RestrictFacts, SMTT(30)
  <2>3. FinishWapResponse(s, h) = t
    <3>1. Shape(s)
      BY Zenon DEF Good
    <3>2. FinishWapResponse(s, h) = [s EXCEPT !.wap = w, !.keys = k]
      BY <1>2, <3>1, Zenon DEF FinishWapResponse, Shape
    <3> HIDE DEF w, k
    <3> QED
      BY <3>1, <3>2, Zenon DEF WithPending, Shape
  <2> HIDE DEF w, k
  <2>4. \A x \in DOMAIN w : x \in Nat /\ x < s.next
    BY <2>2, Zenon DEF Good, Pending
  <2>5. /\ IsMap(s.handoffs)
        /\ \A x \in DOMAIN s.handoffs : /\ x \in Nat /\ x < s.next /\ s.handoffs[x].issi \in Issis
                                        /\ s.handoffs[x].link \in Links
                                        /\ s.pdch[s.handoffs[x].issi] # None
    BY Zenon DEF Good, Pending
  <2>6. /\ Good(t) /\ t.ctx = s.ctx /\ t.sm = s.sm /\ t.pdch = s.pdch /\ t.next = s.next
        /\ t.handoffs = s.handoffs /\ t.wap = w /\ t.keys = k
    BY <2>1, <2>4, <2>5, PendingGood
  <2> HIDE DEF t
  <2>7. Serves(s, t, i)
    BY <2>2, <2>6, Zenon DEF Serves, Ready
  <2> QED
    BY <2>2, <2>3, <2>6, <2>7, Zenon
<1> QED
  BY <1>1, <1>2, Zenon

------------------------------------------------------------------------------
(* Responses *)

\* The state and the response to terminal i under handle h: what is new is about i and has
\* that handle, and a new hand-over goes with an allocation.
Responds(s, x, i, h) ==
    /\ Good(x.s) /\ x.s.next = s.next
    /\ \A j \in Issis \ {i} : x.s.ctx[j] = s.ctx[j] /\ x.s.sm[j] = s.sm[j] /\ x.s.pdch[j] = s.pdch[j]
    /\ Ready(x.s, i) => Ready(s, i) \/ work.assume
    /\ \A g \in DOMAIN x.s.wap : \/ g \in DOMAIN s.wap /\ x.s.wap[g] = s.wap[g]
                                 \/ x.s.wap[g].issi = i
    /\ \A g \in DOMAIN x.s.handoffs :
         \/ g \in DOMAIN s.handoffs /\ x.s.handoffs[g] = s.handoffs[g]
         \/ g = h /\ x.s.handoffs[g].issi = i /\ (x.rep # None => x.rep.chan = "Replace")
    /\ x.rep # None => x.h = h /\ x.rep.issi = i

\* A service with a response that promises nothing.
LEMMA ServesResponds ==
    ASSUME NEW s, NEW i, NEW h, NEW x, Serves(s, x.s, i), x.rep # None => x.h = h /\ x.rep.issi = i
    PROVE  Responds(s, x, i, h)
BY Zenon DEF Serves, Responds

\* A response after a service.
LEMMA ServesThenResponds ==
    ASSUME NEW s, NEW t, NEW i, NEW h, NEW x, Serves(s, t, i), Responds(t, x, i, h)
    PROVE  Responds(s, x, i, h)
<1>1. Good(x.s) /\ x.s.next = s.next /\ (Ready(x.s, i) => Ready(s, i) \/ work.assume)
  BY Zenon DEF Serves, Responds
<1>2. \A j \in Issis \ {i} : x.s.ctx[j] = s.ctx[j] /\ x.s.sm[j] = s.sm[j] /\ x.s.pdch[j] = s.pdch[j]
  BY Zenon DEF Serves, Responds
<1>3. \A g \in DOMAIN x.s.wap : \/ g \in DOMAIN s.wap /\ x.s.wap[g] = s.wap[g]
                                \/ x.s.wap[g].issi = i
  BY Zenon DEF Serves, Responds
<1>4. \A g \in DOMAIN x.s.handoffs :
         \/ g \in DOMAIN s.handoffs /\ x.s.handoffs[g] = s.handoffs[g]
         \/ g = h /\ x.s.handoffs[g].issi = i /\ (x.rep # None => x.rep.chan = "Replace")
  BY Zenon DEF Serves, Responds
<1> QED
  BY <1>1, <1>2, <1>3, <1>4, Zenon DEF Responds

\* A handle that was just given out.
Fresh(s, h) == h \in Nat /\ h < s.next /\ h \notin DOMAIN s.wap \cup DOMAIN s.handoffs

\* A WAP response is tracked under a fresh handle and a key that nothing is pending for.
LEMMA TrackWapResponds ==
    ASSUME NEW s, Good(s), NEW i \in Issis, NEW h, Fresh(s, h), NEW key, key \notin DOMAIN s.keys,
           key.issi = i, NEW x, x.s = TrackWapResponse(s, h, key),
           x.rep # None => x.h = h /\ x.rep.issi = i
    PROVE  Responds(s, x, i, h)
<1> DEFINE w == Insert(s.wap, h, key)
           k == Insert(s.keys, key, h)
           t == WithPending(s, s.handoffs, w, k)
<1>1. Inverses(w, k)
  <2>1. Inverses(s.wap, s.keys) /\ h \notin DOMAIN s.wap
    BY Zenon DEF Good, Fresh
  <2> QED
    BY <2>1 DEF Inverses, Insert, IsMap
<1>2. /\ DOMAIN w = DOMAIN s.wap \cup {h} /\ w[h] = key
      /\ \A g \in DOMAIN s.wap : g # h => w[g] = s.wap[g]
  BY InsertFacts, Zenon DEF Insert
<1>3. TrackWapResponse(s, h, key) = t
  <2>1. Shape(s)
    BY Zenon DEF Good
  <2>2. TrackWapResponse(s, h, key) = [s EXCEPT !.wap = w, !.keys = k]
    BY <2>1, Zenon DEF TrackWapResponse, Shape
  <2> HIDE DEF w, k
  <2> QED
    BY <2>1, <2>2, Zenon DEF WithPending, Shape
<1> HIDE DEF w, k
<1>4. \A g \in DOMAIN w : g \in Nat /\ g < s.next
  BY <1>2, Zenon DEF Good, Pending, Fresh
<1>5. /\ IsMap(s.handoffs)
      /\ \A g \in DOMAIN s.handoffs : /\ g \in Nat /\ g < s.next /\ s.handoffs[g].issi \in Issis
                                      /\ s.handoffs[g].link \in Links
                                      /\ s.pdch[s.handoffs[g].issi] # None
  BY Zenon DEF Good, Pending
<1>6. /\ Good(t) /\ t.ctx = s.ctx /\ t.sm = s.sm /\ t.pdch = s.pdch /\ t.next = s.next
      /\ t.handoffs = s.handoffs /\ t.wap = w /\ t.keys = k
  BY <1>1, <1>4, <1>5, PendingGood
<1> HIDE DEF t
<1>7. x.s = t
  BY <1>3, Zenon
<1> QED
  BY <1>2, <1>6, <1>7, SMTT(30) DEF Responds, Ready

\* A hand-over is tracked under a fresh handle.
LEMMA TrackHandoffResponds ==
    ASSUME NEW s, Good(s), NEW i \in Issis, NEW link \in Links, NEW h, Fresh(s, h),
           s.pdch[i] # None, NEW x, x.s = TrackHandoff(s, h, i, link),
           x.rep # None => x.h = h /\ x.rep.issi = i /\ x.rep.chan = "Replace"
    PROVE  Responds(s, x, i, h)
<1> DEFINE e == [issi |-> i, link |-> link]
           o == Insert(s.handoffs, h, e)
           t == WithPending(s, o, s.wap, s.keys)
<1>1. e.issi = i /\ e.link = link
  BY Zenon
<1>2. TrackHandoff(s, h, i, link) = t
  <2>1. Shape(s)
    BY Zenon DEF Good
  <2>2. TrackHandoff(s, h, i, link) = [s EXCEPT !.handoffs = o]
    BY <2>1, Zenon DEF TrackHandoff, Shape
  <2> HIDE DEF o
  <2> QED
    BY <2>1, <2>2, Zenon DEF WithPending, Shape
<1> HIDE DEF e
<1>3. /\ IsMap(o) /\ DOMAIN o = DOMAIN s.handoffs \cup {h} /\ o[h] = e
      /\ \A g \in DOMAIN s.handoffs : g # h => o[g] = s.handoffs[g]
  BY InsertFacts, Zenon DEF Insert, IsMap
<1> HIDE DEF o
<1>4. \A g \in DOMAIN o : /\ g \in Nat /\ g < s.next /\ o[g].issi \in Issis
                          /\ o[g].link \in Links /\ s.pdch[o[g].issi] # None
  BY <1>1, <1>3 DEF Good, Pending, Fresh
<1>5. Inverses(s.wap, s.keys) /\ \A g \in DOMAIN s.wap : g \in Nat /\ g < s.next
  BY Zenon DEF Good, Pending
<1>6. /\ Good(t) /\ t.ctx = s.ctx /\ t.sm = s.sm /\ t.pdch = s.pdch /\ t.next = s.next
      /\ t.handoffs = o /\ t.wap = s.wap /\ t.keys = s.keys
  BY <1>3, <1>4, <1>5, PendingGood
<1> HIDE DEF t
<1>7. x.s = t
  BY <1>2, Zenon
<1> QED
  BY <1>1, <1>3, <1>6, <1>7 DEF Responds, Ready

\* In the mode that assumes it, the terminal is then on the channel.
LEMMA AssumedResponds ==
    ASSUME work.assume, NEW s, NEW i \in Issis, NEW link \in Links, NEW h, NEW y,
           Responds(s, y, i, h), NEW x, x.s = MarkPdchReady(y.s, i, link), x.rep = y.rep, x.h = y.h
    PROVE  Responds(s, x, i, h)
<1> DEFINE u == y.s
           v == On(link, "PdchReady")
           t == [u EXCEPT !.pdch[i] = v]
<1>1. Good(u) /\ v \in Session
  BY Zenon DEF Responds, On, Session
<1>2. x.s = t
  BY Zenon DEF MarkPdchReady
<1> HIDE DEF v
<1>3. /\ Good(t) /\ t.ctx = u.ctx /\ t.sm = u.sm /\ t.next = u.next
      /\ t.handoffs = u.handoffs /\ t.wap = u.wap
      /\ \A j \in Issis \ {i} : t.pdch[j] = u.pdch[j]
  BY <1>1, SessionGood
<1> HIDE DEF t
<1> QED
  BY <1>2, <1>3 DEF Responds

\* Services leave a fresh handle fresh.
LEMMA FreshServes ==
    ASSUME NEW s, NEW t, NEW i, NEW h, Serves(s, t, i), Fresh(s, h)
    PROVE  Fresh(t, h)
BY Zenon DEF Serves, Fresh

\* The answer to an accepted request for the channel.
LEMMA HandoffResponds ==
    ASSUME NEW s, Good(s), NEW i \in Issis, NEW link \in Links, NEW h, Fresh(s, h),
           s.pdch[i] # None, NEW d
    PROVE  Responds(s, Handoff(s, h, i, d, link), i, h)
<1> DEFINE c == MarkCommonControlOnLink(s, i, link)
           p == IF d.k = "Reconnect" \/ s.pdch[i].st = "RadioResourceLost" THEN c ELSE s
           chan == PdchAllocation(p, i, link, d.res)
           t == TrackHandoff(p, h, i, link)
           u == IF work.assume THEN MarkPdchReady(t, i, link) ELSE t
           x == Handoff(s, h, i, d, link)
<1>1. Serves(s, c, i) /\ c.pdch[i] # None
  BY CommonControlServes, Zenon
<1>2. Serves(s, p, i) /\ p.pdch[i] # None
  <2> HIDE DEF c
  <2> QED
    BY <1>1, ServesSame, Zenon
<1>3. chan = None \/ chan = "Replace"
  BY Zenon DEF PdchAllocation, LowerChannelAllocation
<1>4. \/ x.s = c /\ x.h = h /\ x.rep.issi = i
      \/ x.s = p /\ x.rep = None
      \/ x.s = u /\ x.h = h /\ x.rep.issi = i /\ x.rep.chan = "Replace"
  <2>1. \/ x = Response(c, h, Reply(i, link, Rejected(d.nsapi, "SndcpServiceTemporarilyNotAvailable"),
                                    TRUE, None))
        \/ x = NoResponse(p)
        \/ x = Response(u, h, Reply(i, link, Accepted(d.nsapi), TRUE, "Replace"))
    <3> HIDE DEF c, p, chan, t, u
    <3> QED
      BY <1>3, Zenon DEF Handoff, c, p, chan, t, u
  <2> HIDE DEF c, p, t, u, x
  <2> QED
    BY <2>1 DEF Response, NoResponse, Reply
<1> SUFFICES Responds(s, x, i, h)
  BY Zenon
<1> HIDE DEF c, p, chan, x
<1>5. CASE x.s = c /\ x.h = h /\ x.rep.issi = i
  BY <1>1, <1>5, ServesResponds, Zenon
<1>6. CASE x.s = p /\ x.rep = None
  BY <1>2, <1>6, ServesResponds, Zenon
<1>7. CASE x.s = u /\ x.h = h /\ x.rep.issi = i /\ x.rep.chan = "Replace"
  <2> DEFINE y == Response(t, h, x.rep)
  <2>1. Fresh(p, h) /\ Good(p)
    BY <1>2, FreshServes, Zenon DEF Serves
  <2>3. y.s = t /\ y.h = h /\ y.rep = x.rep
    BY Zenon DEF Response
  <2> HIDE DEF y
  <2>4. Responds(p, y, i, h)
    BY <1>2, <1>7, <2>1, <2>3, TrackHandoffResponds, Zenon
  <2> HIDE DEF t
  <2>2. Responds(p, x, i, h)
    <3>1. CASE work.assume
      BY <1>7, <2>3, <2>4, <3>1, AssumedResponds, Zenon
    <3>2. CASE ~ work.assume
      BY <1>7, <2>3, <2>4, <3>2, Zenon DEF Responds
    <3> QED
      BY <3>1, <3>2
  <2> QED
    BY <1>2, <2>2, ServesThenResponds, Zenon
<1> QED
  BY <1>4, <1>5, <1>6, <1>7, Zenon

\* What follows the services for a PDU.
LEMMA AnsweredResponds ==
    ASSUME NEW a, Good(a.s), NEW i \in Issis, NEW link \in Links, NEW h, Fresh(a.s, h),
           a.s.pdch[i] # None, NEW d, NEW key,
           key # None => key \notin DOMAIN a.s.keys /\ key.issi = i
    PROVE  Responds(a.s, Answered(a, h, i, d, link, key), i, h)
<1> DEFINE s == a.s
           e == ReturnToCommonControl(s, i)
           t == TrackWapResponse(s, h, key)
           x == Answered(a, h, i, d, link, key)
<1>1. Serves(s, e.s, i) /\ Serves(s, s, i)
  BY CommonControlServes, ServesSame, Zenon
<1>2. \/ x = NoResponse(s)
      \/ x = Handoff(s, h, i, d, link)
      \/ x = EndOfDataResponse(e, h, i, link, a.r)
      \/ x = Response(s, h, Reply(i, link, a.r, a.r.k # "Unitdata" \/ link # 0, None))
      \/ /\ key # None
         /\ x = Response(t, h, Reply(i, link, a.r, a.r.k # "Unitdata" \/ link # 0, None))
  <2> HIDE DEF e, t
  <2> QED
    BY SMTT(30) DEF Answered, e, t
<1>3. ASSUME NEW y, NEW r, NEW ack, NEW chan, x = Response(y, h, Reply(i, link, r, ack, chan))
      PROVE  x.s = y /\ x.h = h /\ x.rep.issi = i
  <2> HIDE DEF x
  <2> QED
    BY <1>3, Zenon DEF Response, Reply
<1> SUFFICES Responds(s, x, i, h)
  BY Zenon
<1> HIDE DEF e, t, x
<1>4. CASE x = NoResponse(s)
  <2>1. x.s = s /\ x.rep = None
    BY <1>4, Zenon DEF NoResponse, Response
  <2> QED
    BY <1>1, <2>1, ServesResponds, Zenon
<1>5. CASE x = Handoff(s, h, i, d, link)
  BY <1>5, HandoffResponds, Zenon
<1>6. CASE x = EndOfDataResponse(e, h, i, link, a.r)
  <2>1. x.s = e.s /\ x.h = h /\ x.rep.issi = i
    BY <1>3, <1>6, ZenonT(60) DEF EndOfDataResponse
  <2> QED
    BY <1>1, <2>1, ServesResponds, Zenon
<1>7. CASE x = Response(s, h, Reply(i, link, a.r, a.r.k # "Unitdata" \/ link # 0, None))
  <2>1. x.s = s /\ x.h = h /\ x.rep.issi = i
    BY <1>3, <1>7, ZenonT(60)
  <2> QED
    BY <1>1, <2>1, ServesResponds, Zenon
<1>8. CASE /\ key # None
           /\ x = Response(t, h, Reply(i, link, a.r, a.r.k # "Unitdata" \/ link # 0, None))
  <2>1. x.s = t /\ x.h = h /\ x.rep.issi = i
    BY <1>3, <1>8, Zenon
  <2> QED
    BY <1>8, <2>1, TrackWapResponds, Zenon DEF t
<1> QED
  BY <1>2, <1>4, <1>5, <1>6, <1>7, <1>8, Zenon

\* The next handle is given out.
LEMMA NextGood ==
    ASSUME NEW s, Good(s)
    PROVE  LET t == [s EXCEPT !.next = @ + 1]
           IN  /\ Good(t) /\ t.ctx = s.ctx /\ t.sm = s.sm /\ t.pdch = s.pdch /\ t.next = s.next + 1
               /\ t.handoffs = s.handoffs /\ t.wap = s.wap /\ t.keys = s.keys
               /\ Fresh(t, s.next)
<1> DEFINE t == WithNext(s, s.next + 1)
<1>1. [s EXCEPT !.next = @ + 1] = t
  BY Zenon DEF WithNext
<1>2. /\ Shape(t) /\ t.ctx = s.ctx /\ t.sm = s.sm /\ t.pdch = s.pdch /\ t.next = s.next + 1
      /\ t.handoffs = s.handoffs /\ t.wap = s.wap /\ t.keys = s.keys
  BY NextField, Zenon DEF Good
<1> HIDE DEF t
<1>3. Contexts(t) /\ t.pdch \in [Issis -> Session \cup {None}] /\ Inverses(t.wap, t.keys)
  BY <1>2, ZenonT(60) DEF Good, Contexts
<1>4. Pending(t) /\ Fresh(t, s.next)
  BY <1>2 DEF Good, Pending, Fresh
<1> QED
  BY <1>1, <1>2, <1>3, <1>4, Zenon DEF Good

\* The state and the response to a PDU of terminal i: as Responds, under the next handle.
Received(s, x, i) ==
    /\ Good(x.s) /\ x.s.next >= s.next
    /\ \A j \in Issis \ {i} : x.s.ctx[j] = s.ctx[j] /\ x.s.sm[j] = s.sm[j] /\ x.s.pdch[j] = s.pdch[j]
    /\ Ready(x.s, i) => Ready(s, i) \/ work.assume
    /\ \A g \in DOMAIN x.s.wap : \/ g \in DOMAIN s.wap /\ x.s.wap[g] = s.wap[g]
                                 \/ x.s.wap[g].issi = i
    /\ \A g \in DOMAIN x.s.handoffs :
         \/ g \in DOMAIN s.handoffs /\ x.s.handoffs[g] = s.handoffs[g]
         \/ g = s.next /\ x.s.handoffs[g].issi = i /\ (x.rep # None => x.rep.chan = "Replace")
    /\ x.rep # None => x.h = s.next /\ x.s.next > s.next /\ x.rep.issi = i

\* rx_ltpd_mle_unitdata_ind: whatever the PDU, the state stays good and the answer is under
\* a handle that nothing had.
LEMMA UnitdataReceived ==
    ASSUME SetFacts, NEW s, Good(s), NEW i \in Issis, NEW link \in Links, NEW d,
           d.k \in {"Activate", "Request"} => d.nsapi \in Nsapis,
           d.k = "Reconnect" => d.nsapi \in Nsapis \cup {None}
    PROVE  Received(s, RxUnitdata(s, i, d, link), i)
<1> DEFINE key == WapKey(i, d)
           p == IF d.k = "Request" THEN PrepareRetry(s, i, link) ELSE s
           r == ReplacePendingWap(p, key)
           q == EnsureSession(r, i, link)
           u == [q EXCEPT !.next = @ + 1]
           a == HandleInboundPdu(u, i, d)
           x == RxUnitdata(s, i, d, link)
<1>1. Serves(s, p, i) /\ Good(p)
  <2>1. Serves(s, p, i)
    BY PrepareRetryServes, ServesSame, Zenon
  <2> QED
    BY <2>1, Zenon DEF Serves
<1>2. key # None => key.issi = i
  BY Zenon DEF WapKey
<1>3. x = NoResponse(q) \/ x = Answered(a, q.next, i, d, link, key)
  <2> HIDE DEF q, key, u, a
  <2> QED
    BY Zenon DEF RxUnitdata, Pipeline, q, key, u, a
<1> SUFFICES Received(s, x, i)
  BY Zenon
<1> HIDE DEF key, p
<1>4. Serves(p, r, i) /\ key \notin DOMAIN r.keys
  <2>1. CASE key \notin DOMAIN p.keys
    BY <1>1, <2>1, ServesSame, ZenonT(60) DEF ReplacePendingWap
  <2>2. CASE key \in DOMAIN p.keys
    <3>1. p.keys[key] \in DOMAIN p.wap /\ p.wap[p.keys[key]] = key
      BY <1>1, <2>2, Zenon DEF Good, Inverses
    <3>2. r = FinishWapResponse(p, p.keys[key])
      BY <2>2, Zenon DEF ReplacePendingWap
    <3> HIDE DEF r
    <3> QED
      BY <1>1, <3>1, <3>2, FinishServes, Zenon
  <2> QED
    BY <2>1, <2>2, Zenon
<1> HIDE DEF r
<1>5. Serves(r, q, i) /\ q.pdch[i] # None
  <2>1. Good(r)
    BY <1>4, Zenon DEF Serves
  <2> QED
    BY <2>1, CommonControlServes, Zenon
<1>6. Serves(s, q, i) /\ Good(q) /\ key \notin DOMAIN q.keys
  <2>1. Serves(s, r, i)
    BY <1>1, <1>4, ServesTrans, Zenon
  <2>2. Serves(s, q, i)
    BY <1>5, <2>1, ServesTrans, Zenon
  <2> QED
    BY <1>4, <1>5, <2>2, Zenon DEF Serves
<1> HIDE DEF q
<1>7. /\ Good(u) /\ u.ctx = q.ctx /\ u.sm = q.sm /\ u.pdch = q.pdch /\ u.next = q.next + 1
      /\ u.handoffs = q.handoffs /\ u.wap = q.wap /\ u.keys = q.keys /\ Fresh(u, q.next)
  BY <1>6, NextGood, Zenon
<1> HIDE DEF u
<1>8. Serves(u, a.s, i)
  BY <1>7, InboundServes, ZenonT(60)
<1>9. /\ Good(a.s) /\ a.s.pdch[i] # None /\ Fresh(a.s, q.next)
      /\ key # None => key \notin DOMAIN a.s.keys /\ key.issi = i
  <2>1. Fresh(a.s, q.next)
    BY <1>7, <1>8, FreshServes, Zenon
  <2> QED
    BY <1>2, <1>5, <1>6, <1>7, <1>8, <2>1, ZenonT(60) DEF Serves
<1> HIDE DEF a, x
<1>10. CASE x = NoResponse(q)
  <2>1. x.s = q /\ x.rep = None
    BY <1>10, Zenon DEF NoResponse, Response
  <2>2. s.next \in Nat
    BY Zenon DEF Good, Pending
  <2> QED
    BY <1>6, <2>1, <2>2 DEF Received, Serves
<1>11. CASE x = Answered(a, q.next, i, d, link, key)
  <2>1. Responds(a.s, x, i, q.next)
    BY <1>9, <1>11, AnsweredResponds, Zenon
  <2>2. Responds(u, x, i, q.next)
    BY <1>8, <2>1, ServesThenResponds, Zenon
  <2>3. s.next \in Nat /\ q.next = s.next
    BY <1>6, Zenon DEF Good, Pending, Serves
  <2>4. Good(x.s) /\ x.s.next = s.next + 1 /\ (Ready(x.s, i) => Ready(s, i) \/ work.assume)
    BY <1>6, <1>7, <2>2, <2>3, Zenon DEF Responds, Serves, Ready
  <2>5. \A j \in Issis \ {i} : x.s.ctx[j] = s.ctx[j] /\ x.s.sm[j] = s.sm[j] /\ x.s.pdch[j] = s.pdch[j]
    BY <1>6, <1>7, <2>2, SMTT(30) DEF Responds, Serves
  <2>6. \A g \in DOMAIN x.s.wap : \/ g \in DOMAIN s.wap /\ x.s.wap[g] = s.wap[g]
                                  \/ x.s.wap[g].issi = i
    BY <1>6, <1>7, <2>2, SMTT(30) DEF Responds, Serves
  <2>7. \A g \in DOMAIN x.s.handoffs :
         \/ g \in DOMAIN s.handoffs /\ x.s.handoffs[g] = s.handoffs[g]
         \/ g = s.next /\ x.s.handoffs[g].issi = i /\ (x.rep # None => x.rep.chan = "Replace")
    BY <1>6, <1>7, <2>2, <2>3, SMTT(30) DEF Responds, Serves
  <2>8. x.rep # None => x.h = s.next /\ x.rep.issi = i
    BY <2>2, <2>3, Zenon DEF Responds
  <2> QED
    BY <2>3, <2>4, <2>5, <2>6, <2>7, <2>8, SMTT(30) DEF Received
<1> QED
  BY <1>3, <1>10, <1>11, Zenon

------------------------------------------------------------------------------
(* Reports, losses and deregistrations *)

\* What is forgotten stays so, and nothing new is waited for.
Forgets(s, t) ==
    /\ Good(t) /\ t.next = s.next
    /\ \A h \in DOMAIN t.handoffs : h \in DOMAIN s.handoffs /\ t.handoffs[h] = s.handoffs[h]
    /\ \A h \in DOMAIN t.wap : h \in DOMAIN s.wap /\ t.wap[h] = s.wap[h]
    /\ \A j \in Issis : /\ DOMAIN s.ctx[j] = {} => DOMAIN t.ctx[j] = {}
                        /\ s.sm[j] = Idle => t.sm[j] = Idle
                        /\ s.pdch[j] = None => t.pdch[j] = None

\* remove of a pending hand-over.
LEMMA EndHandoffGood ==
    ASSUME NEW s, Good(s), NEW h
    PROVE  Forgets(s, EndHandoff(s, h)) /\ EndHandoff(s, h).pdch = s.pdch
<1> DEFINE o == Restrict(s.handoffs, DOMAIN s.handoffs \ {h})
           t == WithPending(s, o, s.wap, s.keys)
<1>1. /\ IsMap(o) /\ DOMAIN o = DOMAIN s.handoffs \ {h}
      /\ \A g \in DOMAIN o : o[g] = s.handoffs[g]
  BY Zenon DEF Restrict, IsMap
<1>2. EndHandoff(s, h) = t
  <2>1. Shape(s)
    BY Zenon DEF Good
  <2>2. EndHandoff(s, h) = [s EXCEPT !.handoffs = o]
    BY <2>1, Zenon DEF EndHandoff, Shape
  <2> HIDE DEF o
  <2> QED
    BY <2>1, <2>2, ZenonT(60) DEF WithPending, Shape
<1> HIDE DEF o
<1>3. \A g \in DOMAIN o : /\ g \in Nat /\ g < s.next /\ o[g].issi \in Issis
                          /\ o[g].link \in Links /\ s.pdch[o[g].issi] # None
  BY <1>1, Zenon DEF Good, Pending
<1>4. Inverses(s.wap, s.keys) /\ \A g \in DOMAIN s.wap : g \in Nat /\ g < s.next
  BY Zenon DEF Good, Pending
<1>5. /\ Good(t) /\ t.ctx = s.ctx /\ t.sm = s.sm /\ t.pdch = s.pdch /\ t.next = s.next
      /\ t.handoffs = o /\ t.wap = s.wap /\ t.keys = s.keys
  BY <1>1, <1>3, <1>4, PendingGood
<1> HIDE DEF t
<1> QED
  BY <1>1, <1>2, <1>5, Zenon DEF Forgets

\* One after the other.
LEMMA ForgetsTrans ==
    ASSUME NEW s, NEW t, NEW u, Forgets(s, t), Forgets(t, u)
    PROVE  Forgets(s, u)
BY DEF Forgets

\* The terminal of a pending hand-over is on the channel.
LEMMA MarkPendingForgets ==
    ASSUME NEW s, Good(s), NEW h \in DOMAIN s.handoffs
    PROVE  /\ Forgets(s, MarkPendingReady(s, h))
           /\ MarkPendingReady(s, h).handoffs = s.handoffs
           /\ \A i \in Issis : s.handoffs[h].issi # i =>
                                 MarkPendingReady(s, h).pdch[i] = s.pdch[i]
<1> DEFINE i == s.handoffs[h].issi
           v == On(s.handoffs[h].link, "PdchReady")
           t == [s EXCEPT !.pdch[i] = v]
<1>1. i \in Issis /\ v \in Session /\ s.pdch[i] # None
  BY Zenon DEF Good, Pending, On, Session
<1>2. MarkPendingReady(s, h) = t
  BY Zenon DEF MarkPendingReady, MarkPdchReady
<1> HIDE DEF i, v
<1>3. /\ Good(t) /\ t.ctx = s.ctx /\ t.sm = s.sm /\ t.next = s.next
      /\ t.handoffs = s.handoffs /\ t.wap = s.wap /\ t.keys = s.keys
      /\ t.pdch[i] = v /\ v # None /\ \A j \in Issis \ {i} : t.pdch[j] = s.pdch[j]
  BY <1>1, SessionGood, SMTT(30)
<1> HIDE DEF t
<1> QED
  BY <1>1, <1>2, <1>3, Zenon DEF Forgets, i

\* A finished WAP response.
LEMMA FinishForgets ==
    ASSUME NEW s, Good(s), NEW h
    PROVE  LET t == FinishWapResponse(s, h)
           IN  Forgets(s, t) /\ t.handoffs = s.handoffs /\ t.pdch = s.pdch
<1> DEFINE t == FinishWapResponse(s, h)
<1>1. t.pdch = s.pdch /\ \A i : Serves(s, t, i)
  BY FinishServes, Zenon
<1> HIDE DEF t
<1>2. ASSUME NEW j \in Issis
      PROVE  t.ctx[j] = s.ctx[j] /\ t.sm[j] = s.sm[j]
  BY <1>1 DEF Serves
<1> QED
  BY <1>1, <1>2, Zenon DEF Forgets, Serves, t

\* rx_mle_report_ind: a terminal steps on to the channel only by a report of its own hand-over.
LEMMA ReportForgets ==
    ASSUME NEW s, Good(s), NEW h, NEW result \in {"FirstComplete", "Success", "Failed"}
    PROVE  LET t == RxReport(s, h, result)
           IN  /\ Forgets(s, t)
               /\ \A i \in Issis : Ready(t, i) =>
                    \/ Ready(s, i)
                    \/ result # "Failed" /\ h \in DOMAIN s.handoffs /\ s.handoffs[h].issi = i
<1> DEFINE f == FinishWapResponse(s, h)
           m == MarkPendingReady(f, h)
           t == RxReport(s, h, result)
<1>0. Forgets(s, s)
  BY Zenon DEF Forgets
<1>1. Forgets(s, f) /\ Good(f) /\ f.handoffs = s.handoffs /\ f.pdch = s.pdch
  BY FinishForgets DEF Forgets
<1>2. \/ result = "FirstComplete" /\ h \notin DOMAIN s.handoffs /\ t = s
      \/ result = "FirstComplete" /\ h \in DOMAIN s.handoffs /\ t = MarkPendingReady(s, h)
      \/ result = "Success" /\ h \in DOMAIN s.handoffs /\ t = EndHandoff(m, h)
      \/ result = "Success" /\ h \notin DOMAIN s.handoffs /\ t = f
      \/ result = "Failed" /\ t = EndHandoff(f, h)
  <2> HIDE DEF f, m
  <2> QED
    BY Zenon DEF RxReport, f, m
<1> SUFFICES /\ Forgets(s, t)
             /\ \A i \in Issis : Ready(t, i) =>
                  \/ Ready(s, i)
                  \/ result # "Failed" /\ h \in DOMAIN s.handoffs /\ s.handoffs[h].issi = i
  BY Zenon
<1> HIDE DEF f, t
<1>3. CASE result = "FirstComplete" /\ h \notin DOMAIN s.handoffs /\ t = s
  BY <1>0, <1>3, ZenonT(60)
<1>4. CASE result = "FirstComplete" /\ h \in DOMAIN s.handoffs /\ t = MarkPendingReady(s, h)
  BY <1>4, MarkPendingForgets, Zenon DEF Ready
<1>5. CASE result = "Success" /\ h \in DOMAIN s.handoffs /\ t = EndHandoff(m, h)
  <2>1. /\ Forgets(f, m) /\ Good(m)
        /\ \A i \in Issis : s.handoffs[h].issi # i => m.pdch[i] = s.pdch[i]
    BY <1>1, <1>5, MarkPendingForgets DEF Forgets
  <2> HIDE DEF m
  <2>2. Forgets(m, t) /\ t.pdch = m.pdch
    BY <1>5, <2>1, EndHandoffGood, Zenon
  <2>3. Forgets(s, t)
    BY <1>1, <2>1, <2>2, ForgetsTrans, Zenon
  <2> QED
    BY <1>5, <2>1, <2>2, <2>3, Zenon DEF Ready
<1>6. CASE result = "Success" /\ h \notin DOMAIN s.handoffs /\ t = f
  BY <1>1, <1>6, Zenon DEF Ready
<1>7. CASE result = "Failed" /\ t = EndHandoff(f, h)
  <2>1. Forgets(f, t) /\ t.pdch = f.pdch
    BY <1>1, <1>7, EndHandoffGood, Zenon
  <2>2. Forgets(s, t)
    BY <1>1, <2>1, ForgetsTrans, SMTT(30)
  <2> QED
    BY <1>1, <2>1, <2>2, Zenon DEF Ready
<1> QED
  BY <1>2, <1>3, <1>4, <1>5, <1>6, <1>7, Zenon

\* What is pending for terminal i.
Own(s, i) == {h \in DOMAIN s.wap : s.wap[h].issi = i}

\* The maps of ClearPendings.
LEMMA ClearMaps ==
    ASSUME NEW s, Good(s), NEW i
    PROVE  LET o == Restrict(s.handoffs, {h \in DOMAIN s.handoffs : s.handoffs[h].issi # i})
               w == Restrict(s.wap, DOMAIN s.wap \ Own(s, i))
               k == Restrict(s.keys, DOMAIN s.keys \ {s.wap[h] : h \in Own(s, i)})
           IN  /\ IsMap(o) /\ Inverses(w, k)
               /\ \A h \in DOMAIN o : h \in DOMAIN s.handoffs /\ o[h] = s.handoffs[h] /\ o[h].issi # i
               /\ \A h \in DOMAIN w : h \in DOMAIN s.wap /\ w[h] = s.wap[h] /\ w[h].issi # i
<1> DEFINE o == Restrict(s.handoffs, {h \in DOMAIN s.handoffs : s.handoffs[h].issi # i})
           w == Restrict(s.wap, DOMAIN s.wap \ Own(s, i))
           k == Restrict(s.keys, DOMAIN s.keys \ {s.wap[h] : h \in Own(s, i)})
<1>1. IsMap(o) /\ \A h \in DOMAIN o : h \in DOMAIN s.handoffs /\ o[h] = s.handoffs[h] /\ o[h].issi # i
  BY Zenon DEF Restrict, IsMap
<1>2. IsMap(w) /\ DOMAIN w = DOMAIN s.wap \ Own(s, i) /\ \A h \in DOMAIN w : w[h] = s.wap[h]
  BY Zenon DEF Restrict, IsMap
<1>3. /\ IsMap(k) /\ DOMAIN k = DOMAIN s.keys \ {s.wap[h] : h \in Own(s, i)}
      /\ \A x \in DOMAIN k : k[x] = s.keys[x]
  BY Zenon DEF Restrict, IsMap
<1>4. Inverses(s.wap, s.keys)
  BY Zenon DEF Good
<1> HIDE DEF o, w, k
<1>5. Inverses(w, k)
  BY <1>2, <1>3, <1>4 DEF Inverses, Own
<1> QED
  BY <1>1, <1>2, <1>5, Zenon DEF Own, o, w, k

\* ClearPendings as an update of the three maps.
LEMMA ClearIs ==
    ASSUME NEW s, Shape(s), NEW i
    PROVE  ClearPendings(s, i) =
             WithPending(s, Restrict(s.handoffs, {h \in DOMAIN s.handoffs : s.handoffs[h].issi # i}),
                         Restrict(s.wap, DOMAIN s.wap \ Own(s, i)),
                         Restrict(s.keys, DOMAIN s.keys \ {s.wap[h] : h \in Own(s, i)}))
<1>1. ClearPendings(s, i) =
        [s EXCEPT !.handoffs = Restrict(s.handoffs, {h \in DOMAIN s.handoffs : s.handoffs[h].issi # i}),
                  !.wap = Restrict(s.wap, DOMAIN s.wap \ Own(s, i)),
                  !.keys = Restrict(s.keys, DOMAIN s.keys \ {s.wap[h] : h \in Own(s, i)})]
  BY Zenon DEF ClearPendings, Shape, Own
<1> QED
  BY <1>1, Zenon DEF WithPending

\* All that is pending for a terminal is forgotten.
LEMMA ClearForgets ==
    ASSUME NEW s, Good(s), NEW i
    PROVE  LET t == ClearPendings(s, i)
           IN  /\ Forgets(s, t) /\ t.pdch = s.pdch
               /\ \A h \in DOMAIN t.handoffs : t.handoffs[h].issi # i
<1> DEFINE o == Restrict(s.handoffs, {h \in DOMAIN s.handoffs : s.handoffs[h].issi # i})
           w == Restrict(s.wap, DOMAIN s.wap \ Own(s, i))
           k == Restrict(s.keys, DOMAIN s.keys \ {s.wap[h] : h \in Own(s, i)})
           t == WithPending(s, o, w, k)
<1>1. /\ IsMap(o) /\ Inverses(w, k)
      /\ \A h \in DOMAIN o : h \in DOMAIN s.handoffs /\ o[h] = s.handoffs[h] /\ o[h].issi # i
      /\ \A h \in DOMAIN w : h \in DOMAIN s.wap /\ w[h] = s.wap[h] /\ w[h].issi # i
  BY ClearMaps, Zenon
<1>2. ClearPendings(s, i) = t
  BY ClearIs, Zenon DEF Good
<1> HIDE DEF o, w, k
<1>3. \A h \in DOMAIN o : /\ h \in Nat /\ h < s.next /\ o[h].issi \in Issis
                          /\ o[h].link \in Links /\ s.pdch[o[h].issi] # None
  BY <1>1, Zenon DEF Good, Pending
<1>4. \A h \in DOMAIN w : h \in Nat /\ h < s.next
  BY <1>1, Zenon DEF Good, Pending
<1>5. /\ Good(t) /\ t.ctx = s.ctx /\ t.sm = s.sm /\ t.pdch = s.pdch /\ t.next = s.next
      /\ t.handoffs = o /\ t.wap = w /\ t.keys = k
  BY <1>1, <1>3, <1>4, PendingGood, SMTT(30)
<1> HIDE DEF t
<1> QED
  BY <1>1, <1>2, <1>5, Zenon DEF Forgets

\* A session that is not on the channel in place of one that there was.
LEMMA SessionForgets ==
    ASSUME NEW s, Good(s), NEW i \in Issis, s.pdch[i] # None, NEW v \in Session, v.st # "PdchReady"
    PROVE  LET t == [s EXCEPT !.pdch[i] = v]
           IN  /\ Forgets(s, t) /\ t.handoffs = s.handoffs /\ ~ Ready(t, i)
               /\ \A j \in Issis : Ready(t, j) => Ready(s, j)
<1> DEFINE t == [s EXCEPT !.pdch[i] = v]
<1>1. /\ Good(t) /\ t.ctx = s.ctx /\ t.sm = s.sm /\ t.next = s.next
      /\ t.handoffs = s.handoffs /\ t.wap = s.wap /\ t.keys = s.keys
      /\ t.pdch[i] = v /\ v # None /\ \A j \in Issis \ {i} : t.pdch[j] = s.pdch[j]
  BY SessionGood
<1> HIDE DEF t
<1> QED
  BY <1>1, Zenon DEF Forgets, Ready, t

\* rx_ltpd_mle_configure_ind: the terminal is off the channel, and after a loss nothing that
\* was pending can put it back.
LEMMA ConfigureForgets ==
    ASSUME NEW s, Good(s), NEW i \in Issis, NEW reason
    PROVE  LET t == RxConfigure(s, i, reason)
           IN  /\ Forgets(s, t) /\ ~ Ready(t, i)
               /\ \A j \in Issis : Ready(t, j) => Ready(s, j)
               /\ reason = "Loss" => \A h \in DOMAIN t.handoffs : t.handoffs[h].issi # i
<1> DEFINE t == RxConfigure(s, i, reason)
<1> SUFFICES /\ Forgets(s, t) /\ ~ Ready(t, i)
             /\ \A j \in Issis : Ready(t, j) => Ready(s, j)
             /\ reason = "Loss" => \A h \in DOMAIN t.handoffs : t.handoffs[h].issi # i
  BY Zenon
<1>1. CASE s.pdch[i] = None
  <2>1. t = s
    BY <1>1, Zenon DEF RxConfigure
  <2>2. \A h \in DOMAIN s.handoffs : s.handoffs[h].issi # i
    BY <1>1, Zenon DEF Good, Pending
  <2>3. Forgets(s, s) /\ ~ Ready(s, i)
    BY <1>1, Zenon DEF Forgets, Ready
  <2> HIDE DEF t
  <2> QED
    BY <2>1, <2>2, <2>3, Zenon
<1>2. CASE s.pdch[i] # None /\ reason = "Loss"
  <2> DEFINE c == ClearPendings(s, i)
             v == [s.pdch[i] EXCEPT !.st = "RadioResourceLost"]
             u == [c EXCEPT !.pdch[i] = v]
  <2>1. /\ Forgets(s, c) /\ c.pdch = s.pdch /\ Good(c)
        /\ \A h \in DOMAIN c.handoffs : c.handoffs[h].issi # i
    BY ClearForgets DEF Forgets
  <2> HIDE DEF c
  <2>2. t = u
    <3>1. t = LossOfRadioResources(c, i)
      BY <1>2, Zenon DEF RxConfigure, c
    <3> HIDE DEF t
    <3> QED
      BY <2>1, <3>1, Zenon DEF LossOfRadioResources
  <2>3. v \in Session /\ v.st # "PdchReady"
    <3>1. s.pdch[i] \in Session
      BY <1>2, Zenon DEF Good
    <3> QED
      BY <3>1, Zenon DEF Session
  <2> HIDE DEF t, v
  <2>4. /\ Forgets(c, u) /\ u.handoffs = c.handoffs /\ ~ Ready(u, i)
        /\ \A j \in Issis : Ready(u, j) => Ready(c, j)
    BY <1>2, <2>1, <2>3, SessionForgets
  <2> HIDE DEF u
  <2>5. Forgets(s, t)
    BY <2>1, <2>2, <2>4, ForgetsTrans
  <2> QED
    BY <2>1, <2>2, <2>4, <2>5, SMTT(30) DEF Ready
<1>3. CASE s.pdch[i] # None /\ reason # "Loss"
  <2> DEFINE v == On(0, "CommonControl")
             u == [s EXCEPT !.pdch[i] = v]
  <2>1. t = u
    BY <1>3, Zenon DEF RxConfigure, RecoveryOfRadioResources, MarkCommonControl
  <2>2. v \in Session /\ v.st # "PdchReady"
    BY Zenon DEF On, Session, Links
  <2> HIDE DEF t, v
  <2>3. /\ Forgets(s, u) /\ ~ Ready(u, i)
        /\ \A j \in Issis : Ready(u, j) => Ready(s, j)
    BY <1>3, <2>2, SessionForgets, Zenon
  <2> HIDE DEF u
  <2> QED
    BY <1>3, <2>1, <2>3, Zenon
<1> QED
  BY <1>1, <1>2, <1>3, Zenon

\* A terminal of which nothing is kept.
Forgotten(s, i) ==
    /\ DOMAIN s.ctx[i] = {} /\ s.sm[i] = Idle /\ s.pdch[i] = None
    /\ \A h \in DOMAIN s.handoffs : s.handoffs[h].issi # i
    /\ \A h \in DOMAIN s.wap : s.wap[h].issi # i

\* rx_control: all of a terminal that deregistered is forgotten.
LEMMA DeregisterForgets ==
    ASSUME SetFacts, NEW s, Good(s), NEW i \in Issis
    PROVE  LET t == RxDeregister(s, i)
           IN  /\ Forgets(s, t) /\ Forgotten(t, i)
               /\ \A j \in Issis : Ready(t, j) => Ready(s, j)
<1> DEFINE x == [s.ctx EXCEPT ![i] = NoContext]
           y == [s.sm EXCEPT ![i] = Idle]
           p == [s.pdch EXCEPT ![i] = None]
           o == Restrict(s.handoffs, {h \in DOMAIN s.handoffs : s.handoffs[h].issi # i})
           w == Restrict(s.wap, DOMAIN s.wap \ Own(s, i))
           k == Restrict(s.keys, DOMAIN s.keys \ {s.wap[h] : h \in Own(s, i)})
           a == WithContexts(s, x, y)
           b == WithSessions(a, p)
           t == WithPending(b, o, w, k)
<1>1. Shape(s)
  BY Zenon DEF Good
<1>2. /\ IsMap(o) /\ Inverses(w, k)
      /\ \A h \in DOMAIN o : h \in DOMAIN s.handoffs /\ o[h] = s.handoffs[h] /\ o[h].issi # i
      /\ \A h \in DOMAIN w : h \in DOMAIN s.wap /\ w[h] = s.wap[h] /\ w[h].issi # i
  BY ClearMaps, ZenonT(60)
<1>3. DeregisterIssi(s, i) = a
  BY <1>1, Zenon DEF DeregisterIssi, WithContexts, Shape
<1>4. /\ IsMap(x) /\ DOMAIN x = Issis /\ IsMap(y) /\ DOMAIN y = Issis
      /\ x[i] = NoContext /\ y[i] = Idle
      /\ \A j \in Issis \ {i} : x[j] = s.ctx[j] /\ y[j] = s.sm[j]
  BY Zenon DEF Good, Contexts, IsMap
<1>5. p \in [Issis -> Session \cup {None}] /\ p[i] = None /\ \A j \in Issis \ {i} : p[j] = s.pdch[j]
  BY Zenon DEF Good
<1>6. p = [s.pdch EXCEPT ![i] = None]
  BY Zenon
<1> HIDE DEF x, y, p
<1>7. /\ Shape(a) /\ a.ctx = x /\ a.sm = y /\ a.pdch = s.pdch /\ a.next = s.next
      /\ a.handoffs = s.handoffs /\ a.wap = s.wap /\ a.keys = s.keys
  BY <1>1, ContextFields, SMTT(30)
<1> HIDE DEF a
<1>8. /\ Shape(b) /\ b.ctx = x /\ b.sm = y /\ b.pdch = p /\ b.next = s.next
      /\ b.handoffs = s.handoffs /\ b.wap = s.wap /\ b.keys = s.keys
  BY <1>7, SessionField
<1>9. DeregisterSession(a, i) = b
  <2>1. DeregisterSession(a, i) = [a EXCEPT !.pdch = [a.pdch EXCEPT ![i] = None]]
    BY Zenon DEF DeregisterSession
  <2> QED
    BY <1>6, <1>7, <2>1, Zenon DEF WithSessions
<1> HIDE DEF b
<1>10. RxDeregister(s, i) = t
  <2>1. Own(b, i) = Own(s, i)
    BY <1>8, Zenon DEF Own
  <2>2. RxDeregister(s, i) = ClearPendings(b, i)
    BY <1>3, <1>9, Zenon DEF RxDeregister
  <2> DEFINE ob == Restrict(b.handoffs, {h \in DOMAIN b.handoffs : b.handoffs[h].issi # i})
             wb == Restrict(b.wap, DOMAIN b.wap \ Own(b, i))
             kb == Restrict(b.keys, DOMAIN b.keys \ {b.wap[h] : h \in Own(b, i)})
  <2>3. ClearPendings(b, i) = WithPending(b, ob, wb, kb)
    BY <1>8, ClearIs, ZenonT(60)
  <2>4. ob = o /\ wb = w /\ kb = k
    BY <1>8, <2>1, Zenon
  <2> HIDE DEF ob, wb, kb, o, w, k
  <2> QED
    BY <2>2, <2>3, <2>4, ZenonT(60)
<1> HIDE DEF o, w, k
<1>11. /\ Shape(t) /\ t.ctx = x /\ t.sm = y /\ t.pdch = p /\ t.next = s.next
       /\ t.handoffs = o /\ t.wap = w /\ t.keys = k
  BY <1>8, PendingFields
<1> HIDE DEF t
<1>12. DOMAIN NoContext = {} /\ Counted(NoContext, Idle)
  <2>1. DOMAIN NoContext = {} /\ IsMap(NoContext)
    BY Zenon DEF NoContext, IsMap
  <2>2. Sane(Idle) /\ Idle.n = 0
    BY Zenon DEF Sane, Idle, Machine
  <2> QED
    BY <2>1, <2>2, CountNone DEF Counted
<1>13. Unique(x)
  <2>1. Unique(s.ctx)
    BY Zenon DEF Good, Contexts
  <2> QED
    BY <1>4, <1>12, <2>1, SMTT(30) DEF Unique
<1>14. Contexts(t)
  <2>1. \A j \in Issis : Counted(x[j], y[j])
    BY <1>4, <1>12, ZenonT(60) DEF Good, Contexts
  <2> QED
    BY <1>4, <1>11, <1>13, <2>1, Zenon DEF Contexts
<1>15. Pending(t)
  <2>1. /\ s.next \in Nat
        /\ \A h \in DOMAIN w : h \in Nat /\ h < s.next
        /\ \A h \in DOMAIN o : /\ h \in Nat /\ h < s.next /\ o[h].issi \in Issis
                               /\ o[h].link \in Links /\ p[o[h].issi] # None
    BY <1>2, <1>5 DEF Good, Pending
  <2> QED
    BY <1>2, <1>11, <2>1, SMTT(30) DEF Pending
<1>16. Good(t)
  BY <1>2, <1>5, <1>11, <1>14, <1>15, ZenonT(60) DEF Good
<1>17. Forgets(s, t)
  BY <1>2, <1>4, <1>5, <1>11, <1>12, <1>16, SMTT(30) DEF Forgets
<1>18. Forgotten(t, i)
  BY <1>2, <1>4, <1>5, <1>11, <1>12, SMTT(30) DEF Forgotten
<1>19. \A j \in Issis : Ready(t, j) => Ready(s, j)
  BY <1>5, <1>11, Zenon DEF Ready
<1> QED
  BY <1>10, <1>17, <1>18, <1>19, ZenonT(60)

\* What was forgotten stays forgotten.
LEMMA ForgottenStays ==
    ASSUME NEW s, NEW t, Forgets(s, t), NEW i \in Issis, Forgotten(s, i)
    PROVE  Forgotten(t, i)
BY Zenon DEF Forgets, Forgotten

\* A PDU of another terminal brings nothing back.
LEMMA ForgottenReceived ==
    ASSUME NEW s, NEW x, NEW j, Received(s, x, j), NEW i \in Issis \ {j}, Forgotten(s, i)
    PROVE  Forgotten(x.s, i)
BY Zenon DEF Received, Forgotten

------------------------------------------------------------------------------
(* A free slot is granted *)

\* What terminal i needs for a context with NSAPI n.
Has(s, i, n) ==
    \/ n \in DOMAIN s.ctx[i]
    \/ AllocateDynamicIpv4(s) # None /\ Cardinality(DOMAIN s.ctx[i]) < MaxContexts

\* A terminal that asks again while nobody has the slot is taken to be on the common control
\* channel and not transmitting, whatever was noted of it.
LEMMA RetryWaits ==
    ASSUME SetFacts, NEW s, Good(s), NEW i \in Issis, NEW link \in Links, umac.owner = "Free"
    PROVE  LET p == PrepareRetry(s, i, link)
           IN  /\ Good(p) /\ p.ctx = s.ctx /\ p.sm[i].st # "Ready"
               /\ p.pdch[i] = On(link, "CommonControl")
<1> DEFINE b == MarkReadyBearerTemporarilyBroken(s, i)
           m == ReconnectWithoutDataReceived(s.sm[i])
           v == On(link, "CommonControl")
           p == [b EXCEPT !.pdch[i] = v]
<1>1. PrepareRetry(s, i, link) = p
  BY Zenon DEF PrepareRetry, MarkCommonControlOnLink
<1>2. Good(b) /\ b.ctx = s.ctx /\ b.sm[i].st # "Ready"
  <2>1. CASE s.sm[i].st # "Ready"
    BY <2>1, Zenon DEF MarkReadyBearerTemporarilyBroken
  <2>2. CASE s.sm[i].st = "Ready"
    <3>1. Sane(s.sm[i])
      BY Zenon DEF Good, Contexts, Counted
    <3>2. m \in Machine /\ m.st = "Standby"
      BY <2>2, <3>1 DEF ReconnectWithoutDataReceived, Sane, Machine
    <3>3. m # None
      BY <3>2, PdpAssumption, Zenon
    <3>4. b = Into(s, i, m)
      BY <2>2, Zenon DEF MarkReadyBearerTemporarilyBroken
    <3>5. Serves(s, Into(s, i, m), i)
      BY EventsServe, Zenon
    <3>6. b = [s EXCEPT !.sm[i] = m]
      BY <3>3, <3>4, Zenon DEF Into
    <3> HIDE DEF m, b
    <3>7. b.ctx = s.ctx /\ b.sm[i] = m
      BY <3>6, Zenon DEF Good, Shape, Contexts
    <3>8. Good(b)
      BY <3>4, <3>5, Zenon DEF Serves
    <3> QED
      BY <3>2, <3>7, <3>8, Zenon
  <2> QED
    BY <2>1, <2>2, Zenon
<1> HIDE DEF b
<1>3. v \in Session
  BY Zenon DEF On, Session
<1> HIDE DEF v
<1>4. Good(p) /\ p.ctx = b.ctx /\ p.sm = b.sm /\ p.pdch[i] = v
  BY <1>2, <1>3, SessionGood
<1> HIDE DEF p
<1> QED
  BY <1>1, <1>2, <1>4 DEF v

\* What is replaced for a transaction, and the next handle, are not about the terminal.
LEMMA FinishKeeps ==
    ASSUME NEW s, Good(s), NEW h
    PROVE  LET t == FinishWapResponse(s, h)
           IN  Good(t) /\ t.ctx = s.ctx /\ t.sm = s.sm /\ t.pdch = s.pdch
<1>1. Good(FinishWapResponse(s, h))
  BY FinishServes, Zenon DEF Serves
<1> QED
  BY <1>1, Zenon DEF FinishWapResponse, Good, Shape

\* A terminal that has a context, or can be given one, and is not transmitting is accepted.
LEMMA RequestAccepted ==
    ASSUME SetFacts, NEW s, Good(s), NEW i \in Issis, NEW n \in Nsapis, s.sm[i].st # "Ready", Has(s, i, n)
    PROVE  LET x == HandleDataTransmitRequest(s, i, n)
           IN  /\ x.r = Accepted(n) /\ x.s.sm[i].st = "Ready" /\ x.s.pdch = s.pdch
<1>1. ASSUME NEW u, Good(u), n \in DOMAIN u.ctx[i], u.sm[i].st # "Ready"
      PROVE  LET x == HandleMsDataTransmitRequest(u, i, n)
             IN  x.r = Accepted(n) /\ x.s.sm[i].st = "Ready" /\ x.s.pdch = u.pdch
  <2> DEFINE m == DataTransmitRequestReceived(u.sm[i])
  <2>1. Counted(u.ctx[i], u.sm[i])
    BY <1>1, Zenon DEF Good, Contexts
  <2>2. u.sm[i].n > 0 /\ u.sm[i].st = "Standby"
    <3>1. IsFiniteSet(DOMAIN u.ctx[i])
      BY <2>1, PdpAssumption, Counts, Zenon DEF Counted
    <3>2. Cardinality(DOMAIN u.ctx[i]) \in Nat /\ Cardinality(DOMAIN u.ctx[i]) # 0
      BY <1>1, <3>1, Counts, Zenon
    <3> QED
      BY <1>1, <2>1, <3>2 DEF Counted, Sane, Machine
  <2>3. m \in Machine /\ m.st = "Ready"
    BY <2>1, <2>2, Zenon DEF DataTransmitRequestReceived, Counted, Sane, Machine
  <2>4. m # None
    BY <2>3, PdpAssumption, Zenon
  <2> HIDE DEF m
  <2> DEFINE t == [u EXCEPT !.sm[i] = m]
  <2>5. HandleMsDataTransmitRequest(u, i, n) = Say(t, Accepted(n))
    BY <1>1, <2>4, Zenon DEF HandleMsDataTransmitRequest, Into, m
  <2>6. t.sm[i] = m /\ t.pdch = u.pdch
    BY <1>1, Zenon DEF Good, Shape, Contexts
  <2> HIDE DEF t
  <2> QED
    BY <2>3, <2>5, <2>6, SMTT(30) DEF Say
<1> DEFINE c == RecoverMissingContext(s, i, n)
<1>2. /\ Good(c.s) /\ n \in DOMAIN c.s.ctx[i] /\ c.s.sm[i].st # "Ready" /\ c.s.pdch = s.pdch
      /\ c.r # Dropped
  <2>1. CASE n \in DOMAIN s.ctx[i]
    BY <2>1, Zenon DEF RecoverMissingContext, Say, Silent, Dropped
  <2>2. CASE n \notin DOMAIN s.ctx[i]
    <3> DEFINE d == [nsapi |-> n, want |-> [t |-> "Dynamic"], ms |-> "A"]
               a == AllocateDynamicIpv4(s)
               m == ActivatePdpContext(s.sm[i])
               e == [s EXCEPT !.ctx[i] = Insert(@, n, a)]
               t == [e EXCEPT !.sm[i] = m]
    <3>1. a # None /\ Cardinality(DOMAIN s.ctx[i]) < MaxContexts
      BY <2>2, Zenon DEF Has
    <3>2. Cardinality(DOMAIN s.ctx[i]) \in Nat /\ Sane(s.sm[i])
      <4>1. Counted(s.ctx[i], s.sm[i])
        BY Zenon DEF Good, Contexts
      <4>2. IsFiniteSet(DOMAIN s.ctx[i])
        BY <4>1, PdpAssumption, Counts, Zenon DEF Counted
      <4> QED
        BY <4>1, <4>2, Counts, Zenon DEF Counted
    <3>3. m # None /\ m.st # "Ready"
      <4>1. m # None
        BY <3>2, MachineFacts, Zenon
      <4>2. m.st # "Ready"
        BY <3>2 DEF ActivatePdpContext, Sane, Machine
      <4> QED
        BY <4>1, <4>2, Zenon
    <3> HIDE DEF m, a
    <3>4. BuildContext(s, d.want) = [k |-> "ActivateAccept", addr |-> a]
      BY <3>1, Zenon DEF BuildContext, a
    <3>5. ~(Cardinality(DOMAIN s.ctx[i]) >= MaxContexts)
      BY <3>1, <3>2, PdpAssumption
    <3>6. HandleActivateDemand(s, i, d) = Say(t, [k |-> "ActivateAccept", addr |-> a])
      <4> DEFINE w == d.want
      <4>1. d.nsapi = n /\ d.ms # "D"
        BY Zenon
      <4> HIDE DEF d
      <4> QED
        BY <2>2, <3>3, <3>4, <3>5, <4>1 DEF HandleActivateDemand, Into, AddContext, m
    <3>7. c = HandleActivateDemand(s, i, d)
      BY <2>2, Zenon DEF RecoverMissingContext
    <3>8. Serves(s, HandleActivateDemand(s, i, d).s, i)
      <4>1. d.nsapi \in Nsapis
        BY Zenon
      <4> QED
        BY <4>1, ActivateServes, Zenon
    <3>9. t.ctx[i] = Insert(s.ctx[i], n, a) /\ t.sm[i] = m /\ t.pdch = s.pdch
      BY Zenon DEF Good, Shape, Contexts
    <3> HIDE DEF d, c, t
    <3>10. c.s = t /\ c.r # Dropped
      BY <3>6, <3>7 DEF Say, Dropped
    <3>11. n \in DOMAIN t.ctx[i]
      BY <3>9, Zenon DEF Insert
    <3> QED
      BY <3>3, <3>6, <3>7, <3>8, <3>9, <3>10, <3>11 DEF Serves
  <2> QED
    BY <2>1, <2>2, Zenon
<1>3. HandleDataTransmitRequest(s, i, n) = HandleMsDataTransmitRequest(c.s, i, n)
  BY <1>2, Zenon DEF HandleDataTransmitRequest
<1> HIDE DEF c
<1> QED
  BY <1>1, <1>2, <1>3

\* The response x grants the channel to terminal i.
Grants(x, i, link, n) == x.rep = Reply(i, link, Accepted(n), TRUE, "Replace")

\* The answer to an accepted terminal on the common control channel, when nobody has the slot.
LEMMA HandoffGrants ==
    ASSUME NEW s, NEW i \in Issis, NEW d, d.k = "Request", NEW link, NEW h,
           umac.owner = "Free", ResourceRequestSupported(d.res), s.sm[i].st = "Ready",
           s.pdch[i] = On(link, "CommonControl")
    PROVE  Grants(Handoff(s, h, i, d, link), i, link, d.nsapi)
<1>1. s.pdch[i].st = "CommonControl" /\ s.pdch[i].link = link
  BY DEF On
<1>2. CapacityAvailableFor(s, i)
  BY Zenon DEF CapacityAvailableFor
<1>3. PdchAllocation(s, i, link, d.res) = "Replace"
  BY <1>1, Zenon DEF PdchAllocation, PlanUnitdataChannel, LowerChannelAllocation,
     ValidEndpointLink, Ready
<1>4. "Replace" # None
  BY PdpAssumption, Zenon
<1> DEFINE t == TrackHandoff(s, h, i, link)
           p == IF work.assume THEN MarkPdchReady(t, i, link) ELSE t
           rep == Reply(i, link, Accepted(d.nsapi), TRUE, "Replace")
<1>5. Handoff(s, h, i, d, link) = Response(p, h, rep)
  <2> HIDE DEF p, t, rep
  <2> QED
    BY <1>1, <1>2, <1>3, <1>4, Zenon DEF Handoff, p, t, rep
<1> HIDE DEF p, rep
<1> QED
  BY <1>5 DEF Response, Grants, rep

\* A request for the channel while nobody has the slot.
LEMMA RequestGranted ==
    ASSUME SetFacts, NEW s, Good(s), NEW i \in Issis, NEW d, d.k = "Request", d.nsapi \in Nsapis,
           NEW link \in Links, umac.owner = "Free", ResourceRequestSupported(d.res),
           Has(s, i, d.nsapi)
    PROVE  Grants(RxUnitdata(s, i, d, link), i, link, d.nsapi)
<1> DEFINE n == d.nsapi
           p == PrepareRetry(s, i, link)
           q == ReplacePendingWap(p, None)
           w == [q EXCEPT !.next = @ + 1]
           a == HandleDataTransmitRequest(w, i, n)
<1>1. /\ Good(p) /\ p.ctx = s.ctx /\ p.sm[i].st # "Ready"
      /\ p.pdch[i] = On(link, "CommonControl")
  BY RetryWaits, Zenon
<1>2. WapKey(i, d) = None
  BY Zenon DEF WapKey
<1> HIDE DEF p
<1>3. Good(q) /\ q.ctx = p.ctx /\ q.sm = p.sm /\ q.pdch = p.pdch
  <2>1. q = p \/ q = FinishWapResponse(p, p.keys[None])
    BY Zenon DEF ReplacePendingWap
  <2> HIDE DEF q
  <2> QED
    BY <1>1, <2>1, FinishKeeps
<1> HIDE DEF q
<1>4. EnsureSession(q, i, link) = q
  <2>1. On(link, "CommonControl") \in Session
    BY Zenon DEF On, Session
  <2>2. q.pdch[i] # None
    BY <1>1, <1>3, <2>1, PdpAssumption, Zenon
  <2> QED
    BY <2>2, Zenon DEF EnsureSession
<1>5. Good(w) /\ w.ctx = q.ctx /\ w.sm = q.sm /\ w.pdch = q.pdch
  BY <1>3, NextGood, Zenon
<1>6. w = [q EXCEPT !.next = @ + 1]
  BY Zenon
<1> HIDE DEF w
<1>7. Has(w, i, n)
  <2>1. w.ctx = s.ctx
    BY <1>1, <1>3, <1>5, SMTT(30)
  <2> QED
    BY <2>1, Zenon DEF Has, AllocateDynamicIpv4, AnyIpv4Context
<1>8. a.r = Accepted(n) /\ a.s.sm[i].st = "Ready" /\ a.s.pdch = w.pdch
  <2>1. w.sm[i].st # "Ready" /\ n \in Nsapis
    BY <1>1, <1>3, <1>5
  <2> HIDE DEF n
  <2> QED
    BY <1>5, <1>7, <2>1, RequestAccepted
<1>9. RxUnitdata(s, i, d, link) = Answered(a, q.next, i, d, link, None)
  <2>1. RxUnitdata(s, i, d, link) = Pipeline(q, i, d, link, None)
    BY <1>2, <1>4, Zenon DEF RxUnitdata, p, q
  <2>2. ValidEndpointLink(q.pdch[i], link)
    BY <1>1, <1>3 DEF ValidEndpointLink, On
  <2>3. HandleInboundPdu(w, i, d) = a
    BY Zenon DEF HandleInboundPdu
  <2> HIDE DEF a
  <2> QED
    BY <1>6, <2>1, <2>2, <2>3 DEF Pipeline
<1> HIDE DEF a
<1>10. Answered(a, q.next, i, d, link, None) = Handoff(a.s, q.next, i, d, link)
  <2>1. a.r # Silent /\ a.r # Dropped /\ a.r.k = "Accepted"
    BY <1>8, SMTT(30) DEF Accepted, Silent, Dropped
  <2> QED
    BY <2>1, Zenon DEF Answered
<1>11. a.s.pdch[i] = On(link, "CommonControl")
  BY <1>1, <1>3, <1>5, <1>8, SMTT(30)
<1> DEFINE u == a.s
           g == q.next
           x == Handoff(u, g, i, d, link)
<1>12. u.sm[i].st = "Ready" /\ u.pdch[i] = On(link, "CommonControl")
  BY <1>8, <1>11, Zenon
<1>13. RxUnitdata(s, i, d, link) = x
  BY <1>9, <1>10, Zenon
<1> HIDE DEF u, g
<1>14. Grants(x, i, link, d.nsapi)
  BY <1>12, HandoffGrants, Zenon
<1> HIDE DEF x
<1> QED
  BY <1>13, <1>14, Zenon

------------------------------------------------------------------------------
(* The handles of the MLE *)

\* The counter and the pending transfers have handles of the range.
MleGood(m) ==
    /\ m = [next |-> m.next, pend |-> m.pend]
    /\ m.next \in 1 .. MaxTlaHandle /\ DOMAIN m.pend \subseteq 1 .. MaxTlaHandle

\* allocate_tla_handle finds a handle that nothing pending has while there is one.
LEMMA AllocateFacts ==
    ASSUME SetFacts, NEW m, MleGood(m), Free(m)
    PROVE  AllocateTlaHandle(m) \in (1 .. MaxTlaHandle) \ DOMAIN m.pend
<1> DEFINE M == MaxTlaHandle
           T == {n \in 0 .. M - 1 : Nth(m.next, n) \notin DOMAIN m.pend}
<1>1. M \in Nat \ {0}
  BY MleAssumption, Zenon
<1>2. m.next \in 1..M /\ DOMAIN m.pend \subseteq 1..M
  BY Zenon DEF MleGood
<1>3. PICK h \in 1..M : h \notin DOMAIN m.pend
  <2>1. SUFFICES ASSUME 1..M \subseteq DOMAIN m.pend PROVE FALSE
    BY Zenon
  <2>2. DOMAIN m.pend = 1..M
    BY <1>2, <2>1, Zenon
  <2>3. Cardinality(1..M) = M
    BY <1>1, CountInterval, Zenon
  <2> QED
    BY <1>1, <2>2, <2>3 DEF Free
<1>4. T # {}
  <2> DEFINE n == IF h >= m.next THEN h - m.next ELSE h - m.next + M
  <2>1. n \in 0 .. M - 1 /\ Nth(m.next, n) = h
    BY <1>1, <1>2, <1>3 DEF Nth
  <2> QED
    BY <1>3, <2>1, Zenon
<1>5. Min(T) \in T
  BY <1>1, <1>4, MinFacts
<1>6. Nth(m.next, Min(T)) \in 1..M /\ Nth(m.next, Min(T)) \notin DOMAIN m.pend
  <2> HIDE DEF T
  <2>1. Min(T) \in 0 .. M - 1 /\ Nth(m.next, Min(T)) \notin DOMAIN m.pend
    BY <1>5, Zenon DEF T
  <2> QED
    BY <1>1, <1>2, <2>1 DEF Nth
<1> QED
  BY <1>6, Zenon DEF AllocateTlaHandle

\* A transfer more is pending, under a handle of its own.
Adds(m, t, user, upper) ==
    /\ MleGood(t.m) /\ t.h \notin DOMAIN m.pend
    /\ DOMAIN t.m.pend = DOMAIN m.pend \cup {t.h}
    /\ t.m.pend[t.h] = [user |-> user, upper |-> upper]
    /\ \A g \in DOMAIN m.pend : t.m.pend[g] = m.pend[g]

\* track_tla_data_request
LEMMA TrackFacts ==
    ASSUME SetFacts, NEW m, MleGood(m), Free(m), NEW user, NEW upper
    PROVE  Adds(m, TrackTlaDataRequest(m, user, upper), user, upper)
<1> DEFINE h == AllocateTlaHandle(m)
           e == [user |-> user, upper |-> upper]
           p == Insert(m.pend, h, e)
           t == TrackTlaDataRequest(m, user, upper)
<1>1. h \in 1 .. MaxTlaHandle /\ h \notin DOMAIN m.pend
  BY AllocateFacts, Zenon
<1>2. t.h = h /\ t.m = [next |-> After(h), pend |-> p]
  <2> HIDE DEF h, p
  <2> QED
    BY Zenon DEF TrackTlaDataRequest, h, p
<1> HIDE DEF h, t, e
<1>3. DOMAIN p = DOMAIN m.pend \cup {h} /\ p[h] = e /\ \A g \in DOMAIN m.pend : g # h => p[g] = m.pend[g]
  BY Zenon DEF Insert
<1>4. After(h) \in 1 .. MaxTlaHandle
  BY <1>1, MleAssumption DEF After
<1> HIDE DEF p
<1>5. MleGood(t.m)
  BY <1>1, <1>2, <1>3, <1>4 DEF MleGood
<1> QED
  BY <1>1, <1>2, <1>3, <1>5 DEF Adds, t, e

------------------------------------------------------------------------------
(* The message queue *)

IsQueue(q) == \E S : q \in Seq(S)

\* A message more.
LEMMA EmitFacts ==
    ASSUME NEW q, IsQueue(q), NEW m
    PROVE  /\ IsQueue(q \o <<m>>) /\ Range(q \o <<m>>) = Range(q) \cup {m}
           /\ q \o << >> = q
<1>0. PICK U : q \in Seq(U)
  BY Zenon DEF IsQueue
<1> DEFINE S == U \cup {m}
<1>1. q \in Seq(S) /\ <<m>> \in Seq(S)
  BY <1>0
<1> HIDE DEF S
<1>2. /\ q \o <<m>> \in Seq(S) /\ Len(q \o <<m>>) = Len(q) + 1
      /\ \A k \in 1..Len(q) : (q \o <<m>>)[k] = q[k]
      /\ (q \o <<m>>)[Len(q) + 1] = m /\ Len(q) \in Nat
  BY <1>1
<1>3. DOMAIN q = 1..Len(q) /\ DOMAIN (q \o <<m>>) = 1..(Len(q) + 1)
  BY <1>1, <1>2
<1>4. Range(q \o <<m>>) = Range(q) \cup {m}
  BY <1>2, <1>3 DEF Range
<1>5. q \o << >> = q
  BY <1>1
<1> QED
  BY <1>2, <1>4, <1>5, Zenon DEF IsQueue

\* The first message is taken.
LEMMA TakeFacts ==
    ASSUME NEW q, IsQueue(q), q # << >>
    PROVE  /\ IsQueue(Tail(q)) /\ Head(q) \in Range(q)
           /\ Range(q) = {Head(q)} \cup Range(Tail(q))
<1> DEFINE S == Range(q)
<1>1. PICK U : q \in Seq(U)
  BY Zenon DEF IsQueue
<1>2. DOMAIN q = 1..Len(q) /\ Len(q) \in Nat \ {0} /\ S = {q[k] : k \in DOMAIN q}
  BY <1>1 DEF Range
<1> HIDE DEF S
<1>3. /\ Tail(q) \in Seq(U) /\ Len(Tail(q)) = Len(q) - 1 /\ Head(q) = q[1]
      /\ \A k \in 1..Len(q) - 1 : Tail(q)[k] = q[k + 1]
  BY <1>1, <1>2
<1>4. DOMAIN Tail(q) = 1..Len(q) - 1
  BY <1>2, <1>3
<1>5. Range(Tail(q)) = {Tail(q)[k] : k \in 1..Len(q) - 1}
  BY <1>4, Zenon DEF Range
<1>6. S = {Head(q)} \cup Range(Tail(q))
  <2>1. ASSUME NEW m \in S PROVE m \in {Head(q)} \cup Range(Tail(q))
    <3>1. PICK k \in 1..Len(q) : m = q[k]
      BY <1>2, Zenon
    <3>2. k # 1 => k - 1 \in 1..Len(q) - 1 /\ q[k] = Tail(q)[k - 1]
      BY <1>2, <1>3
    <3> QED
      BY <1>3, <1>5, <3>1, <3>2
  <2>2. Head(q) \in S
    BY <1>2, <1>3
  <2>3. ASSUME NEW m \in Range(Tail(q)) PROVE m \in S
    <3>1. PICK k \in 1..Len(q) - 1 : m = Tail(q)[k]
      BY <1>5, Zenon
    <3> QED
      BY <1>2, <1>3, <3>1
  <2> QED
    BY <2>1, <2>2, <2>3
<1> QED
  BY <1>3, <1>6, Zenon DEF IsQueue, S

------------------------------------------------------------------------------
(* Requests at the LLC and what the MLE keeps of them *)

\* Every request is pending under a handle of its own, and what MM, CMCE or the MLE itself
\* wait for is still there.
Tracked(A, p) ==
    /\ \A r \in A : r.h \in DOMAIN p /\ p[r.h] = [user |-> r.user, upper |-> r.upper]
    /\ \A r, q \in A : r.h = q.h => r = q
    /\ \A h \in DOMAIN p : p[h].user # "Sndcp" => \E r \in A : r.h = h

IsRequest(r) == r = [h |-> r.h, user |-> r.user, upper |-> r.upper, rep |-> r.rep, stage |-> r.stage]

\* A request on its way down.
LEMMA MoveFacts ==
    ASSUME NEW r, IsRequest(r), NEW stage
    PROVE  LET q == [r EXCEPT !.stage = stage]
           IN  /\ IsRequest(q) /\ q.h = r.h /\ q.user = r.user /\ q.upper = r.upper
               /\ q.rep = r.rep /\ q.stage = stage
BY DEF IsRequest

\* A request under a new handle.
LEMMA TrackedMore ==
    ASSUME NEW A, NEW p, Tracked(A, p), NEW q, NEW r, r.h \notin DOMAIN p,
           DOMAIN q = DOMAIN p \cup {r.h}, q[r.h] = [user |-> r.user, upper |-> r.upper],
           \A g \in DOMAIN p : q[g] = p[g]
    PROVE  Tracked(A \cup {r}, q)
<1>1. \A x \in A : x.h \in DOMAIN q /\ x.h # r.h /\ q[x.h] = [user |-> x.user, upper |-> x.upper]
  BY Zenon DEF Tracked
<1>2. \A x, y \in A \cup {r} : x.h = y.h => x = y
  BY <1>1, Zenon DEF Tracked
<1>3. \A h \in DOMAIN q : q[h].user # "Sndcp" => \E x \in A \cup {r} : x.h = h
  BY Zenon DEF Tracked
<1> QED
  BY <1>1, <1>2, <1>3, Zenon DEF Tracked

\* The same request in another stage.
LEMMA TrackedMoved ==
    ASSUME NEW A, NEW p, Tracked(A, p), NEW r \in A, NEW q,
           q.h = r.h, q.user = r.user, q.upper = r.upper
    PROVE  Tracked((A \ {r}) \cup {q}, p)
<1>1. \A x \in A \ {r} : x.h # r.h
  BY Zenon DEF Tracked
<1>2. \A x, y \in (A \ {r}) \cup {q} : x.h = y.h => x = y
  BY <1>1, Zenon DEF Tracked
<1>3. \A h \in DOMAIN p : p[h].user # "Sndcp" => \E x \in (A \ {r}) \cup {q} : x.h = h
  BY Zenon DEF Tracked
<1>4. \A x \in (A \ {r}) \cup {q} : x.h \in DOMAIN p /\ p[x.h] = [user |-> x.user, upper |-> x.upper]
  <2>1. \A x \in A : x.h \in DOMAIN p /\ p[x.h] = [user |-> x.user, upper |-> x.upper]
    BY Zenon DEF Tracked
  <2>2. p[q.h] = [user |-> q.user, upper |-> q.upper] /\ q.h \in DOMAIN p
    BY <2>1, Zenon
  <2> QED
    BY <2>1, <2>2, Zenon
<1> QED
  BY <1>2, <1>3, <1>4, Zenon DEF Tracked

\* The map q is p without the key h.
Without(p, q, h) ==
    /\ DOMAIN q = DOMAIN p \ {h}
    /\ \A g \in DOMAIN q : q[g] = p[g]

\* A request less.
LEMMA TrackedLess ==
    ASSUME NEW A, NEW p, Tracked(A, p), NEW r \in A, NEW q,
           Without(p, q, r.h)
    PROVE  Tracked(A \ {r}, q)
<1>1. \A x \in A \ {r} : x.h # r.h
  BY Zenon DEF Tracked
<1> QED
  BY <1>1, Zenon DEF Tracked, Without

\* A request that the LLC forgets.
LEMMA TrackedForgotten ==
    ASSUME NEW A, NEW p, Tracked(A, p), NEW r \in A, r.user = "Sndcp"
    PROVE  Tracked(A \ {r}, p)
<1>1. p[r.h].user = "Sndcp"
  <2>1. p[r.h] = [user |-> r.user, upper |-> r.upper]
    BY Zenon DEF Tracked
  <2> QED
    BY <2>1
<1> QED
  BY <1>1, Zenon DEF Tracked

\* Who asked for r hears of its result, and an outcome ends the transfer.
Tells(m, t, r, result) ==
    /\ MleGood(t.m)
    /\ \/ t.out = << >>
       \/ /\ t.out = <<[to |-> r.user, kind |-> "Report", handle |-> r.upper, result |-> result]>>
          /\ result # "NoSpecific"
    /\ result \in {"FirstComplete", "NoSpecific"} => t.m = m
    /\ result \in {"Success", "Failed"} => Without(m.pend, t.m.pend, r.h)

\* rx_tla_report_ind for a tracked request.
LEMMA ReportFacts ==
    ASSUME NEW m, MleGood(m), NEW A, Tracked(A, m.pend), NEW r \in A,
           NEW result \in {"FirstComplete", "NoSpecific", "Success", "Failed"}
    PROVE  Tells(m, RxTlaReportInd(m, r.h, result), r, result)
<1> DEFINE t == RxTlaReportInd(m, r.h, result)
           p == Restrict(m.pend, DOMAIN m.pend \ {r.h})
           n == [m EXCEPT !.pend = p]
           e == m.pend[r.h]
<1>1. r.h \in DOMAIN m.pend /\ e.user = r.user /\ e.upper = r.upper
  <2>1. r.h \in DOMAIN m.pend /\ e = [user |-> r.user, upper |-> r.upper]
    BY Zenon DEF Tracked
  <2> HIDE DEF e
  <2> QED
    BY <2>1, Zenon
<1>2. DOMAIN p = DOMAIN m.pend \ {r.h} /\ \A g \in DOMAIN p : p[g] = m.pend[g]
  BY Zenon DEF Restrict
<1>3. \/ /\ result = "NoSpecific" \/ result = "FirstComplete"
         /\ t.m = m /\ t.out = << >>
      \/ result = "FirstComplete" /\ t.m = m /\ t.out = PushMleReport(e, result)
      \/ result \in {"Success", "Failed"} /\ t.m = n /\ t.out = PushMleReport(e, result)
  <2> HIDE DEF p
  <2> QED
    BY <1>1, Zenon DEF RxTlaReportInd, p
<1>4. \/ PushMleReport(e, result) = << >>
      \/ PushMleReport(e, result) = <<[to |-> r.user, kind |-> "Report", handle |-> r.upper,
                                       result |-> result]>>
  <2> HIDE DEF e
  <2> QED
    BY <1>1, Zenon DEF PushMleReport
<1> HIDE DEF p, t
<1>5. n.pend = p /\ MleGood(n)
  BY <1>2 DEF MleGood
<1> HIDE DEF n, e
<1> QED
  BY <1>2, <1>3, <1>4, <1>5, Zenon DEF Tells, Without, t

------------------------------------------------------------------------------
(* The invariant *)

\* A request for a hand-over that SNDCP still waits for.
Live(s, r) == r.user = "Sndcp" /\ r.upper \in DOMAIN s.handoffs

\* A request of SNDCP has a handle it gave out; one it waits for is the allocation it is about.
Promise(s, S, r) ==
    /\ r.rep # None => r.rep.issi \in Issis
    /\ r.user = "Sndcp" => r.upper \in Nat /\ r.upper < s.next
    /\ Live(s, r) => /\ r.rep # None /\ r.rep.chan = "Replace"
                     /\ r.rep.issi = s.handoffs[r.upper].issi
                     /\ r.stage = "Sent" => r.rep.issi \in S

\* A report by which the terminal of hand-over h is taken to be on the channel.
Reports(m, h) == m.to = "Sndcp" /\ m.kind = "Report" /\ m.handle = h /\ m.result # "Failed"

\* A message to SNDCP is about a terminal or a handle it gave out, and a hand-over it tells of
\* was sent.
Message(s, S, m) ==
    m.to = "Sndcp" =>
      /\ m.kind \in {"Unitdata", "Configure", "Deregister"} => m.from \in Issis
      /\ m.kind = "Unitdata" =>
           /\ m.link \in Links
           /\ m.pdu.k \in {"Activate", "Request"} => m.pdu.nsapi \in Nsapis
           /\ m.pdu.k = "Reconnect" => m.pdu.nsapi \in Nsapis \cup {None}
      /\ m.kind = "Report" => /\ m.handle \in Nat /\ m.handle < s.next
                              /\ m.result \in {"FirstComplete", "Success", "Failed"}
      /\ \A h \in DOMAIN s.handoffs : Reports(m, h) => s.handoffs[h].issi \in S

\* Nothing can put terminal i on the channel before its next allocation is handed down,
\* unless that is assumed.
Off(assumed, s, A, Q, i) ==
    /\ assumed \/ ~ Ready(s, i)
    /\ \A r \in A : Live(s, r) /\ s.handoffs[r.upper].issi = i => r.stage = "Llc"
    /\ \A m \in Q : \A h \in DOMAIN s.handoffs : s.handoffs[h].issi = i => ~ Reports(m, h)

\* SNDCP is yet to hear of the loss.
Told(Q, i) ==
    \E m \in Q : m.to = "Sndcp" /\ m.kind = "Configure" /\ m.from = i /\ m.reason = "Loss"

Kinds ==
    /\ work \in Workloads
    /\ umac = [owner |-> umac.owner, pd |-> umac.pd, known |-> umac.known, lost |-> umac.lost]
    /\ umac.owner \in {"Free", "PacketData", "Voice"} /\ umac.pd \in Issis \cup {None}
    /\ umac.known \cup umac.lost \cup sentTo \cup gone \subseteq Issis
Promised == \A r \in air : IsRequest(r) /\ Promise(sn, sentTo, r)
Queued == IsQueue(inbox) /\ \A m \in Range(inbox) : Message(sn, sentTo, m)
Silenced == \A i \in gone : Forgotten(sn, i)
Lost == \A i \in umac.lost : Told(Range(inbox), i) \/ Off(work.assume, sn, air, Range(inbox), i)

IInv ==
    /\ Kinds /\ Good(sn) /\ MleGood(mle) /\ Tracked(air, mle.pend)
    /\ Promised /\ Queued /\ ReadyWasTransmitted /\ Silenced /\ Lost

------------------------------------------------------------------------------
(* Steps of SNDCP *)

\* What SNDCP forgets breaks no promise, when no hand-over of a terminal outlives its sending.
LEMMA PromiseForgets ==
    ASSUME NEW s, NEW t, NEW S, NEW U, NEW r, Forgets(s, t), Promise(s, S, r),
           \A h \in DOMAIN t.handoffs : t.handoffs[h].issi \in S => t.handoffs[h].issi \in U
    PROVE  Promise(t, U, r)
BY DEF Forgets, Promise, Live

\* Nor does it make a message one of something unsent.
LEMMA MessageForgets ==
    ASSUME NEW s, NEW t, NEW S, NEW U, NEW m, Forgets(s, t), Message(s, S, m),
           \A h \in DOMAIN t.handoffs : t.handoffs[h].issi \in S => t.handoffs[h].issi \in U
    PROVE  Message(t, U, m)
<1>1. t.next = s.next /\ \A h \in DOMAIN t.handoffs : h \in DOMAIN s.handoffs /\ t.handoffs[h] = s.handoffs[h]
  BY Zenon DEF Forgets
<1>2. m.to = "Sndcp" => \A h \in DOMAIN t.handoffs : Reports(m, h) => t.handoffs[h].issi \in U
  BY <1>1, Zenon DEF Message
<1> QED
  BY <1>1, <1>2, Zenon DEF Message

\* Nor does it open a way on to the channel.
LEMMA OffForgets ==
    ASSUME NEW s, NEW t, NEW A, NEW Q, NEW R \in SUBSET Q, NEW i, Forgets(s, t), NEW assumed,
           assumed \/ ~ Ready(t, i), Off(assumed, s, A, Q, i)
    PROVE  Off(assumed, t, A, R, i)
BY Zenon DEF Forgets, Off, Live

\* A message that is not the first is still there.
LEMMA ToldStays ==
    ASSUME NEW q, IsQueue(q), q # << >>, NEW i, Told(Range(q), i)
    PROVE  \/ Told(Range(Tail(q)), i)
           \/ Head(q).kind = "Configure" /\ Head(q).from = i /\ Head(q).reason = "Loss"
BY TakeFacts, Zenon DEF Told

\* What a step of SNDCP that forgets has to show.
LEMMA ForgetStep ==
    ASSUME IInv, inbox # << >>, NEW t, sn' = t, inbox' = Tail(inbox), Forgets(sn, t),
           UNCHANGED <<work, mle, air, umac>>, sentTo' \subseteq sentTo, gone' \subseteq Issis,
           \A h \in DOMAIN t.handoffs : t.handoffs[h].issi \in sentTo => t.handoffs[h].issi \in sentTo',
           work.assume \/ \A i \in Issis : Ready(t, i) => i \in sentTo',
           \A i \in gone' : Forgotten(t, i),
           \A i \in Issis : Off(work.assume, sn, air, Range(inbox), i) => work.assume \/ ~ Ready(t, i),
           \A i \in Issis : Head(inbox).kind = "Configure" /\ Head(inbox).from = i
                              /\ Head(inbox).reason = "Loss" =>
                              ~ Ready(t, i) /\ \A h \in DOMAIN t.handoffs : t.handoffs[h].issi # i
    PROVE  IInv'
<1>1. /\ IsQueue(inbox) /\ IsQueue(Tail(inbox)) /\ Head(inbox) \in Range(inbox)
      /\ Range(inbox) = {Head(inbox)} \cup Range(Tail(inbox))
  BY TakeFacts, Zenon DEF IInv, Queued
<1>2. Kinds' /\ Good(sn)' /\ MleGood(mle)' /\ Tracked(air, mle.pend)'
  BY Zenon DEF IInv, Kinds, Forgets, MleGood, Tracked
<1>3. Promised'
  <2>1. ASSUME NEW r \in air PROVE IsRequest(r) /\ Promise(t, sentTo', r)
    <3>1. IsRequest(r) /\ Promise(sn, sentTo, r)
      BY Zenon DEF IInv, Promised
    <3> QED
      BY <3>1, PromiseForgets, Zenon
  <2> QED
    BY <2>1, Zenon DEF Promised
<1>4. Queued'
  <2>1. ASSUME NEW m \in Range(Tail(inbox)) PROVE Message(t, sentTo', m)
    <3>1. Message(sn, sentTo, m)
      BY <1>1, Zenon DEF IInv, Queued
    <3> QED
      BY <3>1, MessageForgets, Zenon
  <2> QED
    BY <1>1, <2>1 DEF Queued
<1>5. ReadyWasTransmitted' /\ Silenced'
  BY Zenon DEF ReadyWasTransmitted, Silenced
<1>6. Lost'
  <2>1. ASSUME NEW i \in umac.lost
        PROVE  Told(Range(Tail(inbox)), i) \/ Off(work.assume, t, air, Range(Tail(inbox)), i)
    <3>1. i \in Issis
      BY Zenon DEF IInv, Kinds
    <3>2. CASE Off(work.assume, sn, air, Range(inbox), i)
      BY <1>1, <3>1, <3>2, OffForgets
    <3>3. CASE Told(Range(inbox), i)
      <4>1. CASE Told(Range(Tail(inbox)), i)
        BY <4>1, Zenon
      <4>2. CASE Head(inbox).kind = "Configure" /\ Head(inbox).from = i /\ Head(inbox).reason = "Loss"
        <5>1. ~ Ready(t, i) /\ \A h \in DOMAIN t.handoffs : t.handoffs[h].issi # i
          BY <3>1, <4>2, Zenon
        <5> QED
          BY <5>1, Zenon DEF Off, Live
      <4> QED
        BY <1>1, <3>3, <4>1, <4>2, ToldStays, Zenon
    <3> QED
      BY <3>2, <3>3, Zenon DEF IInv, Lost
  <2> QED
    BY <2>1, Zenon DEF Lost
<1> QED
  BY <1>2, <1>3, <1>4, <1>5, <1>6 DEF IInv

\* rx_mle_report_ind keeps the invariant: only a report of a transfer that was sent marks a terminal.
LEMMA ReportStep ==
    ASSUME IInv, SndcpReport
    PROVE  IInv'
<1> DEFINE m == Head(inbox)
           t == RxReport(sn, m.handle, m.result)
<1>1. /\ inbox # << >> /\ m.to = "Sndcp" /\ m.kind = "Report" /\ sn' = t /\ inbox' = Tail(inbox)
      /\ UNCHANGED <<work, mle, air, umac, sentTo, gone>>
  BY Zenon DEF SndcpReport
<1>2. m \in Range(inbox) /\ Message(sn, sentTo, m)
  BY <1>1, TakeFacts, Zenon DEF IInv, Queued
<1> HIDE DEF m
<1>3. m.result \in {"FirstComplete", "Success", "Failed"}
  BY <1>1, <1>2, Zenon DEF Message
<1>4. Good(sn)
  BY Zenon DEF IInv
<1>5. /\ Forgets(sn, t)
      /\ \A i \in Issis : Ready(t, i) =>
           \/ Ready(sn, i)
           \/ m.result # "Failed" /\ m.handle \in DOMAIN sn.handoffs /\ sn.handoffs[m.handle].issi = i
  BY <1>3, <1>4, ReportForgets, ZenonT(60)
<1> HIDE DEF t
<1>6. work.assume \/ \A i \in Issis : Ready(t, i) => i \in sentTo'
  BY <1>1, <1>2, <1>5 DEF IInv, ReadyWasTransmitted, Message, Reports
<1>7. \A i \in gone' : Forgotten(t, i)
  <2>1. gone \subseteq Issis /\ \A i \in gone : Forgotten(sn, i)
    BY Zenon DEF IInv, Kinds, Silenced
  <2> QED
    BY <1>1, <1>5, <2>1, ForgottenStays
<1>8. \A i \in Issis : Off(work.assume, sn, air, Range(inbox), i) => work.assume \/ ~ Ready(t, i)
  BY <1>1, <1>2, <1>5, Zenon DEF Off, Reports
<1>9. Head(inbox).kind # "Configure"
  BY <1>1, Zenon DEF m
<1>10. gone' \subseteq Issis
  BY <1>1, Zenon DEF IInv, Kinds
<1>11. \A i \in Issis : Head(inbox).kind = "Configure" /\ Head(inbox).from = i
                          /\ Head(inbox).reason = "Loss" =>
                          ~ Ready(t, i) /\ \A h \in DOMAIN t.handoffs : t.handoffs[h].issi # i
  BY <1>9, ZenonT(60)
<1> QED
  BY <1>1, <1>5, <1>6, <1>7, <1>8, <1>10, <1>11, ForgetStep, SMTT(30)

\* rx_ltpd_mle_configure_ind keeps the invariant: a loss clears what could still mark the terminal.
LEMMA ConfigureStep ==
    ASSUME IInv, SndcpConfigure
    PROVE  IInv'
<1> DEFINE m == Head(inbox)
           t == RxConfigure(sn, m.from, m.reason)
<1>1. /\ inbox # << >> /\ m.to = "Sndcp" /\ m.kind = "Configure" /\ sn' = t /\ inbox' = Tail(inbox)
      /\ sentTo' = IF m.reason = "Loss" THEN sentTo \ {m.from} ELSE sentTo
      /\ UNCHANGED <<work, mle, air, umac, gone>>
  BY Zenon DEF SndcpConfigure
<1>2. m \in Range(inbox) /\ Message(sn, sentTo, m)
  BY <1>1, TakeFacts, Zenon DEF IInv, Queued
<1>3. m = Head(inbox)
  BY Zenon
<1> HIDE DEF m
<1>4. m.from \in Issis /\ Good(sn)
  BY <1>1, <1>2, Zenon DEF Message, IInv
<1>5. /\ Forgets(sn, t) /\ ~ Ready(t, m.from)
      /\ \A j \in Issis : Ready(t, j) => Ready(sn, j)
      /\ m.reason = "Loss" => \A h \in DOMAIN t.handoffs : t.handoffs[h].issi # m.from
  BY <1>4, ConfigureForgets, Zenon
<1> HIDE DEF t
<1>6. /\ sentTo' \subseteq sentTo
      /\ \A h \in DOMAIN t.handoffs : t.handoffs[h].issi \in sentTo => t.handoffs[h].issi \in sentTo'
      /\ work.assume \/ \A i \in Issis : Ready(t, i) => i \in sentTo'
  BY <1>1, <1>5, Zenon DEF IInv, ReadyWasTransmitted
<1>7. gone' \subseteq Issis /\ \A i \in gone' : Forgotten(t, i)
  <2>1. gone \subseteq Issis /\ \A i \in gone : Forgotten(sn, i)
    BY Zenon DEF IInv, Kinds, Silenced
  <2> QED
    BY <1>1, <1>5, <2>1, ForgottenStays, SMTT(30)
<1>8. \A i \in Issis : Off(work.assume, sn, air, Range(inbox), i) => work.assume \/ ~ Ready(t, i)
  BY <1>5, Zenon DEF Off
<1>9. \A i \in Issis : Head(inbox).kind = "Configure" /\ Head(inbox).from = i
                         /\ Head(inbox).reason = "Loss" =>
                         ~ Ready(t, i) /\ \A h \in DOMAIN t.handoffs : t.handoffs[h].issi # i
  BY <1>3, <1>5, Zenon
<1> QED
  BY <1>1, <1>5, <1>6, <1>7, <1>8, <1>9, ForgetStep, SMTT(30)

\* rx_control keeps the invariant: a deregistered terminal is forgotten.
LEMMA ControlStep ==
    ASSUME SetFacts, IInv, SndcpControl
    PROVE  IInv'
<1> DEFINE m == Head(inbox)
           t == RxDeregister(sn, m.from)
<1>1. /\ inbox # << >> /\ m.to = "Sndcp" /\ m.kind = "Deregister" /\ sn' = t /\ inbox' = Tail(inbox)
      /\ sentTo' = sentTo \ {m.from} /\ gone' = gone \cup {m.from}
      /\ UNCHANGED <<work, mle, air, umac>>
  BY Zenon DEF SndcpControl
<1>2. m \in Range(inbox) /\ Message(sn, sentTo, m)
  BY <1>1, TakeFacts, Zenon DEF IInv, Queued
<1>3. Head(inbox).kind # "Configure"
  BY <1>1, Zenon
<1> HIDE DEF m
<1>4. m.from \in Issis /\ Good(sn)
  BY <1>1, <1>2, Zenon DEF Message, IInv
<1>5. /\ Forgets(sn, t) /\ Forgotten(t, m.from)
      /\ \A j \in Issis : Ready(t, j) => Ready(sn, j)
  BY <1>4, DeregisterForgets, Zenon
<1> HIDE DEF t
<1>6. /\ sentTo' \subseteq sentTo
      /\ \A h \in DOMAIN t.handoffs : t.handoffs[h].issi \in sentTo => t.handoffs[h].issi \in sentTo'
      /\ work.assume \/ \A i \in Issis : Ready(t, i) => i \in sentTo'
  BY <1>1, <1>5 DEF IInv, ReadyWasTransmitted, Forgotten, Ready
<1>7. gone' \subseteq Issis /\ \A i \in gone' : Forgotten(t, i)
  <2>1. gone \subseteq Issis /\ \A i \in gone : Forgotten(sn, i)
    BY Zenon DEF IInv, Kinds, Silenced
  <2> QED
    BY <1>1, <1>4, <1>5, <2>1, ForgottenStays, SMTT(30)
<1>8. \A i \in Issis : Off(work.assume, sn, air, Range(inbox), i) => work.assume \/ ~ Ready(t, i)
  BY <1>5, Zenon DEF Off
<1>9. \A i \in Issis : Head(inbox).kind = "Configure" /\ Head(inbox).from = i
                         /\ Head(inbox).reason = "Loss" =>
                         ~ Ready(t, i) /\ \A h \in DOMAIN t.handoffs : t.handoffs[h].issi # i
  BY <1>3, Zenon
<1> QED
  BY <1>1, <1>5, <1>6, <1>7, <1>8, <1>9, ForgetStep, SMTT(30)

=============================================================================

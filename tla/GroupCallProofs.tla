-------------------------- MODULE GroupCallProofs --------------------------
(* Proofs about GroupCall for every set of radios, groups and bearers and     *)
(* every length of the floor queue.                                           *)
EXTENDS GroupCall, FiniteSetTheorems, TLAPS

-----------------------------------------------------------------------------
(* Sequences *)

\* No two places hold the same value.
Once(s) == \A m, n \in 1..Len(s) : s[m] = s[n] => m = n

\* Every value of s is one of t's.
Within(s, t) == \A n \in 1..Len(s) : Contains(t, s[n])

\* What is left after a withdrawal: i is gone, the others keep one place each.
LEMMA WithoutFacts ==
    ASSUME NEW S, NEW s \in Seq(S), NEW i
    PROVE  /\ Without(s, i) \in Seq(S)
           /\ Len(Without(s, i)) <= Len(s)
           /\ Within(Without(s, i), s)
           /\ Once(s) => Once(Without(s, i)) /\ ~Contains(Without(s, i), i)
<1>1. CASE ~Contains(s, i)
  BY <1>1 DEF Without, Within, Contains
<1>2. CASE Contains(s, i)
  <2> DEFINE k == CHOOSE n \in 1..Len(s) : s[n] = i
             a == SubSeq(s, 1, k - 1)
             z == SubSeq(s, k + 1, Len(s))
  <2>1. k \in 1..Len(s) /\ s[k] = i /\ Len(s) \in Nat
    BY <1>2 DEF Contains
  <2>2. Without(s, i) = a \o z
    BY <1>2, Zenon DEF Without, RemoveAt
  <2> HIDE DEF k
  <2>3. /\ a \in Seq(S) /\ Len(a) = k - 1
        /\ \A n \in 1..(k - 1) : a[n] = s[n]
    BY <2>1
  <2>4. /\ z \in Seq(S) /\ Len(z) = Len(s) - k
        /\ \A n \in 1..(Len(s) - k) : z[n] = s[k + n]
    <3>1. \A n \in (k + 1)..Len(s) : s[n] \in S
      BY <2>1
    <3>2. /\ z \in Seq(S)
          /\ Len(z) = IF k + 1 <= Len(s) THEN Len(s) - (k + 1) + 1 ELSE 0
          /\ \A n \in 1..(Len(s) - (k + 1) + 1) : z[n] = s[k + 1 + n - 1]
      BY <2>1, <3>1
    <3> QED
      BY <2>1, <3>2
  <2> HIDE DEF a, z
  <2> DEFINE w == a \o z
  <2>5. /\ w \in Seq(S) /\ Len(w) = Len(s) - 1
        /\ \A n \in 1..(Len(s) - 1) : w[n] = IF n < k THEN s[n] ELSE s[n + 1]
    <3>1. /\ w \in Seq(S) /\ Len(w) = Len(a) + Len(z)
          /\ \A n \in 1..(Len(a) + Len(z)) :
               w[n] = IF n <= Len(a) THEN a[n] ELSE z[n - Len(a)]
      <4>1. a \in Seq(S) /\ z \in Seq(S)
        BY <2>3, <2>4
      <4> QED
        BY <4>1
    <3> HIDE DEF w
    <3>2. Len(a) + Len(z) = Len(s) - 1
      BY <2>1, <2>3, <2>4
    <3>3. \A n \in 1..(Len(s) - 1) : w[n] = IF n <= k - 1 THEN a[n] ELSE z[n - (k - 1)]
      BY <2>3, <3>1, <3>2, Zenon
    <3>4. ASSUME NEW n \in 1..(Len(s) - 1)
          PROVE  w[n] = IF n < k THEN s[n] ELSE s[n + 1]
      <4>1. CASE n < k
        <5>1. n <= k - 1 /\ n \in 1..(k - 1)
          BY <4>1, <2>1
        <5> QED
          BY <4>1, <5>1, <2>3, <3>3, Zenon
      <4>2. CASE ~(n < k)
        <5>1. n - (k - 1) \in 1..(Len(s) - k) /\ ~(n <= k - 1)
          BY <4>2, <2>1
        <5>2. z[n - (k - 1)] = s[k + (n - (k - 1))]
          BY <5>1, <2>4, Zenon
        <5>3. k + (n - (k - 1)) = n + 1
          BY <2>1
        <5> QED
          BY <4>2, <5>1, <5>2, <5>3, <3>3, Zenon
      <4> QED
        BY <4>1, <4>2
    <3> QED
      BY <3>1, <3>2, <3>4, Zenon
  <2> HIDE DEF w
  <2>6. Once(s) => Once(w)
    BY <2>1, <2>5 DEF Once
  <2>7. Within(w, s)
    BY <2>1, <2>5 DEF Within, Contains
  <2>8. Once(s) => ~Contains(w, i)
    BY <2>1, <2>5 DEF Contains, Once
  <2> QED
    BY <2>1, <2>2, <2>5, <2>6, <2>7, <2>8 DEF w
<1> QED
  BY <1>1, <1>2

\* What is left behind place n.
LEMMA BehindFacts ==
    ASSUME NEW S, NEW s \in Seq(S), Once(s), NEW n \in 0..Len(s)
    PROVE  LET z == SubSeq(s, n + 1, Len(s))
           IN  /\ z \in Seq(S)
               /\ Once(z)
               /\ Len(z) <= Len(s)
               /\ Within(z, s)
<1> DEFINE z == SubSeq(s, n + 1, Len(s))
<1>1. Len(s) \in Nat /\ \A m \in (n + 1)..Len(s) : s[m] \in S
  OBVIOUS
<1>2. /\ z \in Seq(S)
      /\ Len(z) = IF n + 1 <= Len(s) THEN Len(s) - (n + 1) + 1 ELSE 0
      /\ \A m \in 1..(Len(s) - (n + 1) + 1) : z[m] = s[n + 1 + m - 1]
  BY <1>1
<1> HIDE DEF z
<1>3. Len(z) = Len(s) - n /\ Len(s) - (n + 1) + 1 = Len(s) - n
  BY <1>1, <1>2
<1>4. ASSUME NEW m \in 1..(Len(s) - n) PROVE z[m] = s[n + m]
  <2>1. n + 1 + m - 1 = n + m
    BY <1>1
  <2> QED
    BY <1>2, <1>3, <2>1, Zenon
<1>5. Once(z)
  BY <1>1, <1>3, <1>4 DEF Once
<1>6. Within(z, s)
  <2>1. ASSUME NEW m \in 1..Len(z) PROVE Contains(s, z[m])
    <3>1. m \in 1..(Len(s) - n) /\ n + m \in 1..Len(s)
      BY <1>1, <1>3
    <3> QED
      BY <3>1, <1>4, Zenon DEF Contains
  <2> QED
    BY <2>1, Zenon DEF Within
<1>7. Len(z) <= Len(s)
  BY <1>1, <1>3
<1> QED
  BY <1>2, <1>5, <1>6, <1>7, Zenon DEF z

\* A set put into a sequence: all of it is there, and nothing else.
LEMMA SetToSeqFacts ==
    ASSUME NEW T, IsFiniteSet(T)
    PROVE  /\ SetToSeq(T) \in Seq(T)
           /\ \A x \in T : Contains(SetToSeq(T), x)
<1> DEFINE n == Cardinality(T)
           f == SetToSeq(T)
<1>1. n \in Nat /\ ExistsBijection(1..n, T)
  BY FS_CardinalityType
<1>2. \E g \in [1..n -> T] : IsInjective(g)
  BY <1>1 DEF ExistsBijection, Bijection, Injection
<1>3. f \in [1..n -> T] /\ IsInjective(f)
  BY <1>2 DEF SetToSeq
<1>4. f \in Seq(T) /\ Len(f) = n
  BY <1>1, <1>3
<1>5. f \in Surjection(1..n, T)
  <2>1. f \in Injection(1..n, T)
    BY <1>3 DEF Injection
  <2>2. Cardinality(1..n) = n
    BY <1>1, FS_Interval
  <2> HIDE DEF f
  <2> QED
    BY <2>1, <2>2, FS_Injection
<1> HIDE DEF f, n
<1>6. \A x \in T : \E m \in 1..n : f[m] = x
  BY <1>5 DEF Surjection
<1> QED
  BY <1>4, <1>6 DEF Contains, f

\* Messages that are added at the end hide none of those before them, and taking
\* the first hides none but it.
LEMMA AppendedFacts ==
    ASSUME NEW S, NEW s \in Seq(S), NEW t \in Seq(S)
    PROVE  /\ s \o t \in Seq(S)
           /\ Within(s, s \o t)
           /\ Within(t, s \o t)
<1>1. /\ s \o t \in Seq(S) /\ Len(s \o t) = Len(s) + Len(t)
      /\ \A i \in 1 .. Len(s) + Len(t) :
           (s \o t)[i] = IF i <= Len(s) THEN s[i] ELSE t[i - Len(s)]
  OBVIOUS
<1> DEFINE w == s \o t
<1> HIDE DEF w
<1>2. Len(s) \in Nat /\ Len(t) \in Nat
  OBVIOUS
<1>3. Within(s, w)
  <2> SUFFICES ASSUME NEW n \in 1..Len(s) PROVE Contains(w, s[n])
    BY DEF Within
  <2>1. n \in 1..(Len(s) + Len(t)) /\ n <= Len(s)
    BY <1>2
  <2>2. w[n] = s[n]
    BY <1>1, <2>1, Zenon DEF w
  <2> QED
    BY <1>1, <2>1, <2>2, Zenon DEF Contains, w
<1>4. Within(t, w)
  <2> SUFFICES ASSUME NEW n \in 1..Len(t) PROVE Contains(w, t[n])
    BY DEF Within
  <2>1. /\ Len(s) + n \in 1..(Len(s) + Len(t)) /\ ~(Len(s) + n <= Len(s))
        /\ (Len(s) + n) - Len(s) = n
    BY <1>2
  <2>2. w[Len(s) + n] = t[n]
    BY <1>1, <2>1, Zenon DEF w
  <2> QED
    BY <1>1, <2>1, <2>2, Zenon DEF Contains, w
<1> QED
  BY <1>1, <1>3, <1>4 DEF w

-----------------------------------------------------------------------------
(* The operations on a call *)

\* What the invariants say of one call: a release has cancelled what was pending,
\* and the queue of a live call is fair.
Sound(c) ==
    /\ c \in Call
    /\ c.rel # None => c.tail = None /\ c.act = None /\ c.ready = None
    /\ c.rel = None => /\ Once(c.queue)
                       /\ Len(c.queue) <= MaxWaiters
                       /\ c.tx /\ Contains(c.queue, c.speaker) => c.tail = c.speaker

\* What a step makes of a call: the same call, still live only if it was, in which
\* a new waiter and a new local speaker belong to S.
Follows(c, d, S) ==
    /\ d.group = c.group
    /\ d.rel = None =>
         /\ c.rel = None
         /\ \A n \in 1..Len(d.queue) : d.queue[n] \in S \/ Contains(c.queue, d.queue[n])
         /\ Speaks(d, d.speaker) /\ d.speaker \in Radios =>
              d.speaker \in S \/ Speaks(c, d.speaker)

\* A release settles everything that was pending.
LEMMA ReleaseSound ==
    ASSUME NEW c \in Call, NEW S
    PROVE  /\ Sound(Release(c)) /\ Release(c).rel # None
           /\ Follows(c, Release(c), S)
<1> DEFINE r == IF c.rel = None THEN c.origin ELSE c.rel
           d == [c EXCEPT !.tail = None, !.act = None, !.ready = None, !.rel = r]
<1>1. r \in Radios \cup Uuids /\ r # None
  BY NoneAssumption DEF Call
<1> HIDE DEF r
<1>2. d \in Call
  BY <1>1, Zenon DEF Call
<1>3. d.tail = None /\ d.act = None /\ d.ready = None /\ d.rel = r /\ d.group = c.group
  BY DEF Call
<1>4. Release(c) = d
  BY DEF Release, Call, r
<1> HIDE DEF d
<1> QED
  BY <1>1, <1>2, <1>3, <1>4 DEF Sound, Follows

\* A grant takes the speaker out of the queue.
LEMMA GrantFloorFacts ==
    ASSUME NEW c \in Call, Once(c.queue), Len(c.queue) <= MaxWaiters, NEW i \in Issis
    PROVE  LET d == GrantFloor(c, i)
           IN  /\ d \in Call
               /\ d = [c EXCEPT !.queue = d.queue, !.speaker = i, !.tx = TRUE, !.regrant = FALSE]
               /\ Once(d.queue) /\ Len(d.queue) <= MaxWaiters
               /\ Within(d.queue, c.queue)
               /\ ~Contains(d.queue, i)
<1> DEFINE w == Without(c.queue, i)
<1>1. c.queue \in Seq(Radios)
  BY DEF Call
<1>2. /\ w \in Seq(Radios) /\ Once(w) /\ Len(w) <= Len(c.queue)
      /\ Within(w, c.queue) /\ ~Contains(w, i)
  BY <1>1, WithoutFacts
<1>3. Len(w) <= MaxWaiters
  BY <1>1, <1>2, SetsAssumption
<1> HIDE DEF w
<1>4. GrantFloor(c, i) = [c EXCEPT !.queue = w, !.speaker = i, !.tx = TRUE, !.regrant = FALSE]
  BY DEF GrantFloor, w
<1>5. GrantFloor(c, i) \in Call /\ GrantFloor(c, i).queue = w
  BY <1>2, <1>4, Zenon DEF Call
<1> QED
  BY <1>2, <1>3, <1>4, <1>5

\* An operation that leaves the identity of the call, its release and what the
\* queue depends on alone keeps it sound.
LEMMA SameFloorSound ==
    ASSUME NEW c, Sound(c), NEW d \in Call, NEW S,
           d.group = c.group, d.rel = c.rel, d.queue = c.queue, d.tail = c.tail,
           c.rel # None => d.act = None /\ d.ready = None,
           d.speaker = c.speaker, d.tx => c.tx
    PROVE  Sound(d) /\ Follows(c, d, S)
BY DEF Sound, Follows, Speaks, Contains, Call

\* A live call whose new queue is part of the old one stays sound if nobody in the
\* new queue speaks.
LEMMA LessQueueSound ==
    ASSUME NEW c, Sound(c), NEW d \in Call, NEW S,
           d.group = c.group, c.rel = None, d.rel = None,
           Once(d.queue), Len(d.queue) <= MaxWaiters, Within(d.queue, c.queue),
           d.tx => ~Contains(d.queue, d.speaker),
           d.tx /\ d.speaker \in Radios => d.speaker \in S \/ Speaks(c, d.speaker)
    PROVE  Sound(d) /\ Follows(c, d, S)
BY DEF Sound, Follows, Speaks, Within

\* The hangtime keeps the queue.
LEMMA HangtimeSound ==
    ASSUME NEW c, Sound(c), NEW S
    PROVE  /\ EnterHangtime(c) \in Call
           /\ Sound(EnterHangtime(c)) /\ Follows(c, EnterHangtime(c), S)
<1>1. /\ EnterHangtime(c) \in Call
      /\ EnterHangtime(c) = [c EXCEPT !.tx = FALSE, !.regrant = FALSE]
  BY Zenon DEF EnterHangtime, Sound, Call
<1> DEFINE d == EnterHangtime(c)
<1>2. /\ d.group = c.group /\ d.rel = c.rel /\ d.queue = c.queue /\ d.tail = c.tail
      /\ d.act = c.act /\ d.ready = c.ready /\ d.speaker = c.speaker /\ ~d.tx
  BY <1>1 DEF Sound, Call
<1>3. c.rel # None => c.act = None /\ c.ready = None
  BY DEF Sound
<1> HIDE DEF d
<1> QED
  BY <1>1, <1>2, <1>3, SameFloorSound, Zenon DEF d

\* The reported grant of a floor is one more pending item.
LEMMA ActivationSound ==
    ASSUME NEW c, Sound(c), c.rel = None, NEW i \in Issis, NEW S
    PROVE  LET d == QueueActivation(c, i)
           IN  d \in Call /\ Sound(d) /\ Follows(c, d, S)
<1> DEFINE a == [who |-> i, st |-> IF c.act # None /\ c.act.who = i /\ c.act.st = "sent"
                                   THEN "sent" ELSE "waiting"]
           d == [c EXCEPT !.act = a]
<1>1. a \in Activation
  BY DEF Activation
<1>2. QueueActivation(c, i) = d
  BY DEF QueueActivation
<1> HIDE DEF a
<1>3. d \in Call
  BY <1>1 DEF Sound, Call
<1>4. /\ d.group = c.group /\ d.rel = c.rel /\ d.queue = c.queue /\ d.tail = c.tail
      /\ d.speaker = c.speaker /\ d.tx = c.tx
  BY DEF Sound, Call
<1> HIDE DEF d
<1> QED
  BY <1>2, <1>3, <1>4, SameFloorSound

\* A reported grant: i speaks, waits no longer, and nobody is added to the queue.
LEMMA GrantedFacts ==
    ASSUME NEW c \in Call, Once(c.queue), Len(c.queue) <= MaxWaiters, NEW i \in Issis
    PROVE  LET d == Granted(c, i)
           IN  /\ d \in Call
               /\ d.group = c.group /\ d.rel = c.rel /\ d.tail = c.tail
               /\ d.speaker = i /\ d.tx
               /\ Once(d.queue) /\ Len(d.queue) <= MaxWaiters
               /\ Within(d.queue, c.queue)
               /\ ~Contains(d.queue, i)
<1> DEFINE f == GrantFloor(c, i)
           a == [who |-> i, st |-> IF f.act # None /\ f.act.who = i /\ f.act.st = "sent"
                                   THEN "sent" ELSE "waiting"]
           d == [f EXCEPT !.act = a]
<1>1. /\ f \in Call
      /\ f = [c EXCEPT !.queue = f.queue, !.speaker = i, !.tx = TRUE, !.regrant = FALSE]
      /\ Once(f.queue) /\ Len(f.queue) <= MaxWaiters
      /\ Within(f.queue, c.queue)
      /\ ~Contains(f.queue, i)
  BY GrantFloorFacts, Zenon
<1>2. a \in Activation
  BY DEF Activation
<1>3. Granted(c, i) = d
  BY DEF Granted, QueueActivation
<1> HIDE DEF f, a
<1>4. f.group = c.group /\ f.rel = c.rel /\ f.tail = c.tail /\ f.speaker = i /\ f.tx
  BY <1>1, Zenon DEF Call
<1>5. /\ d \in Call
      /\ d.group = f.group /\ d.rel = f.rel /\ d.tail = f.tail
      /\ d.speaker = f.speaker /\ d.tx = f.tx /\ d.queue = f.queue
  BY <1>1, <1>2 DEF Call
<1> HIDE DEF d
<1> QED
  BY <1>1, <1>3, <1>4, <1>5

\* A request is queued: the requester is new in the queue, and waits only if it
\* does not speak or has asked to go on during the tail of its own over.
LEMMA QueuedSound ==
    ASSUME NEW c, Sound(c), c.rel = None, NEW S, NEW i \in Radios \cap S,
           Speaks(c, i) => c.tail = i
    PROVE  Sound(Queued(c, i)) /\ Follows(c, Queued(c, i), S)
<1>1. CASE Contains(c.queue, i) \/ Len(c.queue) >= MaxWaiters
  BY <1>1, SameFloorSound DEF Queued, Sound
<1>2. CASE ~Contains(c.queue, i) /\ ~(Len(c.queue) >= MaxWaiters)
  <2> DEFINE w == Append(c.queue, i)
             d == [c EXCEPT !.queue = w]
  <2>1. Queued(c, i) = d
    BY <1>2 DEF Queued
  <2>2. c \in Call /\ c.queue \in Seq(Radios) /\ Once(c.queue)
    BY DEF Sound, Call
  <2>3. /\ w \in Seq(Radios) /\ Len(w) = Len(c.queue) + 1 /\ Len(c.queue) \in Nat
        /\ \A n \in 1..Len(c.queue) : w[n] = c.queue[n]
        /\ w[Len(c.queue) + 1] = i
    BY <2>2
  <2> HIDE DEF w
  <2>4. Once(w) /\ Len(w) <= MaxWaiters
    <3>1. Len(w) <= MaxWaiters
      BY <1>2, <2>3, SetsAssumption
    <3>2. ASSUME NEW m \in 1..Len(w), NEW n \in 1..Len(w), w[m] = w[n]
          PROVE  m = n
      <4>1. CASE m <= Len(c.queue) /\ n <= Len(c.queue)
        BY <4>1, <2>2, <2>3, <3>2 DEF Once
      <4>2. CASE m <= Len(c.queue) /\ n = Len(c.queue) + 1
        BY <4>2, <1>2, <2>3, <3>2 DEF Contains
      <4>3. CASE n <= Len(c.queue) /\ m = Len(c.queue) + 1
        BY <4>3, <1>2, <2>3, <3>2 DEF Contains
      <4> QED
        BY <4>1, <4>2, <4>3, <2>3
    <3> QED
      BY <3>1, <3>2 DEF Once
  <2>5. /\ d \in Call /\ d.queue = w /\ d.group = c.group /\ d.rel = c.rel
        /\ d.tail = c.tail /\ d.speaker = c.speaker /\ d.tx = c.tx
    BY <2>2, <2>3 DEF Call
  <2> HIDE DEF d
  <2>6. \A n \in 1..Len(w) : w[n] = i \/ Contains(c.queue, w[n])
    BY <2>3 DEF Contains
  <2>7. d.tx /\ Contains(w, d.speaker) => d.tail = d.speaker
    <3>1. Contains(w, d.speaker) => d.speaker = i \/ Contains(c.queue, d.speaker)
      BY <2>6 DEF Contains
    <3> QED
      BY <2>5, <3>1 DEF Sound, Speaks
  <2>8. Sound(d)
    BY <2>4, <2>5, <2>7 DEF Sound
  <2>9. Follows(c, d, S)
    BY <2>5, <2>6 DEF Follows, Speaks
  <2> QED
    BY <2>1, <2>8, <2>9
<1> QED
  BY <1>1, <1>2

-----------------------------------------------------------------------------
(* The inductive invariant *)

\* Each conjunct but the last rests on the others: what a release may leave behind
\* and who may be granted is only known of typed, sound calls.
IInv ==
    /\ TypeOK
    /\ OneLiveCallPerGroup
    /\ ReleaseCancelsFloorWork
    /\ QueueWellFormed
    /\ LiveCallsListened

\* The invariant, call by call.
LEMMA InvSound ==
    ASSUME IInv, NEW b \in Bearers, call[b] # None
    PROVE  Sound(call[b])
<1>1. call[b] \in Call
  BY DEF IInv, TypeOK
<1>2. call[b].rel # None => call[b].tail = None /\ call[b].act = None /\ call[b].ready = None
  BY DEF IInv, ReleaseCancelsFloorWork
<1>3. call[b].rel = None =>
        /\ Once(call[b].queue)
        /\ Len(call[b].queue) <= MaxWaiters
        /\ \A n \in 1..Len(call[b].queue) :
             Speaks(call[b], call[b].queue[n]) => call[b].tail = call[b].queue[n]
  BY DEF IInv, QueueWellFormed, Live, Once
<1> QED
  BY <1>1, <1>2, <1>3 DEF Sound, Contains, Speaks

\* Nothing happens to a call.
LEMMA Unchanging ==
    ASSUME NEW c, NEW S
    PROVE  Follows(c, c, S)
BY DEF Follows, Contains

\* What every step does to the calls: each follows from the one before, and at
\* most one is new, of a group that has listeners and no other live call.
Fresh(b) == call[b] = None /\ call'[b] # None
Evolves ==
    /\ \A b \in Bearers : call'[b] # None =>
         /\ Sound(call'[b])
         /\ call[b] # None => Follows(call[b], call'[b], Members(call[b].group))
         /\ call[b] = None => /\ call'[b].queue = <<>>
                              /\ LiveFor(call'[b].group) = {}
                              /\ HasListener(affil, ext, call'[b].group)
    /\ \A b1, b2 \in Bearers : Fresh(b1) /\ Fresh(b2) => b1 = b2

\* What every step but a departure does: nobody is lost.
Keeps ==
    /\ \A i \in Radios, g \in Groups : Counted(i, g) => Counted(i, g)'
    /\ ext \subseteq ext'

\* What every step does for the live calls: their waiters are still members, and
\* somebody still listens.
Cares ==
    \A b \in Bearers, g \in Groups : Live(b)' /\ call'[b].group = g =>
        /\ \A i \in Radios : Contains(call'[b].queue, i) /\ Counted(i, g) => Counted(i, g)'
        /\ (\E i \in Radios : Counted(i, g)) \/ (\E i \in Remotes : <<i, g>> \in ext)
             => (\E i \in Radios : Counted(i, g)') \/ (\E i \in Remotes : <<i, g>> \in ext')

\* A step that ends nobody's membership does right by every live call.
LEMMA KeepsCares == Keeps => Cares
BY DEF Keeps, Cares

\* Such steps preserve the invariant.
LEMMA CaringStep ==
    ASSUME IInv, TypeOK', Evolves, Cares
    PROVE  IInv'
<1>1. OneLiveCallPerGroup'
  <2> SUFFICES ASSUME NEW b1 \in Bearers, NEW b2 \in Bearers,
                      Live(b1)', Live(b2)', call'[b1].group = call'[b2].group
               PROVE  b1 = b2
    BY DEF OneLiveCallPerGroup
  <2>1. CASE call[b1] # None /\ call[b2] # None
    BY <2>1 DEF IInv, OneLiveCallPerGroup, Evolves, Follows, Live
  <2>2. CASE call[b1] = None /\ call[b2] # None
    BY <2>2 DEF Evolves, Follows, Live, LiveFor
  <2>3. CASE call[b1] # None /\ call[b2] = None
    BY <2>3 DEF Evolves, Follows, Live, LiveFor
  <2>4. CASE call[b1] = None /\ call[b2] = None
    BY <2>4 DEF Evolves, Fresh, Live
  <2> QED
    BY <2>1, <2>2, <2>3, <2>4
<1>2. ReleaseCancelsFloorWork'
  BY DEF ReleaseCancelsFloorWork, Evolves, Sound
<1>3. QueueWellFormed'
  <2> SUFFICES ASSUME NEW b \in Bearers, Live(b)'
               PROVE  /\ Once(call'[b].queue)
                      /\ Len(call'[b].queue) <= MaxWaiters
                      /\ \A n \in 1..Len(call'[b].queue) :
                           /\ Speaks(call'[b], call'[b].queue[n])
                                => call'[b].tail = call'[b].queue[n]
                           /\ \A i \in {call'[b].queue[n]}, g \in {call'[b].group} :
                                Counted(i, g)'
    BY DEF QueueWellFormed, Once, Speaks, Counted, Affiliated, Leaving
  <2>1. Sound(call'[b]) /\ call'[b].rel = None
    BY DEF Evolves, Live
  <2>2. ASSUME NEW n \in 1..Len(call'[b].queue)
        PROVE  Speaks(call'[b], call'[b].queue[n]) => call'[b].tail = call'[b].queue[n]
    BY <2>1 DEF Sound, Speaks, Contains
  <2>3. ASSUME NEW n \in 1..Len(call'[b].queue)
        PROVE  \A i \in {call'[b].queue[n]}, g \in {call'[b].group} : Counted(i, g)'
    <3> SUFFICES ASSUME NEW i, NEW g, i = call'[b].queue[n], g = call'[b].group
                 PROVE  Counted(i, g)'
      OBVIOUS
    <3>1. i \in Radios /\ g \in Groups
      BY <2>1 DEF Sound, Call
    <3>2. call[b] # None
      BY <2>3 DEF Evolves, Live
    <3>3. Follows(call[b], call'[b], Members(call[b].group))
      BY <3>2 DEF Evolves, Live
    <3>4. call[b].rel = None /\ call[b].group = g
      BY <2>1, <3>3 DEF Follows
    <3>5. i \in Members(g) \/ Contains(call[b].queue, i)
      BY <2>1, <3>3, <3>4 DEF Follows
    <3>6. Counted(i, g)
      BY <3>2, <3>4, <3>5 DEF IInv, QueueWellFormed, Live, Contains, Members, Counted
    <3>7. Contains(call'[b].queue, i)
      BY DEF Contains
    <3> QED
      BY <3>1, <3>6, <3>7 DEF Cares
  <2> QED
    BY <2>1, <2>2, <2>3 DEF Sound
<1>4. LiveCallsListened'
  <2> SUFFICES ASSUME NEW b \in Bearers, Live(b)'
               PROVE  \/ HasListener(affil', ext', call'[b].group)
                      \/ \E i \in Radios : \A g \in {call'[b].group} : Leaving(i, g)'
    BY Zenon DEF LiveCallsListened, Leaving
  <2> SUFFICES ASSUME NEW g, g = call'[b].group
               PROVE  HasListener(affil', ext', g) \/ \E i \in Radios : Leaving(i, g)'
    OBVIOUS
  <2>1. g \in Groups
    BY DEF Evolves, Live, Sound, Call
  <2>2. HasListener(affil, ext, g) \/ \E i \in Radios : Leaving(i, g)
    BY DEF Evolves, Follows, Live, IInv, LiveCallsListened
  <2>3. (\E i \in Radios : Counted(i, g)) \/ \E i \in Remotes : <<i, g>> \in ext
    BY <2>2 DEF HasListener, HasLocalListener, Counted, Affiliated
  <2>4. (\E i \in Radios : Counted(i, g)') \/ \E i \in Remotes : <<i, g>> \in ext'
    BY <2>1, <2>3 DEF Cares
  <2> QED
    BY <2>4 DEF HasListener, HasLocalListener, Counted, Affiliated
<1> QED
  BY <1>1, <1>2, <1>3, <1>4 DEF IInv

-----------------------------------------------------------------------------
(* The steps that lose nobody *)

\* What CMCE sends are messages.
LEMMA Messages ==
    ASSUME NEW b \in Bearers
    PROVE  /\ \A i \in Issis : /\ ToUmac("Open", b, i) \in Message
                               /\ ToUmac("FloorGranted", b, i) \in Message
                               /\ \A g : Both(g, "FloorGranted", b, i) \in Seq(Message)
           /\ \A type \in {"Close", "FloorReleased", "CallEnded"} :
                ToUmac(type, b, None) \in Message
           /\ \A g : Both(g, "FloorReleased", b, None) \in Seq(Message)
           /\ \A x \in Media : ToUmac("SetDlMediaSource", b, x) \in Message
           /\ ToBrew("CallEnded", b, None) \in Message
           /\ \A u \in Uuids : ToBrew("NetworkCallReady", b, u) \in Message
<1>1. ASSUME NEW i \in Issis
      PROVE  /\ ToUmac("Open", b, i) \in Message /\ ToUmac("FloorGranted", b, i) \in Message
             /\ ToBrew("FloorGranted", b, i) \in Message
  BY DEF ToUmac, ToBrew, Message, UmacMsg, BrewMsg, Msg
<1>2. /\ \A type \in {"Close", "FloorReleased", "CallEnded"} : ToUmac(type, b, None) \in Message
      /\ ToBrew("FloorReleased", b, None) \in Message /\ ToBrew("CallEnded", b, None) \in Message
  BY DEF ToUmac, ToBrew, Message, UmacMsg, BrewMsg, Msg
<1>3. /\ \A x \in Media : ToUmac("SetDlMediaSource", b, x) \in Message
      /\ \A u \in Uuids : ToBrew("NetworkCallReady", b, u) \in Message
  BY DEF ToUmac, ToBrew, Message, UmacMsg, BrewMsg, Msg
<1>4. \A x, y \in Message : <<x>> \in Seq(Message) /\ <<x, y>> \in Seq(Message)
  OBVIOUS
<1>5. /\ \A g : \A i \in Issis : Both(g, "FloorGranted", b, i) \in Seq(Message)
      /\ \A g : Both(g, "FloorReleased", b, None) \in Seq(Message)
  BY <1>1, <1>2, <1>4, Zenon DEF Both
<1> QED
  BY <1>1, <1>2, <1>3, <1>5

\* The message that ends a session in Brew names no bearer.
LEMMA EndMessage == \A u \in Uuids : ToBrew("NetworkCallEnd", None, u) \in Message
BY DEF ToBrew, Message, BrewMsg, Msg

\* What may be left of the router's queue when CMCE acts: every report of a
\* departure is still there.
Rest(q) ==
    /\ q \in Seq(Message)
    /\ \A n \in 1..Len(mq) : mq[n].type = "Deaffiliate" => Contains(q, mq[n])

\* A step that handles no message leaves the whole queue.
LEMMA RestWhole == ASSUME IInv PROVE Rest(mq)
BY DEF IInv, TypeOK, Rest, Contains

\* The oldest message may go, unless it is the report of a departure.
LEMMA RestTail ==
    ASSUME TypeOK, mq # <<>>, Head(mq).type # "Deaffiliate"
    PROVE  Rest(Tail(mq))
<1> DEFINE q == Tail(mq)
<1>1. /\ q \in Seq(Message) /\ Len(q) = Len(mq) - 1 /\ Len(mq) \in Nat \ {0}
      /\ Head(mq) = mq[1]
      /\ \A n \in 1..Len(q) : q[n] = mq[n + 1]
  BY DEF TypeOK
<1> HIDE DEF q
<1>2. ASSUME NEW n \in 1..Len(mq), mq[n].type = "Deaffiliate" PROVE Contains(q, mq[n])
  <2>1. n # 1
    BY <1>1, <1>2
  <2>2. n - 1 \in 1..Len(q) /\ (n - 1) + 1 = n
    BY <1>1, <2>1
  <2> QED
    BY <1>1, <2>2, Zenon DEF Contains
<1> QED
  BY <1>1, <1>2 DEF Rest, q

\* Sending loses no report of a departure.
LEMMA SendingKeeps ==
    ASSUME NEW q, Rest(q), NEW out \in Seq(Message), mq' = q \o out,
           affil \subseteq affil', ext \subseteq ext'
    PROVE  mq' \in Seq(Message) /\ Keeps
<1>1. mq' \in Seq(Message) /\ Within(q, mq')
  BY AppendedFacts DEF Rest
<1>2. ASSUME NEW i, NEW g, Leaving(i, g) PROVE Leaving(i, g)'
  <2>1. PICK n \in 1..Len(mq) : mq[n].type = "Deaffiliate" /\ mq[n].arg = [issi |-> i, group |-> g]
    BY <1>2 DEF Leaving
  <2>2. PICK k \in 1..Len(q) : q[k] = mq[n]
    BY <2>1 DEF Rest, Contains
  <2>3. PICK j \in 1..Len(mq') : mq'[j] = q[k]
    BY <1>1 DEF Within, Contains
  <2> QED
    BY <2>1, <2>2, <2>3 DEF Leaving
<1> QED
  BY <1>1, <1>2, Zenon DEF Keeps, Counted, Affiliated

\* A step that changes one call.
LEMMA PutStep ==
    ASSUME IInv, NEW b \in Bearers, call[b] # None, NEW d, Sound(d),
           Follows(call[b], d, Members(call[b].group)),
           NEW q, Rest(q), NEW out \in Seq(Message), Put(b, d, q, out)
    PROVE  TypeOK' /\ Evolves /\ Keeps
<1>1. TypeOK /\ d \in Call
  BY DEF IInv, Sound
<1>2. mq' \in Seq(Message) /\ Keeps
  BY SendingKeeps DEF Put
<1>3. TypeOK'
  BY <1>1, <1>2 DEF TypeOK, Put
<1>4. \A a \in Bearers : call'[a] = IF a = b THEN d ELSE call[a]
  BY <1>1 DEF Put, TypeOK
<1>5. ASSUME NEW a \in Bearers, call'[a] # None
      PROVE  /\ call[a] # None /\ Sound(call'[a])
             /\ Follows(call[a], call'[a], Members(call[a].group))
  <2>1. CASE a = b
    BY <1>4, <2>1
  <2>2. CASE a # b
    BY <1>4, <1>5, <2>2, InvSound, Unchanging
  <2> QED
    BY <2>1, <2>2
<1>6. \A a \in Bearers : ~Fresh(a)
  BY <1>5 DEF Fresh
<1>7. Evolves
  BY <1>5, <1>6, Zenon DEF Evolves
<1> QED
  BY <1>2, <1>3, <1>7

\* A call that is set up has the type of a call.
LEMMA NewCallType ==
    ASSUME NEW g \in Groups, NEW o \in Radios \cup Uuids, NEW u \in Uuids \cup {None},
           NEW i \in Issis, NEW p \in Priorities, NEW r \in Readiness \cup {None}
    PROVE  /\ NewCall(g, o, u, i, p, r) \in Call
           /\ NewCall(g, o, u, i, p, r) # None
<1>1. NewCall(g, o, u, i, p, r) \in Call
  BY DEF NewCall, Call
<1> QED
  BY <1>1, NoneAssumption, Zenon

\* A step that sets up a call.
LEMMA NewCallStep ==
    ASSUME IInv, NEW b \in Bearers, call[b] = None,
           NEW g \in Groups, NEW o \in Radios \cup Uuids, NEW u \in Uuids \cup {None},
           NEW i \in Issis, NEW p \in Priorities, NEW r \in Readiness \cup {None},
           LiveFor(g) = {}, HasListener(affil, ext, g),
           NEW q, Rest(q), NEW out \in Seq(Message), Put(b, NewCall(g, o, u, i, p, r), q, out)
    PROVE  TypeOK' /\ Evolves /\ Keeps
<1> DEFINE d == NewCall(g, o, u, i, p, r)
<1>1. /\ d \in Call /\ d # None /\ d.group = g /\ d.queue = <<>> /\ d.rel = None
  <2>1. d.group = g /\ d.queue = <<>> /\ d.rel = None
    BY DEF NewCall
  <2> QED
    BY <2>1, NewCallType, ZenonT(60)
<1>2. Sound(d)
  BY <1>1, SetsAssumption DEF Sound, Once, Contains
<1> HIDE DEF d
<1>3. TypeOK
  BY DEF IInv
<1>4. mq' \in Seq(Message) /\ Keeps
  BY SendingKeeps DEF Put
<1>5. TypeOK'
  BY <1>1, <1>3, <1>4 DEF TypeOK, Put, d
<1>6. \A a \in Bearers : call'[a] = IF a = b THEN d ELSE call[a]
  BY <1>3 DEF Put, TypeOK, d
<1>7. Evolves
  BY <1>1, <1>2, <1>6, InvSound, Unchanging DEF Evolves, Fresh
<1> QED
  BY <1>4, <1>5, <1>7

\* A step that leaves the calls alone.
LEMMA IdleStep ==
    ASSUME IInv, call' = call, affil' \subseteq Radios \X Groups, ext' \subseteq Remotes \X Groups,
           mq' \in Seq(Message)
    PROVE  TypeOK' /\ Evolves
<1>1. TypeOK'
  BY DEF IInv, TypeOK
<1>2. Evolves
  BY InvSound, Unchanging DEF Evolves, Fresh
<1> QED
  BY <1>1, <1>2

\* A step that leaves calls and subscribers alone.
LEMMA StillStep ==
    ASSUME IInv, call' = call, affil' = affil, ext' = ext,
           NEW q, Rest(q), mq' = q \/ \E out \in Seq(Message) : mq' = q \o out
    PROVE  TypeOK' /\ Evolves /\ Keeps
<1>1. TypeOK
  BY DEF IInv
<1>2. mq' \in Seq(Message) /\ Keeps
  <2>1. CASE mq' = q
    BY <2>1 DEF Rest, Keeps, Counted, Affiliated, Leaving, Contains
  <2>2. CASE \E out \in Seq(Message) : mq' = q \o out
    BY <2>2, SendingKeeps, Zenon
  <2> QED
    BY <2>1, <2>2
<1> QED
  BY <1>1, <1>2, IdleStep DEF TypeOK

\* Behind place n of the queue of a live call.
LEMMA ThroughFacts ==
    ASSUME NEW c \in Call, Once(c.queue), Len(c.queue) <= MaxWaiters,
           NEW n \in 0..Len(c.queue)
    PROVE  LET d == Through(c, n)
           IN  /\ d \in Call
               /\ d = [c EXCEPT !.queue = d.queue]
               /\ Once(d.queue) /\ Len(d.queue) <= MaxWaiters
               /\ Within(d.queue, c.queue)
<1> DEFINE z == SubSeq(c.queue, n + 1, Len(c.queue))
<1>1. c.queue \in Seq(Radios)
  BY DEF Call
<1>2. z \in Seq(Radios) /\ Once(z) /\ Len(z) <= Len(c.queue) /\ Within(z, c.queue)
  BY <1>1, BehindFacts
<1>3. Len(z) <= MaxWaiters
  BY <1>1, <1>2, SetsAssumption
<1> HIDE DEF z
<1>4. Through(c, n) = [c EXCEPT !.queue = z]
  BY DEF Through, z
<1>5. Through(c, n) \in Call /\ Through(c, n).queue = z
  BY <1>2, <1>4 DEF Call
<1> QED
  BY <1>2, <1>3, <1>4, <1>5

\* The floor passes to the waiter at place n, who belongs to S.
LEMMA PassedOnSound ==
    ASSUME NEW c, Sound(c), c.rel = None, NEW S,
           NEW t \in {c.tail, None},
           NEW n \in 1..Len(c.queue), c.queue[n] \in S
    PROVE  LET d == Granted(Through([c EXCEPT !.tail = t], n), c.queue[n])
           IN  Sound(d) /\ Follows(c, d, S)
<1> DEFINE e == [c EXCEPT !.tail = t]
           f == Through(e, n)
           i == c.queue[n]
           d == Granted(f, i)
<1>1. c \in Call /\ Once(c.queue) /\ Len(c.queue) <= MaxWaiters /\ Len(c.queue) \in Nat
  BY DEF Sound, Call
<1>2. /\ e \in Call /\ e.group = c.group /\ e.rel = None /\ e.queue = c.queue
      /\ i \in Radios
  BY <1>1 DEF Call
<1> HIDE DEF e
<1>3. /\ f \in Call /\ f = [e EXCEPT !.queue = f.queue]
      /\ Once(f.queue) /\ Len(f.queue) <= MaxWaiters /\ Within(f.queue, e.queue)
  BY <1>1, <1>2, ThroughFacts
<1> HIDE DEF f
<1>4. f.group = c.group /\ f.rel = None
  BY <1>2, <1>3 DEF Call
<1> HIDE DEF i
<1>5. /\ d \in Call
      /\ d.group = f.group /\ d.rel = f.rel /\ d.speaker = i /\ d.tx
      /\ Once(d.queue) /\ Len(d.queue) <= MaxWaiters
      /\ Within(d.queue, f.queue) /\ ~Contains(d.queue, i)
  BY <1>2, <1>3, GrantedFacts DEF Issis
<1> HIDE DEF d
<1>6. Within(d.queue, c.queue)
  BY <1>2, <1>3, <1>5 DEF Within, Contains
<1>7. i \in S
  BY DEF i
<1>8. Sound(d) /\ Follows(c, d, S)
  BY <1>4, <1>5, <1>6, <1>7, LessQueueSound
<1> QED
  BY <1>8 DEF d, f, e, i

\* A request is withdrawn.
LEMMA WithdrawnSound ==
    ASSUME NEW c, Sound(c), c.rel = None, NEW i, NEW S
    PROVE  LET d == [c EXCEPT !.queue = Without(@, i)]
           IN  Sound(d) /\ Follows(c, d, S)
<1> DEFINE w == Without(c.queue, i)
           d == [c EXCEPT !.queue = w]
<1>1. c \in Call /\ c.queue \in Seq(Radios) /\ Once(c.queue) /\ Len(c.queue) <= MaxWaiters
  BY DEF Sound, Call
<1>2. /\ w \in Seq(Radios) /\ Once(w) /\ Len(w) <= Len(c.queue) /\ Within(w, c.queue)
  BY <1>1, WithoutFacts
<1>3. Len(w) <= MaxWaiters
  BY <1>1, <1>2, SetsAssumption
<1> HIDE DEF w
<1>4. /\ d \in Call /\ d.group = c.group /\ d.rel = None /\ d.queue = w
      /\ d.speaker = c.speaker /\ d.tx = c.tx /\ d.tail = c.tail
  BY <1>1, <1>2 DEF Call
<1> HIDE DEF d
<1>5. d.tx /\ Contains(d.queue, d.speaker) => d.tail = d.speaker
  BY <1>2, <1>4 DEF Sound, Within, Contains
<1>6. Sound(d)
  BY <1>2, <1>3, <1>4, <1>5 DEF Sound
<1>7. Follows(c, d, S)
  BY <1>2, <1>4 DEF Follows, Within, Speaks
<1> QED
  BY <1>6, <1>7 DEF d, w

\* The queue is emptied, whatever becomes of the tail and of a pending grant.
LEMMA EmptiedSound ==
    ASSUME NEW c, Sound(c), c.rel = None, NEW S,
           NEW t \in Radios \cup {None}, NEW a \in Activation \cup {None}
    PROVE  LET d == [c EXCEPT !.queue = <<>>, !.tail = t, !.act = a]
           IN  Sound(d) /\ Follows(c, d, S)
<1> DEFINE q == <<>>
           d == [c EXCEPT !.queue = q, !.tail = t, !.act = a]
<1>1. /\ q \in Seq(Radios) /\ Once(q) /\ Len(q) <= MaxWaiters /\ Within(q, c.queue)
      /\ \A x : ~Contains(q, x)
  BY SetsAssumption DEF Once, Within, Contains
<1> HIDE DEF q
<1>2. /\ d \in Call /\ d.group = c.group /\ d.rel = None /\ d.queue = q
      /\ d.speaker = c.speaker /\ d.tx = c.tx
  BY <1>1, ZenonT(60) DEF Call, Sound
<1> HIDE DEF d
<1>3. Sound(d) /\ Follows(c, d, S)
  BY <1>1, <1>2, LessQueueSound DEF Speaks
<1> QED
  BY <1>3 DEF d, q

\* Emptying the queue of floor requests leaves a sound call.
LEMMA EmptiedOnlySound ==
    ASSUME NEW c, Sound(c), c.rel = None, NEW S
    PROVE  LET d == [c EXCEPT !.queue = <<>>]
           IN  Sound(d) /\ Follows(c, d, S)
<1>1. c.tail \in Radios \cup {None} /\ c.act \in Activation \cup {None}
  BY DEF Sound, Call
<1>2. [c EXCEPT !.queue = <<>>] = [c EXCEPT !.queue = <<>>, !.tail = c.tail, !.act = c.act]
  BY Zenon DEF Sound, Call
<1> QED
  BY <1>1, <1>2, EmptiedSound, Zenon

\* Two operations after each other.
LEMMA FollowsThrough ==
    ASSUME NEW c, NEW d, NEW e, NEW S, Follows(c, d, S), Follows(d, e, S)
    PROVE  Follows(c, e, S)
BY DEF Follows, Contains, Speaks

\* Uplink signalling.
LEMMA SetupNewStep ==
    ASSUME IInv, NEW i \in Radios, NEW g \in Groups, NEW b \in Bearers, NEW p \in Priorities,
           SetupNew(i, g, b, p)
    PROVE  TypeOK' /\ Evolves /\ Keeps
<1> DEFINE out == <<ToUmac("Open", b, i)>> \o Both(g, "FloorGranted", b, i)
<1>1. out \in Seq(Message)
  <2>1. ToUmac("Open", b, i) \in Message /\ Both(g, "FloorGranted", b, i) \in Seq(Message)
    BY Messages DEF Issis
  <2>2. <<ToUmac("Open", b, i)>> \in Seq(Message)
    BY <2>1
  <2> QED
    BY <2>1, <2>2, AppendedFacts
<1>2. Put(b, NewCall(g, i, None, i, p, None), mq, out)
  BY DEF SetupNew
<1> HIDE DEF out
<1> QED
  BY <1>1, <1>2, NewCallStep, RestWhole, Zenon DEF SetupNew, Issis

\* A repeated U-SETUP of a member takes the floor of the group's call.
LEMMA SetupReentryStep ==
    ASSUME IInv, NEW i \in Radios, NEW b \in Bearers, SetupReentry(i, b)
    PROVE  TypeOK' /\ Evolves /\ Keeps
<1> DEFINE c == call[b]
           f == GrantFloor(c, i)
           t == IF f.tail = i THEN None ELSE f.tail
           d == [f EXCEPT !.tail = t]
           out == Both(c.group, "FloorGranted", b, i)
<1>1. c # None /\ c.rel = None /\ Affiliated(i, c.group) /\ Put(b, d, mq, out)
  BY DEF SetupReentry, Live
<1>2. Sound(c) /\ c \in Call /\ Once(c.queue) /\ Len(c.queue) <= MaxWaiters
  BY <1>1, InvSound DEF Sound
<1> HIDE DEF c
<1>3. /\ f \in Call
      /\ f = [c EXCEPT !.queue = f.queue, !.speaker = i, !.tx = TRUE, !.regrant = FALSE]
      /\ Once(f.queue) /\ Len(f.queue) <= MaxWaiters
      /\ Within(f.queue, c.queue) /\ ~Contains(f.queue, i)
  BY <1>2, GrantFloorFacts, Zenon DEF Issis
<1> HIDE DEF f
<1>4. f.group = c.group /\ f.rel = None /\ f.speaker = i /\ t \in Radios \cup {None}
  BY <1>1, <1>2, <1>3, Zenon DEF Call
<1> HIDE DEF t
<1>5. /\ d \in Call /\ d.group = c.group /\ d.rel = None /\ d.speaker = i
      /\ d.queue = f.queue
  BY <1>3, <1>4 DEF Call
<1> HIDE DEF d
<1>6. i \in Members(c.group)
  BY <1>1 DEF Members
<1>7. Sound(d) /\ Follows(c, d, Members(c.group))
  BY <1>1, <1>2, <1>3, <1>5, <1>6, LessQueueSound
<1>8. out \in Seq(Message)
  BY Messages DEF Issis
<1> HIDE DEF out
<1> QED
  BY <1>1, <1>7, <1>8, PutStep, RestWhole DEF c

\* A step that changes one call and sends nothing.
LEMMA QuietStep ==
    ASSUME IInv, NEW b \in Bearers, call[b] # None, NEW d, Sound(d),
           Follows(call[b], d, Members(call[b].group)),
           NEW q, Rest(q), Put(b, d, q, <<>>)
    PROVE  TypeOK' /\ Evolves /\ Keeps
<1>1. <<>> \in Seq(Message)
  OBVIOUS
<1> QED
  BY <1>1, PutStep, Zenon

\* U-TX DEMAND, in each of its six outcomes.
LEMMA TxDemandStep ==
    ASSUME IInv, NEW i \in Radios, NEW b \in Bearers, NEW preemptive, TxDemand(b, i, preemptive)
    PROVE  TypeOK' /\ Evolves /\ Keeps
<1> DEFINE c == call[b]
           S == Members(c.group)
<1>1. c # None /\ c.rel = None /\ i \in Radios \cap S
  BY DEF TxDemand, Live, Members
<1>2. Sound(c) /\ c \in Call /\ Once(c.queue) /\ Len(c.queue) <= MaxWaiters /\ i \in Issis
  BY <1>1, InvSound DEF Sound, Issis
<1>3. PICK d : /\ Put(b, d, mq, <<>>)
               /\ \/ d = Release(c)
                  \/ d = Queued(c, i) /\ c.speaker = i /\ c.tail = i
                  \/ d = Queued(c, i) /\ c.speaker # i
                  \/ d = [Granted(c, i) EXCEPT !.tail = None]
                  \/ d = Granted(c, i)
                  \/ d = QueueActivation(c, i)
  BY DEF TxDemand
<1>4. Sound(d) /\ Follows(c, d, S)
  <2> HIDE DEF c, S
  <2>1. CASE d = Release(c)
    BY <2>1, <1>2, ReleaseSound
  <2>2. CASE d = Queued(c, i) /\ (c.speaker = i => c.tail = i)
    BY <2>2, <1>1, <1>2, QueuedSound DEF Speaks
  <2>3. CASE d = [Granted(c, i) EXCEPT !.tail = None] \/ d = Granted(c, i)
    <3> DEFINE f == Granted(c, i)
    <3>1. /\ f \in Call
          /\ f.group = c.group /\ f.rel = c.rel /\ f.speaker = i /\ f.tx
          /\ Once(f.queue) /\ Len(f.queue) <= MaxWaiters
          /\ Within(f.queue, c.queue) /\ ~Contains(f.queue, i)
      BY <1>2, GrantedFacts
    <3> HIDE DEF f
    <3>2. /\ d \in Call /\ d.group = f.group /\ d.rel = f.rel
          /\ d.speaker = f.speaker /\ d.queue = f.queue
      BY <2>3, <3>1 DEF Call, f
    <3> QED
      BY <1>1, <1>2, <3>1, <3>2, LessQueueSound
  <2>4. CASE d = QueueActivation(c, i)
    BY <2>4, <1>1, <1>2, ActivationSound
  <2> QED
    BY <1>3, <2>1, <2>2, <2>3, <2>4
<1> QED
  BY <1>1, <1>3, <1>4, QuietStep, RestWhole

\* U-TX CEASED of a waiter and of the speaker.
LEMMA TxCeasedStep ==
    ASSUME IInv, NEW i \in Radios, NEW b \in Bearers, TxCeased(b, i)
    PROVE  TypeOK' /\ Evolves /\ Keeps
<1> DEFINE c == call[b]
           S == Members(c.group)
<1>1. c # None /\ c.rel = None
  BY DEF TxCeased, Live
<1>2. Sound(c) /\ c \in Call /\ Once(c.queue) /\ Len(c.queue) <= MaxWaiters
  BY <1>1, InvSound DEF Sound
<1>3. PICK d : /\ Put(b, d, mq, <<>>)
               /\ \/ c.speaker # i /\ d = [c EXCEPT !.queue = Without(@, i)]
                  \/ \E n \in 1..Len(c.queue) :
                       c.queue[n] \in S /\ d = Granted(Through(c, n), c.queue[n])
                  \/ d = [c EXCEPT !.queue = <<>>, !.tail = i, !.act = None]
                  \/ d = [c EXCEPT !.queue = <<>>]
  BY DEF TxCeased, FirstOf
<1>4. Sound(d) /\ Follows(c, d, S)
  <2> HIDE DEF c, S
  <2>1. CASE c.speaker # i /\ d = [c EXCEPT !.queue = Without(@, i)]
    BY <1>1, <1>2, <2>1, WithdrawnSound, Zenon
  <2>2. CASE \E n \in 1..Len(c.queue) :
               c.queue[n] \in S /\ d = Granted(Through(c, n), c.queue[n])
    <3> PICK n \in 1..Len(c.queue) :
               c.queue[n] \in S /\ d = Granted(Through(c, n), c.queue[n])
      BY <2>2
    <3>1. c = [c EXCEPT !.tail = c.tail]
      BY <1>2 DEF Call
    <3> QED
      BY <1>1, <1>2, <3>1, PassedOnSound, Zenon
  <2>3. CASE d = [c EXCEPT !.queue = <<>>, !.tail = i, !.act = None]
    BY <1>1, <1>2, <2>3, EmptiedSound, Zenon
  <2>4. CASE d = [c EXCEPT !.queue = <<>>]
    BY <1>1, <1>2, <2>4, EmptiedOnlySound
  <2> QED
    BY <1>3, <2>1, <2>2, <2>3, <2>4
<1> QED
  BY <1>1, <1>3, <1>4, QuietStep, RestWhole

\* The steps that begin the release of a call.
LEMMA ReleaseStep ==
    ASSUME IInv, NEW b \in Bearers, call[b] # None,
           NEW q, Rest(q), Put(b, Release(call[b]), q, <<>>)
    PROVE  TypeOK' /\ Evolves /\ Keeps
<1>1. call[b] \in Call
  BY InvSound DEF Sound
<1> DEFINE d == Release(call[b])
<1>2. Sound(d) /\ Follows(call[b], d, Members(call[b].group))
  BY <1>1, ReleaseSound
<1> HIDE DEF d
<1> QED
  BY <1>2, QuietStep DEF d

\* The circuit of a call reaches its age limit.
LEMMA CircuitExpiresStep ==
    ASSUME IInv, NEW b \in Bearers, CircuitExpires(b)
    PROVE  TypeOK' /\ Evolves /\ Keeps
<1> DEFINE c == call[b]
           S == Members(c.group)
           r == Release(c)
           d == IF c.rel = None THEN [r EXCEPT !.circ = "carried"] ELSE [c EXCEPT !.circ = "gone"]
<1>1. c # None /\ Sound(c) /\ Put(b, d, mq, <<>>)
  BY InvSound DEF CircuitExpires
<1>2. c \in Call /\ Sound(r) /\ Follows(c, r, S)
  BY <1>1, ReleaseSound DEF Sound
<1> HIDE DEF r
<1>3. ASSUME NEW e \in Call, NEW x \in {"held", "carried", "gone"}, Sound(e)
      PROVE  LET f == [e EXCEPT !.circ = x] IN Sound(f) /\ Follows(e, f, S)
  <2> DEFINE f == [e EXCEPT !.circ = x]
  <2>1. /\ f \in Call /\ f.group = e.group /\ f.rel = e.rel /\ f.queue = e.queue
        /\ f.tail = e.tail /\ f.act = e.act /\ f.ready = e.ready
        /\ f.speaker = e.speaker /\ f.tx = e.tx
    BY <1>3 DEF Call
  <2> HIDE DEF f
  <2>2. Sound(f) /\ Follows(e, f, S)
    BY <1>3, <2>1, SameFloorSound DEF Sound
  <2> QED
    BY <2>2 DEF f
<1>4. Sound(d) /\ Follows(c, d, S)
  <2>1. CASE c.rel = None
    <3>1. r \in Call
      BY <1>2 DEF Sound
    <3> QED
      BY <1>2, <1>3, <2>1, <3>1, FollowsThrough
  <2>2. CASE c.rel # None
    BY <1>1, <1>2, <1>3, <2>2
  <2> QED
    BY <2>1, <2>2
<1> HIDE DEF d
<1> QED
  BY <1>1, <1>4, QuietStep, RestWhole DEF c, S

\* Deferred work.

\* What becomes of a call when the tail of a transmission ends.
LEMMA DrainTailCases ==
    ASSUME TypeOK, NEW b \in Bearers, DrainTail(b)
    PROVE  LET c == call[b]
               d == [c EXCEPT !.tail = None]
               rel == Both(c.group, "FloorReleased", b, None)
           IN  \E e, out :
               /\ Put(b, e, mq, out)
               /\ \/ ~Speaks(c, c.tail) /\ e = d /\ out = <<>>
                  \/ /\ out = <<>>
                     /\ \E n \in 1..Len(c.queue) :
                          c.queue[n] \in Members(c.group) /\ e = Granted(Through(d, n), c.queue[n])
                  \/ /\ out = rel
                     /\ \E n \in 0..Len(c.queue) :
                          \/ e = EnterHangtime(Through(d, n))
                          \/ e = Release(EnterHangtime(Through(d, n)))
<1> DEFINE c == call[b]
           S == Members(c.group)
           d == [c EXCEPT !.tail = None]
           rel == Both(c.group, "FloorReleased", b, None)
<1>0. Len(c.queue) \in Nat
  BY DEF DrainTail, TypeOK, Call
<1>1. CASE ~Speaks(c, c.tail) /\ Put(b, d, mq, <<>>)
  BY <1>1
<1> DEFINE freshSetup == (Legacy /\ c.origin \in Radios) \/ c.group \in Routable
           others == FirstOf(c, Members(c.group) \ {c.tail})
           heirs == IF freshSetup /\ others # {} THEN others ELSE FirstOf(c, Members(c.group))
           idle == \A n \in heirs : freshSetup /\ c.queue[n] = c.tail
<1>2. heirs \subseteq {n \in 1..Len(c.queue) : c.queue[n] \in S}
  BY DEF FirstOf
<1>3. CASE \E n \in heirs : Put(b, Granted(Through(d, n), c.queue[n]), mq, <<>>)
  BY <1>2, <1>3, Zenon
<1>4. CASE \E n \in IF heirs = {} THEN {Len(c.queue)} ELSE heirs :
             Put(b, IF freshSetup THEN Release(EnterHangtime(Through(d, n)))
                                  ELSE EnterHangtime(Through(d, n)), mq, rel)
  <2> HIDE DEF heirs, freshSetup, rel, d, c
  <2>1. (IF heirs = {} THEN {Len(c.queue)} ELSE heirs) \subseteq 0..Len(c.queue)
    <3>1. \A n \in heirs : n \in 1..Len(c.queue)
      BY <1>2, Zenon
    <3>2. 1..Len(c.queue) \subseteq 0..Len(c.queue) /\ Len(c.queue) \in 0..Len(c.queue)
      BY <1>0
    <3> QED
      BY <3>1, <3>2, Zenon
  <2>2. PICK n \in 0..Len(c.queue) :
             Put(b, IF freshSetup THEN Release(EnterHangtime(Through(d, n)))
                                  ELSE EnterHangtime(Through(d, n)), mq, rel)
    BY <1>4, <2>1
  <2>3. CASE freshSetup
    BY <2>2, <2>3, Zenon DEF c, d, rel
  <2>4. CASE ~freshSetup
    BY <2>2, <2>4, Zenon DEF c, d, rel
  <2> QED
    BY <2>3, <2>4
<1> QED
  BY <1>1, <1>3, <1>4, Zenon DEF DrainTail

\* The end of a tail keeps the invariant.
LEMMA DrainTailStep ==
    ASSUME IInv, NEW b \in Bearers, DrainTail(b)
    PROVE  TypeOK' /\ Evolves /\ Keeps
<1> DEFINE c == call[b]
           S == Members(c.group)
           d == [c EXCEPT !.tail = None]
           rel == Both(c.group, "FloorReleased", b, None)
<1>1. c # None /\ c.tail # None
  BY DEF DrainTail
<1>2. Sound(c) /\ c \in Call /\ c.rel = None /\ Once(c.queue) /\ Len(c.queue) <= MaxWaiters
  BY <1>1, InvSound DEF Sound
<1>3. Len(c.queue) \in Nat
  BY <1>2 DEF Call
<1>4. PICK e, out :
        /\ Put(b, e, mq, out)
        /\ \/ ~Speaks(c, c.tail) /\ e = d /\ out = <<>>
           \/ /\ out = <<>>
              /\ \E n \in 1..Len(c.queue) :
                   c.queue[n] \in S /\ e = Granted(Through(d, n), c.queue[n])
           \/ /\ out = rel
              /\ \E n \in 0..Len(c.queue) :
                   \/ e = EnterHangtime(Through(d, n))
                   \/ e = Release(EnterHangtime(Through(d, n)))
  BY <1>2, DrainTailCases DEF IInv
<1>5. out \in Seq(Message)
  <2>1. rel \in Seq(Message) /\ <<>> \in Seq(Message)
    BY Messages
  <2> QED
    BY <1>4, <2>1, Zenon
<1> HIDE DEF rel, c, S
<1>6. /\ d \in Call /\ d.group = c.group /\ d.rel = None /\ d.queue = c.queue
      /\ d.speaker = c.speaker /\ d.tx = c.tx
  BY <1>2 DEF Call
<1>7. Sound(e) /\ Follows(c, e, S)
  <2>1. CASE ~Speaks(c, c.tail) /\ e = d
    <3>1. d.tx => ~Contains(d.queue, d.speaker)
      BY <1>2, <1>6, <2>1 DEF Sound, Speaks
    <3>2. Within(d.queue, c.queue)
      BY <1>6 DEF Within, Contains
    <3> HIDE DEF d
    <3>3. Sound(d) /\ Follows(c, d, S)
      BY <1>2, <1>6, <3>1, <3>2, LessQueueSound DEF Speaks
    <3> QED
      BY <2>1, <3>3
  <2>2. CASE \E n \in 1..Len(c.queue) :
               c.queue[n] \in S /\ e = Granted(Through(d, n), c.queue[n])
    BY <1>2, <2>2, PassedOnSound, Zenon
  <2>3. ASSUME NEW n \in 0..Len(c.queue)
        PROVE  LET f == EnterHangtime(Through(d, n))
               IN  f \in Call /\ Sound(f) /\ Follows(c, f, S)
    <3> HIDE DEF d
    <3> DEFINE z == Through(d, n)
               f == EnterHangtime(z)
    <3>1. /\ z \in Call /\ z = [d EXCEPT !.queue = z.queue]
          /\ Once(z.queue) /\ Len(z.queue) <= MaxWaiters /\ Within(z.queue, d.queue)
      BY <1>2, <1>6, ThroughFacts
    <3> HIDE DEF z
    <3>2. z.group = c.group /\ z.rel = None
      BY <1>6, <3>1 DEF Call
    <3>3. /\ f \in Call /\ f.group = c.group /\ f.rel = None /\ f.queue = z.queue
          /\ ~f.tx
      BY <3>1, <3>2, Zenon DEF EnterHangtime, Call
    <3> HIDE DEF f
    <3>4. Sound(f) /\ Follows(c, f, S)
      BY <1>2, <1>6, <3>1, <3>3, LessQueueSound
    <3> QED
      BY <3>3, <3>4 DEF f, z
  <2>4. CASE \E n \in 0..Len(c.queue) : e = EnterHangtime(Through(d, n))
    BY <2>3, <2>4
  <2>5. CASE \E n \in 0..Len(c.queue) : e = Release(EnterHangtime(Through(d, n)))
    <3> HIDE DEF d
    <3> QED
      BY <2>3, <2>5, ReleaseSound, FollowsThrough
  <2> QED
    BY <1>4, <2>1, <2>2, <2>4, <2>5
<1> HIDE DEF d
<1> QED
  BY <1>1, <1>4, <1>5, <1>7, PutStep, RestWhole DEF c, S

\* The lower layers' reports settle what is pending and change nothing else.
LEMMA ReportStep ==
    ASSUME IInv, NEW b \in Bearers,
           ReportReady(b) \/ \E st \in {"sent", "lost"} : ReportActivation(b, st)
    PROVE  TypeOK' /\ Evolves /\ Keeps
<1> DEFINE c == call[b]
<1>1. PICK d : /\ c # None /\ Put(b, d, mq, <<>>)
               /\ \/ c.ready # None /\ d = [c EXCEPT !.ready.sent = TRUE]
                  \/ c.act # None /\ \E st \in {"sent", "lost"} : d = [c EXCEPT !.act.st = st]
  BY DEF ReportReady, ReportActivation
<1>2. Sound(c) /\ c \in Call
  BY <1>1, InvSound DEF Sound
<1> HIDE DEF c
<1>3. /\ d \in Call /\ d.group = c.group /\ d.rel = c.rel /\ d.queue = c.queue
      /\ d.tail = c.tail /\ d.speaker = c.speaker /\ d.tx = c.tx
  <2>1. CASE c.ready # None /\ d = [c EXCEPT !.ready.sent = TRUE]
    <3> DEFINE r == [c.ready EXCEPT !.sent = TRUE]
    <3>1. r \in Readiness
      BY <1>2, <2>1, Zenon DEF Call, Readiness
    <3>2. d = [c EXCEPT !.ready = r]
      BY <1>2, <2>1 DEF Call
    <3> HIDE DEF r
    <3> QED
      BY <1>2, <3>1, <3>2 DEF Call
  <2>2. ASSUME NEW st \in {"sent", "lost"}, c.act # None, d = [c EXCEPT !.act.st = st]
        PROVE  /\ d \in Call /\ d.group = c.group /\ d.rel = c.rel /\ d.queue = c.queue
               /\ d.tail = c.tail /\ d.speaker = c.speaker /\ d.tx = c.tx
    <3> DEFINE r == [c.act EXCEPT !.st = st]
    <3>1. r \in Activation
      BY <1>2, <2>2 DEF Call, Activation
    <3>2. d = [c EXCEPT !.act = r]
      BY <1>2, <2>2 DEF Call
    <3> HIDE DEF r
    <3> QED
      BY <1>2, <3>1, <3>2 DEF Call
  <2> QED
    BY <1>1, <2>1, <2>2
<1>4. c.rel = None
  BY <1>1, <1>2 DEF Sound
<1>5. Sound(d) /\ Follows(c, d, Members(c.group))
  BY <1>2, <1>3, <1>4, SameFloorSound
<1> QED
  BY <1>1, <1>5, QuietStep, RestWhole DEF c

\* A reported D-TX GRANTED is activated, discarded or outdated.
LEMMA DrainActivationStep ==
    ASSUME IInv, NEW b \in Bearers, DrainActivation(b)
    PROVE  TypeOK' /\ Evolves /\ Keeps
<1> DEFINE c == call[b]
           S == Members(c.group)
           d == [c EXCEPT !.act = None]
           granted == <<ToUmac("SetDlMediaSource", b, LocalLoopback)>>
                         \o Both(c.group, "FloorGranted", b, c.act.who)
<1>1. c # None /\ c.act # None
  BY DEF DrainActivation
<1>2. Sound(c) /\ c \in Call /\ c.rel = None /\ c.act.who \in Issis
  BY <1>1, InvSound DEF Sound, Call, Activation
<1>3. PICK e, out : /\ Put(b, e, mq, out)
                    /\ e = d \/ e = EnterHangtime(d)
                    /\ out = granted \/ out = <<>>
  BY Zenon DEF DrainActivation
<1>4. out \in Seq(Message)
  <2>1. ToUmac("SetDlMediaSource", b, LocalLoopback) \in Message
    BY Messages DEF Media
  <2>2. Both(c.group, "FloorGranted", b, c.act.who) \in Seq(Message)
    BY <1>2, Messages
  <2>3. <<ToUmac("SetDlMediaSource", b, LocalLoopback)>> \in Seq(Message)
    BY <2>1
  <2>4. granted \in Seq(Message)
    BY <2>2, <2>3, AppendedFacts
  <2>5. <<>> \in Seq(Message)
    OBVIOUS
  <2> HIDE DEF granted
  <2> QED
    BY <1>3, <2>4, <2>5, Zenon
<1> HIDE DEF granted, c, S
<1>5. /\ d \in Call /\ d.group = c.group /\ d.rel = c.rel /\ d.queue = c.queue
      /\ d.tail = c.tail /\ d.speaker = c.speaker /\ d.tx = c.tx
  BY <1>2 DEF Call
<1> HIDE DEF d
<1>6. Sound(d) /\ Follows(c, d, S)
  BY <1>2, <1>5, SameFloorSound
<1>7. Sound(e) /\ Follows(c, e, S)
  BY <1>3, <1>6, HangtimeSound, FollowsThrough
<1> QED
  BY <1>1, <1>3, <1>4, <1>7, PutStep, RestWhole DEF c, S

\* The network speaker's set-up signalling went out, is outdated or ran out of time.
LEMMA DrainReadyStep ==
    ASSUME IInv, NEW b \in Bearers, DrainReady(b)
    PROVE  TypeOK' /\ Evolves /\ Keeps
<1> DEFINE c == call[b]
           S == Members(c.group)
           d == [c EXCEPT !.ready = None]
           ready == <<ToUmac("SetDlMediaSource", b, SwMI),
                      ToUmac("FloorGranted", b, c.ready.who),
                      ToBrew("NetworkCallReady", b, c.ready.uuid)>>
<1>1. c # None /\ c.ready # None
  BY SMTT(30), ZenonT(30) DEF DrainReady
<1>2. Sound(c) /\ c \in Call /\ c.rel = None /\ c.ready.who \in Remotes /\ c.ready.uuid \in Uuids
  BY <1>1, InvSound DEF Sound, Call, Readiness
<1>3. PICK e, out : /\ Put(b, e, mq, out)
                    /\ e = d \/ e = Release(d)
                    /\ out = ready \/ out = <<>>
  BY DEF DrainReady
<1>4. out \in Seq(Message)
  <2>1. ToUmac("SetDlMediaSource", b, SwMI) \in Message
    BY Messages DEF Media
  <2>2. ToUmac("FloorGranted", b, c.ready.who) \in Message
    BY <1>2, Messages DEF Issis
  <2>3. ToBrew("NetworkCallReady", b, c.ready.uuid) \in Message
    BY <1>2, Messages
  <2>4. ready \in Seq(Message)
    <3> HIDE DEF c
    <3> QED
      BY <2>1, <2>2, <2>3
  <2>5. <<>> \in Seq(Message)
    OBVIOUS
  <2> HIDE DEF ready
  <2> QED
    BY <1>3, <2>4, <2>5, Zenon
<1> HIDE DEF ready, c, S
<1>5. /\ d \in Call /\ d.group = c.group /\ d.rel = c.rel /\ d.queue = c.queue
      /\ d.tail = c.tail /\ d.speaker = c.speaker /\ d.tx = c.tx
  BY <1>2 DEF Call
<1> HIDE DEF d
<1>6. Sound(d) /\ Follows(c, d, S)
  BY <1>2, <1>5, SameFloorSound
<1>7. Sound(e) /\ Follows(c, e, S)
  BY <1>3, <1>5, <1>6, ReleaseSound, FollowsThrough
<1> QED
  BY <1>1, <1>3, <1>4, <1>7, PutStep, RestWhole DEF c, S

\* A release that drained frees the bearer.
LEMMA CompleteReleaseStep ==
    ASSUME IInv, NEW b \in Bearers, CompleteRelease(b)
    PROVE  TypeOK' /\ Evolves /\ Keeps
<1> DEFINE c == call[b]
           closed == CloseMessages(b, c)
           told == EndMessages(b, c)
<1>1. /\ TypeOK /\ c # None /\ c.rel # None /\ c.rel \in Radios \cup Uuids
      /\ Put(b, None, mq, closed \o told)
  BY DEF CompleteRelease, IInv, TypeOK, Call
<1>2. told \in Seq(Message)
  <2> DEFINE ended == <<ToUmac("CallEnded", b, None)>>
             rest == CASE c.group \notin Routable -> <<>>
                       [] c.group \in Routable /\ c.rel \in Radios ->
                            <<ToBrew("CallEnded", b, None)>>
                       [] OTHER -> <<ToBrew("NetworkCallEnd", None, c.rel)>>
  <2>1. ToBrew("CallEnded", b, None) \in Message /\ ToUmac("CallEnded", b, None) \in Message
    BY Messages
  <2>2. c.rel \notin Radios => ToBrew("NetworkCallEnd", None, c.rel) \in Message
    BY <1>1, EndMessage
  <2>3. /\ <<ToBrew("CallEnded", b, None)>> \in Seq(Message) /\ <<>> \in Seq(Message)
        /\ c.rel \notin Radios => <<ToBrew("NetworkCallEnd", None, c.rel)>> \in Seq(Message)
        /\ ended \in Seq(Message)
    BY <2>1, <2>2
  <2>4. rest \in Seq(Message)
    BY <2>3, Zenon
  <2>5. told = ended \o rest
    BY DEF EndMessages
  <2> HIDE DEF ended, rest, told
  <2> QED
    BY <2>3, <2>4, <2>5, AppendedFacts
<1>3. closed \in Seq(Message)
  <2>1. ToUmac("Close", b, None) \in Message
    BY Messages
  <2> QED
    BY <2>1 DEF CloseMessages
<1> HIDE DEF closed, told
<1>4. closed \o told \in Seq(Message)
  BY <1>2, <1>3, AppendedFacts
<1>5. mq' \in Seq(Message) /\ Keeps
  BY <1>1, <1>4, SendingKeeps, RestWhole, Zenon DEF Put
<1>6. TypeOK' /\ \A a \in Bearers : call'[a] = IF a = b THEN None ELSE call[a]
  BY <1>1, <1>5 DEF TypeOK, Put
<1>7. Evolves
  BY <1>6, InvSound, Unchanging, Zenon DEF Evolves, Fresh
<1> QED
  BY <1>5, <1>6, <1>7

\* Messages from the UMAC and from Brew.
LEMMA UlInactivityStep ==
    ASSUME IInv, NEW b \in Bearers, NEW q, Rest(q), UlInactivityTimeout(b, q)
    PROVE  TypeOK' /\ Evolves /\ Keeps
<1> DEFINE c == call[b]
           S == Members(c.group)
           act == Live(b) /\ c.tx /\ c.tail = None /\ c.act = None
           rel == Both(c.group, "FloorReleased", b, None)
<1>1. CASE mq' = q /\ UNCHANGED cmceVars
  BY <1>1, StillStep DEF cmceVars
<1>2. ASSUME c # None, c.rel = None, NEW e, NEW out, Put(b, e, q, out),
             out = <<>> \/ out = rel,
             \/ \E n \in 1..Len(c.queue) :
                  c.queue[n] \in S /\ e = Granted(Through(c, n), c.queue[n])
             \/ e = QueueActivation([c EXCEPT !.regrant = TRUE], c.speaker)
             \/ e = EnterHangtime([c EXCEPT !.queue = <<>>])
      PROVE  TypeOK' /\ Evolves /\ Keeps
  <2>1. out \in Seq(Message)
    <3>1. rel \in Seq(Message) /\ <<>> \in Seq(Message)
      BY Messages
    <3> QED
      BY <1>2, <3>1, Zenon
  <2>2. Sound(c) /\ c \in Call
    BY <1>2, InvSound DEF Sound
  <2> HIDE DEF c, S, rel
  <2>3. CASE \E n \in 1..Len(c.queue) :
               c.queue[n] \in S /\ e = Granted(Through(c, n), c.queue[n])
    <3>1. c = [c EXCEPT !.tail = c.tail]
      BY <2>2 DEF Call
    <3>2. PICK n \in 1..Len(c.queue) :
                 c.queue[n] \in S /\ e = Granted(Through(c, n), c.queue[n])
      BY <2>3
    <3>3. Sound(e) /\ Follows(c, e, S)
      BY <1>2, <2>2, <3>1, <3>2, PassedOnSound, Zenon
    <3> QED
      BY <1>2, <2>1, <3>3, PutStep DEF c, S
  <2>4. CASE e = QueueActivation([c EXCEPT !.regrant = TRUE], c.speaker)
    <3> DEFINE d == [c EXCEPT !.regrant = TRUE]
    <3>1. /\ d \in Call /\ d.group = c.group /\ d.rel = c.rel /\ d.queue = c.queue
          /\ d.tail = c.tail /\ d.speaker = c.speaker /\ d.tx = c.tx /\ c.speaker \in Issis
      BY <2>2, Zenon DEF Call
    <3> HIDE DEF d
    <3>2. Sound(d) /\ Follows(c, d, S)
      BY <1>2, <2>2, <3>1, SameFloorSound
    <3>3. Sound(e) /\ Follows(d, e, S)
      BY <1>2, <2>4, <3>1, <3>2, ActivationSound, Zenon DEF d
    <3>4. Follows(c, e, S)
      BY <3>2, <3>3, FollowsThrough
    <3> QED
      BY <1>2, <2>1, <3>3, <3>4, PutStep DEF c, S
  <2>5. CASE e = EnterHangtime([c EXCEPT !.queue = <<>>])
    <3> DEFINE d == [c EXCEPT !.queue = <<>>]
    <3>1. Sound(d) /\ Follows(c, d, S)
      BY <1>2, <2>2, EmptiedOnlySound
    <3> HIDE DEF d
    <3>2. Sound(e) /\ Follows(d, e, S)
      BY <2>5, <3>1, HangtimeSound DEF d
    <3>3. Follows(c, e, S)
      BY <3>1, <3>2, FollowsThrough
    <3> QED
      BY <1>2, <2>1, <3>2, <3>3, PutStep DEF c, S
  <2> QED
    BY <1>2, <2>3, <2>4, <2>5
<1>3. CASE ~(mq' = q /\ UNCHANGED cmceVars)
  <2>1. c # None /\ c.rel = None
    BY <1>3 DEF UlInactivityTimeout, Live
  <2>2. \/ \E n \in 1..Len(c.queue) :
             c.queue[n] \in S /\ Put(b, Granted(Through(c, n), c.queue[n]), q, <<>>)
        \/ Put(b, QueueActivation([c EXCEPT !.regrant = TRUE], c.speaker), q, <<>>)
        \/ Put(b, EnterHangtime([c EXCEPT !.queue = <<>>]), q, rel)
    BY <1>3 DEF UlInactivityTimeout, FirstOf
  <2> HIDE DEF c, S, rel
  <2> QED
    BY <1>2, <2>1, <2>2
<1> QED
  BY <1>1, <1>3

\* Calls nobody listens to are released.
LEMMA UnlistenedStep ==
    ASSUME IInv, NEW g, NEW listened, NEW q, Rest(q), NEW out \in Seq(Message),
           call' = DropUnlistened(call, g, listened), mq' = q \o out,
           UNCHANGED <<affil, ext>>
    PROVE  TypeOK' /\ Evolves /\ Keeps
<1>1. TypeOK
  BY DEF IInv
<1>2. ASSUME NEW b \in Bearers
      PROVE  /\ call[b] = None => call'[b] = None
             /\ call[b] # None => /\ call'[b] # None /\ Sound(call'[b])
                                  /\ Follows(call[b], call'[b], Members(call[b].group))
  <2>1. call'[b] = IF ~listened /\ call[b] # None /\ call[b].group = g
                   THEN Release(call[b]) ELSE call[b]
    BY DEF DropUnlistened
  <2>2. CASE call[b] = None
    BY <2>1, <2>2
  <2>3. CASE call[b] # None /\ call'[b] = call[b]
    BY <2>3, InvSound, Unchanging, SMTT(30), ZenonT(30)
  <2>4. CASE call[b] # None /\ call'[b] = Release(call[b])
    <3>1. call[b] \in Call
      BY <2>4, InvSound DEF Sound
    <3>2. Sound(call'[b]) /\ Follows(call[b], call'[b], Members(call[b].group))
      BY <2>4, <3>1, ReleaseSound
    <3> QED
      BY <2>4, <3>2, NoneAssumption DEF Sound
  <2> QED
    BY <2>1, <2>2, <2>3, <2>4
<1>3. mq' \in Seq(Message) /\ Keeps
  BY SendingKeeps, Zenon
<1>4. call' \in [Bearers -> Call \cup {None}]
  <2>1. \A b \in Bearers : call'[b] \in Call \cup {None}
    BY <1>2 DEF Sound
  <2>2. call' = [b \in Bearers |-> call'[b]]
    BY DEF DropUnlistened
  <2> QED
    BY <2>1, <2>2
<1>5. TypeOK'
  BY <1>1, <1>3, <1>4, SMTT(30), ZenonT(30) DEF TypeOK
<1>6. Evolves
  BY <1>2 DEF Evolves, Fresh
<1> QED
  BY <1>3, <1>5, <1>6

\* A network speaker takes the floor of the group's call.
LEMMA NetworkTakesFloorStep ==
    ASSUME IInv, NEW n \in NetStart, NEW b \in Bearers, Live(b), NEW q, Rest(q),
           NetworkTakesFloor(n, b, q)
    PROVE  TypeOK' /\ Evolves /\ Keeps
<1> DEFINE c == call[b]
           S == Members(c.group)
           i == n.issi
           f == GrantFloor(c, i)
           r == [uuid |-> n.uuid, who |-> n.issi, sent |-> FALSE]
           d == [f EXCEPT !.tail = None, !.pri = n.pri, !.uuid = n.uuid, !.origin = n.uuid,
                          !.ready = r]
<1>1. c # None /\ c.rel = None /\ Put(b, d, q, <<>>)
  BY DEF NetworkTakesFloor, Live
<1>2. Sound(c) /\ c \in Call /\ Once(c.queue) /\ Len(c.queue) <= MaxWaiters
  BY <1>1, InvSound DEF Sound
<1>3. n.uuid \in Uuids /\ i \in Remotes /\ n.pri \in Priorities /\ r \in Readiness
  BY DEF NetStart, Readiness
<1> HIDE DEF c, S, i, r
<1>4. /\ f \in Call
      /\ f = [c EXCEPT !.queue = f.queue, !.speaker = i, !.tx = TRUE, !.regrant = FALSE]
      /\ Once(f.queue) /\ Len(f.queue) <= MaxWaiters
      /\ Within(f.queue, c.queue) /\ ~Contains(f.queue, i)
  BY <1>2, <1>3, GrantFloorFacts, Zenon DEF Issis
<1> HIDE DEF f
<1>5. f.group = c.group /\ f.rel = None /\ f.speaker = i
  BY <1>1, <1>2, <1>4, Zenon DEF Call
<1>6. /\ d \in Call /\ d.group = c.group /\ d.rel = None /\ d.queue = f.queue
      /\ d.speaker = i
  BY <1>3, <1>4, <1>5, ZenonT(60) DEF Call
<1> HIDE DEF d
<1>7. d.speaker \notin Radios
  BY <1>3, <1>6, SetsAssumption
<1>8. Sound(d) /\ Follows(c, d, S)
  BY <1>1, <1>2, <1>4, <1>6, <1>7, LessQueueSound
<1> QED
  BY <1>1, <1>8, QuietStep DEF c, S

\* The start of a network session: unlistened, refused, on a live call or on a new one.
LEMMA NetworkCallStartStep ==
    ASSUME IInv, NEW n \in NetStart, NEW q, Rest(q), NetworkCallStart(n, q)
    PROVE  TypeOK' /\ Evolves /\ Keeps
<1> DEFINE g == n.group
           r == [uuid |-> n.uuid, who |-> n.issi, sent |-> FALSE]
           no == <<ToBrew("NetworkCallEnd", None, n.uuid)>>
<1>1. /\ n.uuid \in Uuids /\ n.issi \in Remotes /\ g \in Groups /\ n.pri \in Priorities
      /\ r \in Readiness
  BY DEF NetStart, Readiness
<1>2. no \in Seq(Message)
  <2>1. ToBrew("NetworkCallEnd", None, n.uuid) \in Message
    BY <1>1, EndMessage
  <2> QED
    BY <2>1
<1>3. CASE \E listened \in BOOLEAN : call' = DropUnlistened(call, g, listened)
             /\ mq' = q \o no /\ UNCHANGED <<affil, ext>>
  BY <1>2, <1>3, UnlistenedStep, Zenon
<1>4. CASE RefuseNetworkCall(n, q)
  BY <1>2, <1>4, StillStep, Zenon DEF RefuseNetworkCall, cmceVars
<1>5. CASE \E b \in LiveFor(g) : NetworkTakesFloor(n, b, q)
  BY <1>5, NetworkTakesFloorStep DEF LiveFor
<1>6. CASE /\ HasLocalListener(affil, g) /\ LiveFor(g) = {}
           /\ \E b \in Bearers : /\ call[b] = None
                                 /\ Put(b, NewCall(g, n.uuid, n.uuid, n.issi, n.pri, r),
                                        q, <<ToUmac("Open", b, n.issi)>>)
  <2> PICK b \in Bearers : /\ call[b] = None
                           /\ Put(b, NewCall(g, n.uuid, n.uuid, n.issi, n.pri, r),
                                  q, <<ToUmac("Open", b, n.issi)>>)
    BY <1>6, SMTT(30), ZenonT(30)
  <2> DEFINE out == <<ToUmac("Open", b, n.issi)>>
  <2>1. ToUmac("Open", b, n.issi) \in Message
    BY <1>1, Messages DEF Issis
  <2>2. out \in Seq(Message)
    BY <2>1
  <2>3. HasListener(affil, ext, g)
    BY <1>6 DEF HasListener
  <2>4. n.issi \in Issis
    BY <1>1 DEF Issis
  <2> HIDE DEF out, g, r
  <2> QED
    BY <1>1, <1>6, <2>2, <2>3, <2>4, NewCallStep, Zenon DEF out
<1> HIDE DEF no
<1> QED
  <2>1. \/ /\ call' = DropUnlistened(call, g, HasListener(affil, ext, g))
           /\ mq' = q \o no /\ UNCHANGED <<affil, ext>>
        \/ RefuseNetworkCall(n, q)
        \/ \E b \in LiveFor(g) : NetworkTakesFloor(n, b, q)
        \/ /\ HasLocalListener(affil, g) /\ LiveFor(g) = {}
           /\ \E b \in Bearers : /\ call[b] = None
                                 /\ Put(b, NewCall(g, n.uuid, n.uuid, n.issi, n.pri, r),
                                        q, <<ToUmac("Open", b, n.issi)>>)
    BY Zenon DEF NetworkCallStart, no
  <2>2. HasListener(affil, ext, g) \in BOOLEAN
    BY DEF HasListener, HasLocalListener
  <2> QED
    BY <1>3, <1>4, <1>5, <1>6, <2>1, <2>2, Zenon

\* The end of a network session: unknown, releasing, hangtime or release.
LEMMA NetworkCallEndStep ==
    ASSUME IInv, NEW u \in Uuids, NEW q, Rest(q), NetworkCallEnd(u, q)
    PROVE  TypeOK' /\ Evolves /\ Keeps
<1>1. CASE mq' = q /\ UNCHANGED cmceVars
  BY <1>1, StillStep DEF cmceVars
<1>2. ASSUME NEW b \in Bearers, call[b] # None, Put(b, Release(call[b]), q, <<>>)
      PROVE  TypeOK' /\ Evolves /\ Keeps
  BY <1>2, ReleaseStep
<1>3. ASSUME NEW b \in Bearers, call[b] # None, call[b].rel = None,
             Put(b, [EnterHangtime(call[b]) EXCEPT !.uuid = None], q,
                 <<ToUmac("FloorReleased", b, None)>>)
      PROVE  TypeOK' /\ Evolves /\ Keeps
  <2> DEFINE c == call[b]
             S == Members(c.group)
             f == EnterHangtime(c)
             d == [f EXCEPT !.uuid = None]
             out == <<ToUmac("FloorReleased", b, None)>>
  <2>1. ToUmac("FloorReleased", b, None) \in Message
    BY Messages
  <2>2. out \in Seq(Message)
    BY <2>1
  <2>3. Put(b, d, q, out) /\ Sound(c)
    BY <1>3, InvSound
  <2> HIDE DEF c, S, out
  <2>4. f \in Call /\ Sound(f) /\ Follows(c, f, S) /\ f.rel = c.rel
    BY <2>3, HangtimeSound, ZenonT(60) DEF EnterHangtime, Sound, Call
  <2> HIDE DEF f
  <2>5. /\ d \in Call /\ d.group = f.group /\ d.rel = f.rel /\ d.queue = f.queue
        /\ d.tail = f.tail /\ d.speaker = f.speaker /\ d.tx = f.tx
    BY <2>4 DEF Call
  <2> HIDE DEF d
  <2>6. Sound(d) /\ Follows(f, d, S)
    BY <1>3, <2>4, <2>5, SameFloorSound DEF c
  <2>7. Follows(c, d, S)
    BY <2>4, <2>6, FollowsThrough
  <2> QED
    BY <1>3, <2>2, <2>3, <2>6, <2>7, PutStep DEF c, S
<1> QED
  BY <1>1, <1>2, <1>3, Zenon DEF NetworkCallEnd

\* Subscribers who come, and the kick of one.
LEMMA AffiliateStep ==
    ASSUME IInv, NEW i \in Radios, NEW g \in Groups, Affiliate(i, g)
    PROVE  TypeOK' /\ Evolves /\ Keeps
<1>1. TypeOK' /\ Evolves
  BY IdleStep DEF Affiliate, IInv, TypeOK
<1>2. Keeps
  BY DEF Affiliate, Keeps, Counted, Affiliated, Leaving
<1> QED
  BY <1>1, <1>2

\* A subscriber behind Brew joins a group.
LEMMA ExternalAffiliateStep ==
    ASSUME IInv, NEW i \in Remotes, NEW g \in Groups, ExternalAffiliate(i, g)
    PROVE  TypeOK' /\ Evolves /\ Keeps
<1>1. TypeOK' /\ Evolves
  BY IdleStep DEF ExternalAffiliate, IInv, TypeOK
<1>2. Keeps
  BY DEF ExternalAffiliate, Keeps, Counted, Affiliated, Leaving
<1> QED
  BY <1>1, <1>2

\* What MM reports of a kicked radio.
LEMMA KickReports ==
    ASSUME NEW i \in Radios
    PROVE  LET groups == {g \in Groups : Affiliated(i, g)}
               Report(g) == [to |-> "cmce", type |-> "Deaffiliate", bearer |-> None,
                             arg |-> [issi |-> i, group |-> g]]
               out == SetToSeq({Report(g) : g \in groups})
           IN  out \in Seq(CmceMsg) /\ \A g \in groups : Contains(out, Report(g))
<1> DEFINE groups == {g \in Groups : Affiliated(i, g)}
           Report(g) == [to |-> "cmce", type |-> "Deaffiliate", bearer |-> None,
                         arg |-> [issi |-> i, group |-> g]]
           T == {Report(g) : g \in groups}
           out == SetToSeq(T)
<1>1. T \subseteq CmceMsg
  BY DEF CmceMsg, Msg
<1>2. IsFiniteSet(T)
  <2> DEFINE f == [g \in groups |-> Report(g)]
  <2>1. f \in Surjection(groups, T)
    BY DEF Surjection
  <2>2. IsFiniteSet(groups)
    BY FS_Subset, SetsAssumption
  <2> HIDE DEF f, T, groups
  <2> QED
    BY <2>1, <2>2, FS_Surjection, SMTT(30), ZenonT(30)
<1>3. out \in Seq(T) /\ \A x \in T : Contains(out, x)
  <2> HIDE DEF T
  <2> QED
    BY <1>2, SetToSeqFacts
<1>4. \A g \in groups : Report(g) \in T
  OBVIOUS
<1> HIDE DEF T, out
<1>5. out \in Seq(CmceMsg)
  BY <1>1, <1>3
<1>6. \A g \in groups : Contains(out, Report(g))
  <2> HIDE DEF Report, groups
  <2> QED
    BY <1>3, <1>4
<1> QED
  BY <1>5, <1>6 DEF out, T

\* A kicked radio still counts as a member: MM's report is on its way.
LEMMA KickStep ==
    ASSUME IInv, NEW i \in Kickable, Kick(i)
    PROVE  TypeOK' /\ Evolves /\ Keeps
<1> DEFINE groups == {g \in Groups : Affiliated(i, g)}
           Report(g) == [to |-> "cmce", type |-> "Deaffiliate", bearer |-> None,
                         arg |-> [issi |-> i, group |-> g]]
           T == {Report(g) : g \in groups}
           out == SetToSeq(T)
<1>1. /\ TypeOK /\ i \in Radios /\ affil' = {a \in affil : a[1] # i}
      /\ mq' = mq \o out /\ ext' = ext /\ call' = call
  BY SetsAssumption DEF Kick, IInv
<1>4. out \in Seq(CmceMsg) /\ \A g \in groups : Contains(out, Report(g))
  BY <1>1, KickReports
<1> HIDE DEF out
<1>5. out \in Seq(Message)
  <2>1. CmceMsg \subseteq Message
    BY DEF Message
  <2> QED
    BY <1>4, <2>1
<1>6. mq' \in Seq(Message) /\ Within(mq, mq') /\ Within(out, mq')
  BY <1>1, <1>5, AppendedFacts DEF TypeOK
<1>7. \A j, g : Leaving(j, g) => Leaving(j, g)'
  BY <1>6 DEF Leaving, Within, Contains
<1>8. ASSUME NEW g \in groups
      PROVE  Leaving(i, g)'
  <2>1. Contains(mq', Report(g))
    <3>1. Contains(out, Report(g))
      BY <1>4
    <3> HIDE DEF Report
    <3> QED
      BY <1>6, <3>1 DEF Within, Contains
  <2> QED
    BY <2>1 DEF Leaving, Contains
<1>9. ASSUME NEW j \in Radios, NEW g \in Groups, Counted(j, g)
      PROVE  Counted(j, g)'
  <2>1. CASE Leaving(j, g)
    BY <1>7, <2>1 DEF Counted
  <2>2. CASE Affiliated(j, g) /\ j = i
    BY <1>8, <2>2 DEF Counted
  <2>3. CASE Affiliated(j, g) /\ j # i
    BY <1>1, <2>3 DEF Counted, Affiliated
  <2> QED
    BY <1>9, <2>1, <2>2, <2>3 DEF Counted
<1>10. Keeps
  BY <1>1, <1>9 DEF Keeps
<1>11. TypeOK' /\ Evolves
  BY <1>1, <1>6, IdleStep, SMTT(30), ZenonT(30) DEF TypeOK
<1> QED
  BY <1>10, <1>11

-----------------------------------------------------------------------------
(* Departures *)

\* What the departure of i leaves of a call of the group: the call is released, or
\* somebody listens, i does not wait and gives up the floor if i had it.
LEMMA DepartedFacts ==
    ASSUME NEW c, Sound(c), NEW i, NEW listened \in BOOLEAN, NEW S
    PROVE  LET d == Departed(c, i, listened)
               e == IF ~listened THEN Release(d) ELSE d
           IN  /\ Sound(e) /\ Follows(c, e, S)
               /\ \/ e.rel # None
                  \/ listened /\ ~Contains(e.queue, i) /\ (Speaks(c, i) => ~e.tx)
<1> DEFINE w == Without(c.queue, i)
           f == [c EXCEPT !.queue = w]
           d == Departed(c, i, listened)
           e == IF ~listened THEN Release(d) ELSE d
<1>1. c \in Call /\ c.queue \in Seq(Radios)
  BY Zenon DEF Sound, Call
<1>2. /\ w \in Seq(Radios)
      /\ Once(c.queue) => ~Contains(w, i)
  BY <1>1, WithoutFacts
<1>3. CASE listened /\ Speaks(c, i) /\ c.rel = None
  <2> DEFINE z == [c EXCEPT !.queue = <<>>]
  <2>1. e = EnterHangtime(z)
    BY <1>3 DEF Departed
  <2>2. Sound(z) /\ Follows(c, z, S)
    BY <1>3, EmptiedOnlySound
  <2>3. z.queue = <<>> /\ z \in Call
    BY <1>1, <2>2 DEF Call, Sound
  <2> HIDE DEF z, e
  <2>4. /\ e \in Call /\ Sound(e) /\ Follows(z, e, S) /\ ~e.tx /\ e.queue = <<>>
    BY <2>1, <2>2, <2>3, HangtimeSound, Zenon DEF EnterHangtime, Call
  <2>5. Follows(c, e, S)
    BY <2>2, <2>4, FollowsThrough
  <2>6. ~Contains(<<>>, i)
    BY DEF Contains
  <2> QED
    BY <1>3, <2>4, <2>5, <2>6, Zenon DEF Speaks, e
<1>4. CASE listened /\ Speaks(c, i) /\ c.rel # None
  <2>1. e = c
    BY <1>4 DEF Departed
  <2> QED
    BY <1>4, <2>1, Unchanging, Zenon
<1>5. CASE listened /\ ~Speaks(c, i) /\ c.rel = None
  <2>1. e = f
    BY <1>5 DEF Departed
  <2>2. Sound(f) /\ Follows(c, f, S)
    BY <1>5, WithdrawnSound
  <2> HIDE DEF w
  <2>3. f.queue = w /\ f.tx = c.tx /\ f.speaker = c.speaker
    BY <1>1 DEF Call
  <2> HIDE DEF f
  <2>4. ~Contains(f.queue, i)
    BY <1>2, <1>5, <2>3 DEF Sound
  <2> QED
    BY <1>5, <2>1, <2>2, <2>4, Zenon
<1>6. /\ f \in Call /\ f.group = c.group /\ f.rel = c.rel /\ f.tail = c.tail
      /\ f.act = c.act /\ f.ready = c.ready
  <2> HIDE DEF w
  <2> QED
    BY <1>1, <1>2 DEF Call
<1>7. CASE listened /\ ~Speaks(c, i) /\ c.rel # None
  <2>1. e = f
    BY <1>7 DEF Departed
  <2> HIDE DEF f
  <2>2. Sound(f) /\ Follows(c, f, S)
    BY <1>6, <1>7 DEF Sound, Follows
  <2> QED
    BY <1>6, <1>7, <2>1, <2>2, Zenon
<1>8. CASE ~listened
  <2>1. e = Release(f)
    BY <1>8 DEF Departed
  <2> HIDE DEF f
  <2>2. Sound(Release(f)) /\ Release(f).rel # None /\ Follows(f, Release(f), S)
    BY <1>6, ReleaseSound
  <2>3. Follows(c, Release(f), S)
    BY <1>6, <2>2 DEF Follows
  <2> QED
    BY <2>1, <2>2, <2>3
<1> QED
  BY <1>3, <1>4, <1>5, <1>7, <1>8

\* A departure as a whole.  q is what is left of the router's queue.
LEMMA DepartFacts ==
    ASSUME IInv, NEW i, NEW g, NEW q \in Seq(Message), Depart(i, g, q)
    PROVE  /\ call' \in [Bearers -> Call \cup {None}]
           /\ mq' \in Seq(Message) /\ Within(q, mq')
           /\ Evolves
           /\ \A b \in Bearers : call'[b] # None <=> call[b] # None
           /\ \A b \in Bearers : call[b] # None /\ call[b].group = g =>
                     \/ call'[b].rel # None
                     \/ /\ HasListener(affil', ext', g)
                        /\ ~Contains(call'[b].queue, i) /\ (Speaks(call[b], i) => ~call'[b].tx)
<1> DEFINE listened == HasListener(affil', ext', g)
           after == [b \in Bearers |-> IF call[b] # None /\ call[b].group = g
                                       THEN Departed(call[b], i, listened) ELSE call[b]]
           left == {b \in LiveFor(g) : Speaks(call[b], i) /\ listened}
<1>1. /\ call' = DropUnlistened(after, g, listened)
      /\ mq' = q \/ \E b \in left : mq' = q \o Both(g, "FloorReleased", b, None)
  BY DEF Depart
<1>2. mq' \in Seq(Message) /\ Within(q, mq')
  <2>1. CASE mq' = q
    BY <2>1 DEF Within, Contains
  <2>2. ASSUME NEW b \in left, mq' = q \o Both(g, "FloorReleased", b, None)
        PROVE  mq' \in Seq(Message) /\ Within(q, mq')
    <3>1. b \in Bearers
      BY DEF LiveFor
    <3>2. Both(g, "FloorReleased", b, None) \in Seq(Message)
      BY <3>1, Messages
    <3> QED
      BY <2>2, <3>2, AppendedFacts
  <2> HIDE DEF left
  <2> QED
    BY <1>1, <2>1, <2>2
<1>3. listened \in BOOLEAN
  BY SMTT(30), ZenonT(30) DEF HasListener, HasLocalListener
<1> HIDE DEF listened
<1>4. ASSUME NEW b \in Bearers
      PROVE  LET d == Departed(call[b], i, listened)
             IN  call'[b] = IF call[b] # None /\ call[b].group = g
                            THEN (IF ~listened THEN Release(d) ELSE d) ELSE call[b]
  <2>1. call'[b] = IF ~listened /\ after[b] # None /\ after[b].group = g
                   THEN Release(after[b]) ELSE after[b]
    BY <1>1 DEF DropUnlistened
  <2>2. after[b] = IF call[b] # None /\ call[b].group = g
                   THEN Departed(call[b], i, listened) ELSE call[b]
    OBVIOUS
  <2> HIDE DEF after
  <2>3. CASE ~(call[b] # None /\ call[b].group = g)
    BY <2>1, <2>2, <2>3
  <2>4. CASE call[b] # None /\ call[b].group = g
    <3> DEFINE d == Departed(call[b], i, listened)
    <3>1. Sound(call[b])
      BY <2>4, InvSound
    <3>2. ~listened => d \in Call /\ d.group = g
      <4>1. call[b] \in Call /\ Without(call[b].queue, i) \in Seq(Radios)
        BY <3>1, WithoutFacts, Zenon DEF Sound, Call
      <4>2. ~listened => d = [call[b] EXCEPT !.queue = Without(@, i)]
        BY DEF Departed
      <4>3. ASSUME NEW c \in Call, NEW w \in Seq(Radios)
            PROVE  [c EXCEPT !.queue = w] \in Call /\ [c EXCEPT !.queue = w].group = c.group
        BY DEF Call
      <4> QED
        BY <2>4, <4>1, <4>2, <4>3
    <3>3. ~listened => d # None
      BY <3>2, NoneAssumption
    <3> HIDE DEF d
    <3> QED
      BY <2>1, <2>2, <2>4, <3>2, <3>3 DEF d
  <2> QED
    BY <2>3, <2>4
<1>5. ASSUME NEW b \in Bearers
      PROVE  /\ call[b] = None => call'[b] = None
             /\ call[b] # None =>
                  /\ call'[b] # None /\ Sound(call'[b])
                  /\ Follows(call[b], call'[b], Members(call[b].group))
                  /\ call[b].group = g =>
                       \/ call'[b].rel # None
                       \/ /\ listened /\ ~Contains(call'[b].queue, i)
                          /\ Speaks(call[b], i) => ~call'[b].tx
  <2>1. CASE call[b] = None
    BY <1>4, <2>1, Zenon
  <2>2. CASE call[b] # None /\ call[b].group # g
    <3>1. call'[b] = call[b]
      BY <1>4, <2>2, SMTT(30), ZenonT(30)
    <3> QED
      BY <2>2, <3>1, InvSound, Unchanging, Zenon
  <2>3. CASE call[b] # None /\ call[b].group = g
    <3> DEFINE d == Departed(call[b], i, listened)
               e == IF ~listened THEN Release(d) ELSE d
               S == Members(call[b].group)
    <3>1. call'[b] = e
      BY <1>4, <2>3
    <3>2. /\ Sound(e) /\ Follows(call[b], e, S)
          /\ \/ e.rel # None
             \/ listened /\ ~Contains(e.queue, i) /\ (Speaks(call[b], i) => ~e.tx)
      BY <1>3, <2>3, InvSound, DepartedFacts, ZenonT(60)
    <3>3. e # None
      BY <3>2, NoneAssumption DEF Sound
    <3> HIDE DEF e
    <3> QED
      BY <2>3, <3>1, <3>2, <3>3, SMTT(30), ZenonT(30)
  <2> QED
    BY <2>1, <2>2, <2>3, Zenon
<1>6. call' \in [Bearers -> Call \cup {None}]
  <2>1. \A b \in Bearers : call'[b] \in Call \cup {None}
    BY <1>5 DEF Sound
  <2>2. call' = [b \in Bearers |-> call'[b]]
    BY <1>1 DEF DropUnlistened
  <2> QED
    BY <2>1, <2>2, SMTT(30), ZenonT(30)
<1>7. Evolves
  BY <1>5, ZenonT(60) DEF Evolves, Fresh
<1> QED
  BY <1>2, <1>5, <1>6, <1>7, Zenon DEF listened

\* A speaker who is lost loses the floor.
Yields ==
    \A b \in Bearers, i \in Radios, g \in Groups :
        Live(b) /\ call[b].group = g /\ Speaks(call[b], i) /\ Counted(i, g) /\ ~Counted(i, g)'
        => call'[b].rel # None \/ ~call'[b].tx

\* A departure in which nobody but i is lost, and only to g.
LEMMA DepartStep ==
    ASSUME IInv, NEW i, NEW g, NEW q \in Seq(Message), Depart(i, g, q),
           affil' \subseteq Radios \X Groups, ext' \subseteq Remotes \X Groups,
           \A j \in Radios, h \in Groups : (j # i \/ h # g) /\ Counted(j, h) =>
              <<j, h>> \in affil' \/
                 \E n \in 1..Len(q) :
                    q[n].type = "Deaffiliate" /\ q[n].arg = [issi |-> j, group |-> h],
           \A j \in Remotes, h \in Groups : (j # i \/ h # g) /\ <<j, h>> \in ext => <<j, h>> \in ext'
    PROVE  TypeOK' /\ Evolves /\ Cares /\ Yields
<1>1. /\ call' \in [Bearers -> Call \cup {None}]
      /\ mq' \in Seq(Message) /\ Within(q, mq')
      /\ Evolves
      /\ \A b \in Bearers : call'[b] # None <=> call[b] # None
      /\ \A b \in Bearers : call[b] # None /\ call[b].group = g =>
                \/ call'[b].rel # None
                \/ /\ HasListener(affil', ext', g)
                   /\ ~Contains(call'[b].queue, i) /\ (Speaks(call[b], i) => ~call'[b].tx)
  BY DepartFacts, Zenon
<1>2. TypeOK'
  BY <1>1, Zenon DEF TypeOK
<1>3. ASSUME NEW j \in Radios, NEW h \in Groups, j # i \/ h # g, Counted(j, h)
      PROVE  Counted(j, h)'
  <2>1. CASE <<j, h>> \in affil'
    BY <2>1, SMTT(30), ZenonT(30) DEF Counted, Affiliated
  <2>2. CASE \E n \in 1..Len(q) :
               q[n].type = "Deaffiliate" /\ q[n].arg = [issi |-> j, group |-> h]
    <3>1. PICK n \in 1..Len(q) :
                 q[n].type = "Deaffiliate" /\ q[n].arg = [issi |-> j, group |-> h]
      BY <2>2, SMTT(30), ZenonT(30)
    <3>2. PICK m \in 1..Len(mq') : mq'[m] = q[n]
      BY <1>1 DEF Within, Contains
    <3> QED
      BY <3>1, <3>2, SMTT(30), ZenonT(30) DEF Counted, Leaving
  <2> QED
    BY <1>3, <2>1, <2>2, ZenonT(60)
<1>4. ASSUME NEW b \in Bearers, NEW h \in Groups, Live(b)', call'[b].group = h
      PROVE  /\ \A j \in Radios :
                  Contains(call'[b].queue, j) /\ Counted(j, h) => Counted(j, h)'
             /\ (\E j \in Radios : Counted(j, h)) \/ (\E j \in Remotes : <<j, h>> \in ext)
                  => (\E j \in Radios : Counted(j, h)') \/ (\E j \in Remotes : <<j, h>> \in ext')
  <2>1. call[b] # None => call[b].group = h
    BY <1>1, <1>4, Zenon DEF Evolves, Live, Follows
  <2>3. CASE h # g
    BY <1>3, <2>3, Zenon
  <2>4. CASE h = g /\ call[b] # None
    <3>1. HasListener(affil', ext', g) /\ ~Contains(call'[b].queue, i)
      BY <1>1, <1>4, <2>1, <2>4 DEF Live
    <3>2. (\E j \in Radios : Counted(j, h)') \/ (\E j \in Remotes : <<j, h>> \in ext')
      BY <2>4, <3>1, ZenonT(60) DEF HasListener, HasLocalListener, Counted, Affiliated
    <3>3. \A j \in Radios : Contains(call'[b].queue, j) /\ Counted(j, h) => Counted(j, h)'
      BY <1>3, <3>1, ZenonT(60)
    <3> QED
      BY <3>2, <3>3, ZenonT(60)
  <2>5. CASE call[b] = None
    <3>1. FALSE
      BY <1>1, <1>4, <2>5 DEF Live
    <3> QED
      BY <3>1, SMTT(30), ZenonT(30)
  <2> QED
    BY <2>3, <2>4, <2>5, Zenon
<1>5. Cares
  BY <1>4, Zenon DEF Cares
<1>6. Yields
  <2> SUFFICES ASSUME NEW b \in Bearers, NEW j \in Radios, NEW h \in Groups,
                      Live(b), call[b].group = h, Speaks(call[b], j),
                      Counted(j, h), ~Counted(j, h)'
               PROVE  call'[b].rel # None \/ ~call'[b].tx
    BY SMTT(30), ZenonT(30) DEF Yields
  <2>1. j = i /\ h = g
    BY <1>3, SMTT(30), ZenonT(30)
  <2> QED
    BY <1>1, <2>1, ZenonT(60) DEF Live
<1> QED
  BY <1>1, <1>2, <1>5, <1>6

\* A radio that leaves loses its place in the queue, and the floor.
LEMMA LeaveStep ==
    ASSUME IInv, NEW i \in Radios, NEW g \in Groups, Leave(i, g)
    PROVE  TypeOK' /\ Evolves /\ Cares /\ Yields
<1>1. /\ affil' = affil \ {<<i, g>>} /\ ext' = ext /\ Depart(i, g, mq)
      /\ TypeOK
  BY DEF Leave, IInv
<1>2. affil' \subseteq Radios \X Groups /\ ext' \subseteq Remotes \X Groups /\ mq \in Seq(Message)
  BY <1>1 DEF TypeOK
<1>3. ASSUME NEW j \in Radios, NEW h \in Groups, j # i \/ h # g, Counted(j, h)
      PROVE  <<j, h>> \in affil' \/
                 \E n \in 1..Len(mq) :
                    mq[n].type = "Deaffiliate" /\ mq[n].arg = [issi |-> j, group |-> h]
  BY <1>1, <1>3 DEF Counted, Affiliated, Leaving
<1> QED
  BY <1>1, <1>2, <1>3, DepartStep

\* A subscriber behind Brew leaves a group, or is reported to by a message.
LEMMA ExternalDepartsStep ==
    ASSUME IInv, NEW i \in Remotes, NEW g \in Groups, NEW q, Rest(q), ExternalDeparts(i, g, q)
    PROVE  TypeOK' /\ Evolves /\ Cares /\ Yields
<1>1. CASE <<i, g>> \notin ext
  <2>1. TypeOK' /\ Evolves /\ Keeps
    BY <1>1, StillStep, SMTT(30), ZenonT(30) DEF ExternalDeparts
  <2> QED
    BY <2>1, KeepsCares DEF Keeps, Yields
<1>2. CASE <<i, g>> \in ext
  <2>1. /\ ext' = ext \ {<<i, g>>} /\ affil' = affil /\ Depart(i, g, q)
        /\ TypeOK /\ q \in Seq(Message)
    BY <1>2 DEF ExternalDeparts, IInv, Rest
  <2>2. affil' \subseteq Radios \X Groups /\ ext' \subseteq Remotes \X Groups
    BY <2>1, SMTT(30), ZenonT(30) DEF TypeOK
  <2>3. ASSUME NEW j \in Radios, NEW h \in Groups, Counted(j, h)
        PROVE  <<j, h>> \in affil' \/
                   \E n \in 1..Len(q) :
                      q[n].type = "Deaffiliate" /\ q[n].arg = [issi |-> j, group |-> h]
    BY <2>1, <2>3 DEF Counted, Affiliated, Leaving, Rest, Contains
  <2>4. \A j \in Remotes, h \in Groups : (j # i \/ h # g) /\ <<j, h>> \in ext => <<j, h>> \in ext'
    BY <2>1
  <2> QED
    BY <2>1, <2>2, <2>3, <2>4, DepartStep, SMTT(30), ZenonT(30)
<1> QED
  BY <1>1, <1>2, SMTT(30), ZenonT(30)

\* The report of a departure is the only message whose delivery loses somebody.
LEMMA DeliverStep ==
    ASSUME IInv, Deliver
    PROVE  TypeOK' /\ Evolves /\ Cares /\ Yields
<1> DEFINE m == Head(mq)
           q == Tail(mq)
<1>1. TypeOK /\ mq # <<>> /\ affil' = affil /\ ext' = ext
  BY DEF Deliver, Deaffiliated, cmceVars, IInv
<1>2. /\ q \in Seq(Message) /\ Len(q) = Len(mq) - 1 /\ Len(mq) \in Nat \ {0} /\ m = mq[1]
      /\ \A n \in 1..Len(q) : q[n] = mq[n + 1]
  BY <1>1 DEF TypeOK
<1> HIDE DEF q, m
<1>3. ASSUME NEW j, NEW h, Leaving(j, h),
             m.type # "Deaffiliate" \/ m.arg # [issi |-> j, group |-> h]
      PROVE  \E n \in 1..Len(q) :
               q[n].type = "Deaffiliate" /\ q[n].arg = [issi |-> j, group |-> h]
  <2>1. PICK n \in 1..Len(mq) :
               mq[n].type = "Deaffiliate" /\ mq[n].arg = [issi |-> j, group |-> h]
    BY <1>3 DEF Leaving
  <2>2. n # 1
    BY <1>2, <1>3, <2>1
  <2>3. n - 1 \in 1..Len(q) /\ (n - 1) + 1 = n
    BY <1>2, <2>2
  <2> QED
    BY <1>2, <2>1, <2>3, Zenon
<1>4. CASE m.type = "Deaffiliate" /\ Depart(m.arg.issi, m.arg.group, q)
  <2> DEFINE i == m.arg.issi
             g == m.arg.group
  <2>1. ASSUME NEW j \in Radios, NEW h \in Groups, j # i \/ h # g, Counted(j, h)
        PROVE  <<j, h>> \in affil' \/
                 \E n \in 1..Len(q) :
                    q[n].type = "Deaffiliate" /\ q[n].arg = [issi |-> j, group |-> h]
    <3>1. CASE Affiliated(j, h)
      BY <1>1, <3>1 DEF Affiliated
    <3>2. CASE Leaving(j, h)
      <4>1. m.arg # [issi |-> j, group |-> h]
        BY <2>1
      <4> QED
        BY <1>3, <3>2, <4>1
    <3> QED
      BY <2>1, <3>1, <3>2 DEF Counted
  <2>2. affil' \subseteq Radios \X Groups /\ ext' \subseteq Remotes \X Groups
    BY <1>1 DEF TypeOK
  <2>3. \A j \in Remotes, h \in Groups : <<j, h>> \in ext => <<j, h>> \in ext'
    BY <1>1, SMTT(30), ZenonT(30)
  <2> HIDE DEF i, g
  <2> QED
    BY <1>2, <1>4, <2>1, <2>2, <2>3, DepartStep DEF i, g
<1>5. CASE m.type # "Deaffiliate" /\ mq' = q /\ call' = call
  <2>1. TypeOK' /\ Evolves
    BY <1>1, <1>2, <1>5, IdleStep DEF TypeOK
  <2>2. \A j, h : Leaving(j, h) => Leaving(j, h)'
    BY <1>3, <1>5 DEF Leaving
  <2>3. Keeps
    BY <1>1, <2>2 DEF Keeps, Counted, Affiliated
  <2> QED
    BY <2>1, <2>3, KeepsCares DEF Keeps, Yields
<1> QED
  BY <1>4, <1>5 DEF Deliver, Deaffiliated, cmceVars, m, q

-----------------------------------------------------------------------------
(* The theorems *)

\* What every step of CMCE does.
LEMMA EveryStep ==
    ASSUME IInv, [GCNext]_gcVars
    PROVE  TypeOK' /\ Evolves /\ Cares /\ Yields
<1>1. ASSUME TypeOK' /\ Evolves /\ Keeps
      PROVE  TypeOK' /\ Evolves /\ Cares /\ Yields
  BY <1>1, KeepsCares DEF Keeps, Yields
<1>2. ASSUME NEW i \in Radios, RadioSteps(i)
      PROVE  TypeOK' /\ Evolves /\ Cares /\ Yields
  <2>1. ASSUME NEW g \in Groups, NEW b \in Bearers, NEW p \in Priorities, SetupNew(i, g, b, p)
        PROVE  TypeOK' /\ Evolves /\ Cares /\ Yields
    BY <1>1, <2>1, SetupNewStep
  <2>2. ASSUME NEW b \in Bearers, SetupReentry(i, b)
        PROVE  TypeOK' /\ Evolves /\ Cares /\ Yields
    BY <1>1, <2>2, SetupReentryStep
  <2>3. ASSUME NEW b \in Bearers, NEW preemptive \in BOOLEAN, TxDemand(b, i, preemptive)
        PROVE  TypeOK' /\ Evolves /\ Cares /\ Yields
    BY <1>1, <2>3, TxDemandStep
  <2>4. ASSUME NEW b \in Bearers, TxCeased(b, i)
        PROVE  TypeOK' /\ Evolves /\ Cares /\ Yields
    BY <1>1, <2>4, TxCeasedStep
  <2>5. ASSUME NEW b \in Bearers, UDisconnect(b, i)
        PROVE  TypeOK' /\ Evolves /\ Cares /\ Yields
    BY <1>1, <2>5, ReleaseStep, RestWhole DEF UDisconnect, Live
  <2>6. ASSUME NEW g \in Groups, Affiliate(i, g)
        PROVE  TypeOK' /\ Evolves /\ Cares /\ Yields
    BY <1>1, <2>6, AffiliateStep
  <2>7. ASSUME NEW g \in Groups, Leave(i, g)
        PROVE  TypeOK' /\ Evolves /\ Cares /\ Yields
    BY <2>7, LeaveStep
  <2> QED
    BY <1>2, <2>1, <2>2, <2>3, <2>4, <2>5, <2>6, <2>7 DEF RadioSteps
<1>3. ASSUME NEW b \in Bearers, TickSteps(b)
      PROVE  TypeOK' /\ Evolves /\ Cares /\ Yields
  <2>1. CASE ReportReady(b) \/ \E st \in {"sent", "lost"} : ReportActivation(b, st)
    BY <1>1, <2>1, ReportStep
  <2>2. CASE DrainTail(b)
    BY <1>1, <2>2, DrainTailStep
  <2>3. CASE DrainActivation(b)
    BY <1>1, <2>3, DrainActivationStep, SMTT(30), ZenonT(30)
  <2>4. CASE DrainReady(b)
    BY <1>1, <2>4, DrainReadyStep
  <2>5. CASE CompleteRelease(b)
    BY <1>1, <2>5, CompleteReleaseStep
  <2>6. CASE CallTimeout(b) \/ HangtimeExpired(b)
    BY <1>1, <2>6, ReleaseStep, RestWhole DEF CallTimeout, HangtimeExpired, Live
  <2>7. CASE CircuitExpires(b)
    BY <1>1, <2>7, CircuitExpiresStep
  <2> QED
    BY <1>3, <2>1, <2>2, <2>3, <2>4, <2>5, <2>6, <2>7 DEF TickSteps
<1>4. ASSUME NEW i \in Remotes, NEW g \in Groups, ExternalAffiliate(i, g) \/ ExternalLeave(i, g)
      PROVE  TypeOK' /\ Evolves /\ Cares /\ Yields
  <2>1. CASE ExternalAffiliate(i, g)
    BY <1>1, <2>1, ExternalAffiliateStep
  <2>2. CASE ExternalLeave(i, g)
    BY <2>2, ExternalDepartsStep, RestWhole DEF ExternalLeave
  <2> QED
    BY <1>4, <2>1, <2>2
<1>5. ASSUME NEW i \in Kickable, Kick(i)
      PROVE  TypeOK' /\ Evolves /\ Cares /\ Yields
  BY <1>1, <1>5, KickStep
<1>6. ASSUME NEW b \in Bearers, UlInactivityTimeout(b, mq)
      PROVE  TypeOK' /\ Evolves /\ Cares /\ Yields
  BY <1>1, <1>6, UlInactivityStep, RestWhole
<1>7. ASSUME NEW n \in NetStart, NetworkCallStart(n, mq)
      PROVE  TypeOK' /\ Evolves /\ Cares /\ Yields
  BY <1>1, <1>7, NetworkCallStartStep, RestWhole
<1>8. ASSUME NEW u \in Uuids, NetworkCallEnd(u, mq)
      PROVE  TypeOK' /\ Evolves /\ Cares /\ Yields
  BY <1>1, <1>8, NetworkCallEndStep, RestWhole
<1>9. CASE Deliver
  BY <1>9, DeliverStep
<1>10. CASE UNCHANGED gcVars
  BY <1>1, <1>10, StillStep, RestWhole, SMTT(30), ZenonT(30) DEF gcVars
<1> QED
  BY <1>2, <1>3, <1>4, <1>5, <1>6, <1>7, <1>8, <1>9, <1>10, SMTT(30), ZenonT(30) DEF GCNext, ExternalSteps

\* The invariant holds at start-up.
LEMMA InitInv == GCInit => IInv
<1> SUFFICES ASSUME GCInit PROVE IInv
  OBVIOUS
<1>1. TypeOK
  BY DEF GCInit, TypeOK
<1>2. \A b \in Bearers : call[b] = None
  BY DEF GCInit
<1> QED
  BY <1>1, <1>2 DEF IInv, OneLiveCallPerGroup, ReleaseCancelsFloorWork, QueueWellFormed,
                    LiveCallsListened, Live

\* The inductive invariant holds in every reachable state.
THEOREM Invariance == GCSpec => []IInv
<1>1. ASSUME IInv, [GCNext]_gcVars PROVE IInv'
  BY <1>1, EveryStep, CaringStep
<1> QED
  BY <1>1, InitInv, PTL DEF GCSpec

\* Calls, subscribers and messages keep their types.
THEOREM TypeCorrect == GCSpec => []TypeOK
<1>1. IInv => TypeOK
  BY DEF IInv
<1> QED
  BY <1>1, Invariance, PTL

\* A group never has two calls that are not being released.
THEOREM OneCall == GCSpec => []OneLiveCallPerGroup
<1>1. IInv => OneLiveCallPerGroup
  BY DEF IInv
<1> QED
  BY <1>1, Invariance, PTL

\* The start of a release cancels the tail, the activation and the readiness that
\* were pending, and nothing becomes pending while it drains.
THEOREM ReleaseAlone == GCSpec => []ReleaseCancelsFloorWork
<1>1. IInv => ReleaseCancelsFloorWork
  BY DEF IInv
<1> QED
  BY <1>1, Invariance, PTL

\* The queue of floor requests is fair, bounded and made of members, for every
\* bound on its length.
THEOREM QueueFair == GCSpec => []QueueWellFormed
<1>1. IInv => QueueWellFormed
  BY DEF IInv
<1> QED
  BY <1>1, Invariance, PTL

\* No call goes on that nobody listens to.
THEOREM Listened == GCSpec => []LiveCallsListened
<1>1. IInv => LiveCallsListened
  BY DEF IInv
<1> QED
  BY <1>1, Invariance, PTL

\* The floor of a call in progress is only ever given to affiliated radios.
THEOREM MembersOnly == GCSpec => FloorGoesToMembers
<1> DEFINE A == \A b \in Bearers : Live(b) /\ Live(b)' =>
                  LET i == call'[b].speaker
                  IN  i \in Radios /\ Speaks(call'[b], i) /\ ~Speaks(call[b], i)
                        => Affiliated(i, call[b].group)
<1>1. ASSUME IInv, [GCNext]_gcVars PROVE A
  <2>1. Evolves
    BY <1>1, EveryStep
  <2> QED
    BY <2>1 DEF Evolves, Follows, Live, Members
<1>2. FloorGoesToMembers <=> [][A]_gcVars
  BY PTL DEF FloorGoesToMembers
<1> HIDE DEF A
<1> QED
  BY <1>1, <1>2, Invariance, PTL DEF GCSpec

\* The step in which CMCE learns that a speaker left ends its transmission.
THEOREM LeaversStop == GCSpec => LeaversLoseFloor
<1>1. ASSUME IInv, [GCNext]_gcVars PROVE Yields
  BY <1>1, EveryStep
<1>2. LeaversLoseFloor <=> [][Yields]_gcVars
  BY PTL DEF LeaversLoseFloor, Yields
<1> QED
  BY <1>1, <1>2, Invariance, PTL DEF GCSpec

=============================================================================

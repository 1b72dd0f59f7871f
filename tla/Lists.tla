------------------------------- MODULE Lists -------------------------------
(* The few operators on sequences and maps that the modules with proofs need. *)
(* The prover carries every definition in scope into every obligation, so     *)
(* these modules take them from here.                                         *)
EXTENDS Naturals, Sequences, FiniteSets, Functions

Contains(s, e) == \E i \in 1..Len(s) : s[i] = e
RemoveAt(s, i) == SubSeq(s, 1, i - 1) \o SubSeq(s, i + 1, Len(s))

\* A set as a sequence: in any order, and in the order of op.
SetToSeq(S) == CHOOSE f \in [1..Cardinality(S) -> S] : IsInjective(f)
SetToSortSeq(S, op(_, _)) ==
    CHOOSE f \in [1..Cardinality(S) -> S] :
        \A i, j \in 1..Cardinality(S) : i < j => op(f[i], f[j]) /\ f[i] # f[j]

\* The smallest of a set of numbers.
Min(S) == CHOOSE x \in S : \A y \in S : x <= y

\* A map with one more entry, or another value for a key it has.
Insert(f, k, v) == [x \in DOMAIN f \cup {k} |-> IF x = k THEN v ELSE f[x]]
=============================================================================

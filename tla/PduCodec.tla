------------------------------ MODULE PduCodec ------------------------------
(***************************************************************************)
(* How every PDU of the air interface is put into bits and read back: the  *)
(* bit buffer (bitbuffer.rs) and the optional elements of type 2, 3 and 4  *)
(* with their o-, p- and m-bits (typed_pdu_fields.rs).                     *)
(*                                                                         *)
(* A PDU is described by four things, each translated from its own part of *)
(* the code: the fields of its struct, the sequence of elements its        *)
(* from_bitbuf reads, the sequence of elements its to_bitbuf writes, and   *)
(* what its validation demands.  The two sequences are written down        *)
(* independently, in the order of the code, so a reader and a writer that  *)
(* disagree about a width, an order or a condition are told apart.         *)
(*                                                                         *)
(* A bit string is a sequence of 0 and 1.  A PDU value is a function from  *)
(* the names of the fields that are present to numbers, nested values,     *)
(* lists of them, or bit strings for fields too wide to be a number.       *)
(***************************************************************************)
EXTENDS Integers, Sequences, FiniteSets, TLC

-----------------------------------------------------------------------------
(* The elements of a layout.                                               *)

Fixed(w, c) == [k |-> "fixed", w |-> w, c |-> c]         \* a constant
Told(w, c) == [k |-> "told", w |-> w, c |-> c]           \* c, not looked at
Spare(w) == Told(w, 0)
Slack(w) == [k |-> "slack", w |-> w]                     \* 0, may be missing
Field(n, w) == [k |-> "field", n |-> n, w |-> w]         \* an integer
Code(n, w, S) == [k |-> "code", n |-> n, w |-> w, s |-> S]  \* an enum
Flag(n) == Code(n, 1, {0, 1})
Shifted(n, w, d) == [k |-> "shifted", n |-> n, w |-> w, d |-> d] \* less d
Implied(n, x) == [k |-> "implied", n |-> n, x |-> x]     \* not in the bits
Raw(n, w) == [k |-> "raw", n |-> n, w |-> w]             \* a wide bit string
Sub(n, L) == [k |-> "sub", n |-> n, l |-> L]             \* a nested struct
\* All that is left but less bits, which may be none: a field [len, data].
Rest(n, less) == [k |-> "rest", n |-> n, less |-> less]
\* A length of w bits and as many bits: a field [len, bits].
Counted(n, w, lens) == [k |-> "counted", n |-> n, w |-> w, lens |-> lens]
RawBy(n, c) == [k |-> "rawby", n |-> n, c |-> c]  \* one bit less than c says
\* A code of w bits: in S it is the field n, from d on the field m plus d.
Split(n, w, S, m, d) ==
    [k |-> "split", n |-> n, w |-> w, s |-> S, m |-> m, d |-> d]
If(rules, es, other) == [k |-> "if", rules |-> rules, es |-> es, other |-> other]
When(n, S, es) == [k |-> "when", n |-> n, s |-> S, es |-> es]
Switch(n, f) == [k |-> "switch", n |-> n, f |-> f]       \* elements by code
Some(n, es) == [k |-> "some", n |-> n, es |-> es]
\* A flag bit, then the elements when the field (the flag) is there.
Flagged(n, es) == [k |-> "flagged", n |-> n, es |-> es]
\* A code that is not a field: the reader remembers it under n, the writer
\* derives it; codes[i] = <<the fields that are present, the code>>.
Select(n, w, codes) == [k |-> "select", n |-> n, w |-> w, codes |-> codes]
\* The same for a bit that says whether the fields a and b differ.
Differ(n, a, b) == [k |-> "differ", n |-> n, w |-> 1, a |-> a, b |-> b]
Copied(n, m) == [k |-> "copied", n |-> n, m |-> m]       \* n is what m is
Coded(n, w, c) == [k |-> "coded", n |-> n, w |-> w, c |-> c] \* a flag: c or not
Body(n) == [k |-> "body", n |-> n]                       \* all that is left

Obit(ns) == [k |-> "obit", ns |-> ns]
Opt(n, es) == [k |-> "opt", n |-> n, es |-> es]          \* type 2
Type2(n, w) == Opt(n, <<Field(n, w)>>)
OptSub(n, L) == Opt(n, <<Sub(n, L)>>)
ReadObit == Obit({})
Type3(n, id) == [k |-> "type3", n |-> n, id |-> id]
Type3Sub(n, id, L) == [k |-> "type3sub", n |-> n, id |-> id, l |-> L]
Type4(n, id) == [k |-> "type4", n |-> n, id |-> id]
Type4Sub(n, id, L) == [k |-> "type4sub", n |-> n, id |-> id, l |-> L]
\* The elements of type 3 and 4 in any order, up to the last m-bit.
AnyOrder(es) == [k |-> "anyorder", es |-> es]
Trailing == [k |-> "trailing"]                           \* the last m-bit
End(o) == [k |-> "end", o |-> o]     \* nothing is left (if the o-bit was set)
\* As many structs as the field c says.
Repeat(n, c, L) == [k |-> "repeat", n |-> n, c |-> c, l |-> L]
\* At least one struct, and more as long as min bits are left; then only zeros.
Blocks(n, min, L) == [k |-> "blocks", n |-> n, min |-> min, l |-> L]
Must(q) == [k |-> "must", q |-> q]                       \* a check on the way

\* What a validation demands.
Fits(f) == [k |-> "fits", f |-> f]                       \* widths by field
Is(n, S) == [k |-> "is", n |-> n, s |-> S]
AtMost(n, m) == [k |-> "atmost_of", n |-> n, m |-> m]    \* n is not above m
AllSame(n, S, ms) == [k |-> "allsame", n |-> n, s |-> S, ms |-> ms]
Needs(a, b) == [k |-> "needs", a |-> a, b |-> b]
Shape(n, f) == [k |-> "shape", n |-> n, f |-> f]  \* fields by code, -1: none
Iff(n, S, m) == [k |-> "iff", n |-> n, s |-> S, m |-> m] \* m there iff n in S
Length(n, lens, exact) == [k |-> "length", n |-> n, lens |-> lens, exact |-> exact]
Required(n) == [k |-> "required", n |-> n]
OneOf(ns) == [k |-> "oneof", ns |-> ns]
Absent(ns) == [k |-> "absent", ns |-> ns]
Element(ns, min, max) == [k |-> "element", ns |-> ns, min |-> min, max |-> max]
Elements(n) == [k |-> "elements", n |-> n]               \* a type 4 element
Among(ns, S) == [k |-> "among", ns |-> ns, s |-> S]      \* which are there
Counts(c, n) == [k |-> "counts", c |-> c, n |-> n]       \* c is n's length
FitsBy(n, m, f) == [k |-> "fitsby", n |-> n, m |-> m, f |-> f] \* width by code m
Forbids(n, S, ms) == [k |-> "forbids", n |-> n, s |-> S, ms |-> ms]
NonEmpty(n) == [k |-> "nonempty", n |-> n]
Inner(n, rules) == [k |-> "inner", n |-> n, rules |-> rules]
Each(n, rules) == [k |-> "each", n |-> n, rules |-> rules]

-----------------------------------------------------------------------------
(* Bits.                                                                   *)

Nothing == [x \in {} |-> x]
Has(v, n) == n \in DOMAIN v
ToBits(x, w) == [i \in 1..w |-> (x \div 2^(w - i)) % 2]
RECURSIVE ToNumber(_)
ToNumber(b) == IF b = <<>> THEN 0
               ELSE 2 * ToNumber(SubSeq(b, 1, Len(b) - 1)) + b[Len(b)]
Drop(b, k) == SubSeq(b, k + 1, Len(b))

\* write_bits: a value that does not fit in the width is an assertion failure.
PutAny(w, bits) == [w EXCEPT !.b = @ \o bits]
Put(w, x, width) ==
    IF x >= 2^width THEN [w EXCEPT !.st = "panic"] ELSE PutAny(w, ToBits(x, width))
Refuse(w) == [w EXCEPT !.st = "err"]
Panic(w) == [w EXCEPT !.st = "panic"]
\* read_field: the buffer may have ended.
Short(r, width) == Len(r.b) < width
Peek(r, width) == ToNumber(SubSeq(r.b, 1, width))
Skip(r, width) == IF Short(r, width) THEN [r EXCEPT !.st = "err"]
                  ELSE [r EXCEPT !.b = Drop(@, width)]
Keep(r, n, x) == [r EXCEPT !.v = (n :> x) @@ @]

-----------------------------------------------------------------------------
(* Validation.                                                             *)

RECURSIVE Holds(_, _)
Demand(q, v) ==
    CASE q.k = "fits" -> \A n \in DOMAIN q.f \cap DOMAIN v : v[n] < 2^q.f[n]
      [] q.k = "is" -> Has(v, q.n) => v[q.n] \in q.s
      [] q.k = "atmost_of" -> v[q.n] <= v[q.m]
      [] q.k = "allsame" -> v[q.n] \in q.s => Cardinality({v[m] : m \in q.ms}) = 1
      [] q.k = "needs" -> Has(v, q.a) => Has(v, q.b)
      [] q.k = "shape" ->
            LET c == IF Has(v, q.n) THEN v[q.n] ELSE -1
            IN /\ c \in DOMAIN q.f
               /\ DOMAIN v \cap UNION {q.f[d] : d \in DOMAIN q.f} = q.f[c]
      [] q.k = "iff" -> (v[q.n] \in q.s) <=> Has(v, q.m)
      [] q.k = "required" -> Has(v, q.n)
      [] q.k = "length" ->
            Has(v, q.n) => /\ v[q.n].len \in q.lens
                           /\ IF q.exact THEN Len(v[q.n].bits) = v[q.n].len
                              ELSE Len(v[q.n].bits) >= v[q.n].len
      [] q.k = "oneof" -> Cardinality(DOMAIN v \cap q.ns) = 1
      [] q.k = "absent" -> DOMAIN v \cap q.ns = {}
      [] q.k = "element" ->
            \A n \in q.ns \cap DOMAIN v :
               /\ v[n].len \in q.min..q.max
               /\ Len(v[n].data) <= v[n].len
      [] q.k = "elements" ->
            Has(v, q.n) => /\ v[q.n].len <= 64 /\ v[q.n].elems <= 63
                           /\ Len(v[q.n].data) <= v[q.n].len
      [] q.k = "among" -> DOMAIN v \cap q.ns \in q.s
      [] q.k = "counts" -> (IF Has(v, q.c) THEN v[q.c] ELSE 0) = Len(v[q.n])
      [] q.k = "fitsby" -> v[q.m] \in DOMAIN q.f /\ v[q.n] < 2^q.f[v[q.m]]
      [] q.k = "forbids" -> v[q.n] \in q.s => DOMAIN v \cap q.ms = {}
      [] q.k = "nonempty" -> Has(v, q.n) => v[q.n] # <<>>
      [] q.k = "inner" -> Has(v, q.n) => Holds(q.rules, v[q.n])
      [] q.k = "each" -> Has(v, q.n) =>
                            \A i \in DOMAIN v[q.n] : Holds(q.rules, v[q.n][i])
Holds(rules, v) == \A i \in DOMAIN rules : Demand(rules[i], v)

-----------------------------------------------------------------------------
(* Writing.  The writer is [st, b, o]: whether it still goes on ("ok"),    *)
(* has returned an error ("err") or has failed an assertion ("panic"), the *)
(* bits so far, and the o-bit.                                             *)

RECURSIVE Written(_, _, _)
RECURSIVE WriteList(_, _, _)

\* A struct's own to_bitbuf, called with the buffer of the enclosing one.
WriteSub(L, x, w) ==
    IF ~Holds(L.v, x) THEN Refuse(w)
    ELSE [Written(L.w, x, [w EXCEPT !.o = FALSE]) EXCEPT !.o = w.o]
WriteList(L, xs, w) ==
    IF xs = <<>> \/ w.st # "ok" THEN w
    ELSE WriteList(L, Tail(xs), WriteSub(L, Head(xs), w))

\* write_type2_generic, write_type2_struct.
WriteOpt(e, v, w) ==
    IF ~w.o THEN IF Has(v, e.n) THEN Panic(w) ELSE w
    ELSE IF Has(v, e.n) THEN Written(e.es, v, Put(w, 1, 1)) ELSE Put(w, 0, 1)

\* write_type34_header_generic.
Header(w, id) == Put(Put(w, 1, 1), id, 4)

\* write_type3_generic: what does not fit the length, or the 128 bits that
\* two writes can take, is an assertion failure.
WriteType3(e, v, w) ==
    IF ~Has(v, e.n) THEN w
    ELSE IF ~w.o THEN Refuse(w)
    ELSE IF v[e.n].len > 128 \/ Len(v[e.n].data) > v[e.n].len
         THEN Panic(Header(w, e.id))
    ELSE PutAny(Put(Header(w, e.id), v[e.n].len, 11), v[e.n].data)

\* write_type3_struct: the length is filled in once the struct is written.
WriteType3Sub(e, v, w) ==
    IF ~Has(v, e.n) THEN w
    ELSE IF ~w.o THEN Refuse(w)
    ELSE LET inner == WriteSub(e.l, v[e.n], [w EXCEPT !.b = <<>>])
             head == Put(Header(w, e.id), Len(inner.b), 11)
         IN IF inner.st # "ok" THEN [Header(w, e.id) EXCEPT !.st = inner.st]
            ELSE IF head.st # "ok" THEN head
            ELSE PutAny(head, inner.b)

\* write_type4_todo.
WriteType4(e, v, w) ==
    IF ~Has(v, e.n) THEN w
    ELSE IF \/ ~w.o
            \/ v[e.n].len > 64
            \/ v[e.n].elems > 63
            \/ Len(v[e.n].data) > v[e.n].len
         THEN Refuse(w)
    ELSE PutAny(Put(Put(Header(w, e.id), v[e.n].len + 6, 11), v[e.n].elems, 6),
                v[e.n].data)

\* write_type4_struct: the list is written apart, so an error leaves nothing.
WriteType4Sub(e, v, w) ==
    IF ~Has(v, e.n) THEN w
    ELSE LET xs == v[e.n]
             list == WriteList(e.l, xs, [w EXCEPT !.b = <<>>])
         IN IF ~w.o \/ Len(xs) \notin 1..63 THEN Refuse(w)
            ELSE IF list.st # "ok" THEN [w EXCEPT !.st = list.st]
            ELSE IF Len(list.b) + 6 > 2047 THEN Refuse(w)
            ELSE PutAny(Put(Put(Header(w, e.id), Len(list.b) + 6, 11),
                            Len(xs), 6), list.b)

\* The first of the codes whose fields are all present.
Chosen(e, v) ==
    LET fit == {i \in DOMAIN e.codes : e.codes[i][1] \subseteq DOMAIN v}
    IN e.codes[CHOOSE i \in fit : \A j \in fit : i <= j][2]

WriteOne(e, v, w) ==
    CASE e.k = "fixed" -> Put(w, e.c, e.w)
      [] e.k = "told" -> Put(w, e.c, e.w)
      [] e.k = "slack" -> Put(w, 0, e.w)
      [] e.k = "shifted" -> Put(w, v[e.n] - e.d, e.w)
      [] e.k \in {"implied", "copied"} -> w
      [] e.k \in {"field", "code"} ->
            IF Has(v, e.n) THEN Put(w, v[e.n], e.w) ELSE Panic(w)
      [] e.k \in {"raw", "rawby", "body"} -> IF Has(v, e.n) THEN PutAny(w, v[e.n]) ELSE Panic(w)
      [] e.k = "rest" -> IF Has(v, e.n) THEN PutAny(w, v[e.n].data) ELSE w
      [] e.k = "counted" ->
            IF ~Has(v, e.n) \/ Len(v[e.n].bits) < v[e.n].len THEN Panic(w)
            ELSE LET head == Put(w, v[e.n].len, e.w)
                 IN IF head.st # "ok" THEN head
                    ELSE PutAny(head, SubSeq(v[e.n].bits, 1, v[e.n].len))
      [] e.k = "sub" -> IF Has(v, e.n) THEN WriteSub(e.l, v[e.n], w) ELSE Panic(w)
      [] e.k = "if" -> Written(IF Holds(e.rules, v) THEN e.es ELSE e.other, v, w)
      [] e.k = "when" -> IF v[e.n] \in e.s THEN Written(e.es, v, w) ELSE w
      [] e.k = "switch" ->
            IF Has(v, e.n) /\ v[e.n] \in DOMAIN e.f THEN Written(e.f[v[e.n]], v, w) ELSE w
      [] e.k = "some" -> IF Has(v, e.n) THEN Written(e.es, v, w) ELSE w
      [] e.k = "flagged" -> IF Has(v, e.n) THEN Written(e.es, v, Put(w, 1, 1))
                            ELSE Put(w, 0, 1)
      [] e.k = "select" -> Put(w, Chosen(e, v), e.w)
      [] e.k = "differ" -> Put(w, IF v[e.a] # v[e.b] THEN 1 ELSE 0, 1)
      [] e.k = "coded" -> Put(w, IF v[e.n] = 1 THEN e.c ELSE 0, e.w)
      [] e.k \in {"repeat", "blocks"} -> WriteList(e.l, v[e.n], w)
      [] e.k = "obit" -> LET o == DOMAIN v \cap e.ns # {}
                         IN [Put(w, IF o THEN 1 ELSE 0, 1) EXCEPT !.o = o]
      [] e.k = "opt" -> WriteOpt(e, v, w)
      [] e.k = "type3" -> WriteType3(e, v, w)
      [] e.k = "type3sub" -> WriteType3Sub(e, v, w)
      [] e.k = "type4" -> WriteType4(e, v, w)
      [] e.k = "type4sub" -> WriteType4Sub(e, v, w)
      [] e.k = "trailing" -> IF w.o THEN Put(w, 0, 1) ELSE w
      [] e.k = "must" -> IF Demand(e.q, v) THEN w ELSE Refuse(w)

Written(es, v, w) ==
    IF es = <<>> \/ w.st # "ok" THEN w
    ELSE Written(Tail(es), v, WriteOne(Head(es), v, w))

\* to_bitbuf of the PDU with layout L into an empty buffer.
ToBitbuf(L, v) == WriteSub(L, v, [st |-> "ok", b |-> <<>>, o |-> FALSE])

-----------------------------------------------------------------------------
(* Reading.  The reader is [st, b, v, o]: as the writer, with the bits that *)
(* are left and the fields read so far.                                     *)

RECURSIVE ReadAll(_, _)
RECURSIVE ReadAny(_, _)
RECURSIVE ReadList(_, _, _, _)
RECURSIVE ReadBlocks(_, _)

\* A struct's own from_bitbuf: some end with the validation of what was read, x.
Validated(L, n, r, x, fields) ==
    IF x.st # "ok" THEN [r EXCEPT !.st = x.st]
    ELSE IF L.checks /\ ~Holds(L.v, fields) THEN [r EXCEPT !.st = "err"]
    ELSE [Keep(r, n, fields) EXCEPT !.b = x.b]
FieldsRead(L, n, r, x) ==
    Validated(L, n, r, x, [f \in DOMAIN x.v \cap DOMAIN L.s |-> x.v[f]])
ReadSub(L, n, r) ==
    FieldsRead(L, n, r, ReadAll(L.r, [r EXCEPT !.v = Nothing, !.o = FALSE]))
Listed(n, r, x) ==
    IF x.st # "ok" THEN [r EXCEPT !.st = x.st]
    ELSE [Keep(r, n, Append(r.v[n], x.v[n])) EXCEPT !.b = x.b]
ReadList(L, n, k, r) ==
    IF k = 0 \/ r.st # "ok" THEN r
    ELSE ReadList(L, n, k - 1, Listed(n, r, ReadSub(L, n, [r EXCEPT !.v = Nothing])))

ReadBlocks(e, r) ==
    IF r.st # "ok" THEN r
    ELSE IF r.v[e.n] # <<>> /\ Len(r.b) < e.min
    THEN IF \E i \in DOMAIN r.b : r.b[i] = 1 THEN [r EXCEPT !.st = "err"]
         ELSE [r EXCEPT !.b = <<>>]
    ELSE ReadBlocks(e, ReadList(e.l, e.n, 1, r))

ReadNumber(e, r, S) ==
    IF Short(r, e.w) THEN [r EXCEPT !.st = "err"]
    ELSE LET x == Peek(r, e.w)
         IN IF x \notin S THEN [r EXCEPT !.st = "err"] ELSE Skip(Keep(r, e.n, x), e.w)

\* A code of one bit or more in front of the elements it announces.
ReadIf(es, r) ==
    IF Short(r, 1) THEN [r EXCEPT !.st = "err"]
    ELSE IF Peek(r, 1) = 1 THEN ReadAll(es, Skip(r, 1)) ELSE Skip(r, 1)

\* peek_type34_mbit_and_id: is the element with this identifier next?
Announced(r, id) == /\ Peek(r, 1) = 1
                    /\ ToNumber(SubSeq(r.b, 2, 5)) = id
CannotPeek(r) == Short(r, 1) \/ (Peek(r, 1) = 1 /\ Short(r, 5))
\* The 11-bit length behind the m-bit and the identifier.
ElementLen(r) == ToNumber(SubSeq(r.b, 6, 16))

\* The payload of an element of which at most max bits are kept; the rest is
\* skipped with seek_rel, which asserts that it is there.
Payload(e, r, header, len, max, x) ==
    LET kept == IF len > max THEN max ELSE len
    IN IF Short(r, header + kept) THEN [r EXCEPT !.st = "err"]
       ELSE IF Short(r, header + len) THEN [r EXCEPT !.st = "panic"]
       ELSE Skip(Keep(r, e.n, x @@ [len |-> len,
                                    data |-> SubSeq(r.b, header + 1, header + kept)]),
                 header + len)

\* parse_type3_generic.
ReadType3(e, r) ==
    IF ~r.o THEN r
    ELSE IF CannotPeek(r) THEN [r EXCEPT !.st = "err"]
    ELSE IF ~Announced(r, e.id) THEN r
    ELSE IF Short(r, 16) THEN [r EXCEPT !.st = "err"]
    ELSE Payload(e, r, 16, ElementLen(r), 128, Nothing)

\* The struct x has to end where the length says.
EndsAt(x, left) ==
    IF x.st = "ok" /\ Len(x.b) # left THEN [x EXCEPT !.st = "err"] ELSE x

\* parse_type3_struct.
ReadType3Sub(e, r) ==
    IF ~r.o THEN r
    ELSE IF CannotPeek(r) THEN [r EXCEPT !.st = "err"]
    ELSE IF ~Announced(r, e.id) THEN r
    ELSE IF Short(r, 16) THEN [r EXCEPT !.st = "err"]
    ELSE EndsAt(ReadSub(e.l, e.n, Skip(r, 16)), Len(r.b) - 16 - ElementLen(r))

\* parse_type4_header and parse_type4_generic.
ReadType4(e, r) ==
    IF ~r.o THEN r
    ELSE IF CannotPeek(r) THEN [r EXCEPT !.st = "err"]
    ELSE IF ~Announced(r, e.id) THEN r
    ELSE IF Short(r, 22) THEN [r EXCEPT !.st = "err"]
    ELSE LET len == ElementLen(r) - 6
             count == ToNumber(SubSeq(r.b, 17, 22))
         IN IF len < 0 \/ count = 0 THEN [r EXCEPT !.st = "err"]
            ELSE Payload(e, r, 22, len, 64, [elems |-> count])

\* parse_type4_header and parse_type4_struct.
ReadType4Sub(e, r) ==
    IF ~r.o THEN r
    ELSE IF CannotPeek(r) THEN [r EXCEPT !.st = "err"]
    ELSE IF ~Announced(r, e.id) THEN r
    ELSE IF Short(r, 22) THEN [r EXCEPT !.st = "err"]
    ELSE LET len == ElementLen(r) - 6
             count == ToNumber(SubSeq(r.b, 17, 22))
         IN IF len < 0 \/ count = 0 THEN [r EXCEPT !.st = "err"]
            ELSE EndsAt(ReadList(e.l, e.n, count, Keep(Skip(r, 22), e.n, <<>>)),
                        Len(r.b) - 22 - len)

\* read_bits(get_len_remaining()): more than 64 bits cannot be read at once.
ReadRest(e, r) ==
    LET k == Len(r.b) - e.less
    IN IF k = 0 /\ e.less = 0 THEN r
       ELSE IF k \notin 1..64 THEN [r EXCEPT !.st = "err"]
       ELSE Skip(Keep(r, e.n, [len |-> k, data |-> SubSeq(r.b, 1, k)]), k)

\* parse_d_attach_detach_group_identity_options: an element that is there twice
\* is refused, one that is not known is skipped.
AnyRead(e, r, el, x) ==
    IF Has(r.v, el.n) \/ x.st # "ok" THEN [r EXCEPT !.st = "err"] ELSE ReadAny(e, x)
ReadAny(e, r) ==
    IF ~r.o \/ r.st # "ok" THEN r
    ELSE IF Short(r, 1) THEN [r EXCEPT !.st = "err"]
    ELSE IF Peek(r, 1) = 0 THEN Skip(r, 1)
    ELSE IF Short(r, 16) THEN [r EXCEPT !.st = "err"]
    ELSE LET hit == {i \in DOMAIN e.es : Announced(r, e.es[i].id)}
             el == e.es[CHOOSE i \in hit : TRUE]
         IN IF hit = {} THEN ReadAny(e, Skip(r, 16 + ElementLen(r)))
            ELSE AnyRead(e, r, el, ReadAll(<<el>>, r))

ReadOne(e, r) ==
    CASE e.k = "fixed" ->
            IF Short(r, e.w) \/ Peek(r, e.w) # e.c THEN [r EXCEPT !.st = "err"]
            ELSE Skip(r, e.w)
      [] e.k = "told" -> Skip(r, e.w)
      [] e.k = "slack" -> IF Short(r, e.w) THEN [r EXCEPT !.b = <<>>] ELSE Skip(r, e.w)
      [] e.k = "shifted" -> IF Short(r, e.w) THEN [r EXCEPT !.st = "err"]
                            ELSE Skip(Keep(r, e.n, Peek(r, e.w) + e.d), e.w)
      [] e.k = "implied" -> Keep(r, e.n, e.x)
      [] e.k = "copied" -> Keep(r, e.n, r.v[e.m])
      [] e.k = "differ" -> ReadNumber(e, r, {0, 1})
      [] e.k = "coded" ->
            IF Short(r, e.w) THEN [r EXCEPT !.st = "err"]
            ELSE Skip(Keep(r, e.n, IF Peek(r, e.w) = e.c THEN 1 ELSE 0), e.w)
      [] e.k = "body" -> [Keep(r, e.n, r.b) EXCEPT !.b = <<>>]
      [] e.k = "split" ->
            IF Short(r, e.w) THEN [r EXCEPT !.st = "err"]
            ELSE LET x == Peek(r, e.w)
                 IN IF x \in e.s THEN Skip(Keep(r, e.n, x), e.w)
                    ELSE IF x >= e.d THEN Skip(Keep(r, e.m, x - e.d), e.w)
                    ELSE [r EXCEPT !.st = "err"]
      [] e.k = "field" -> ReadNumber(e, r, 0..(2^e.w - 1))
      [] e.k = "code" -> ReadNumber(e, r, e.s)
      [] e.k = "select" -> ReadNumber(e, r, {e.codes[i][2] : i \in DOMAIN e.codes})
      [] e.k = "raw" -> IF Short(r, e.w) THEN [r EXCEPT !.st = "err"]
                        ELSE Skip(Keep(r, e.n, SubSeq(r.b, 1, e.w)), e.w)
      [] e.k = "rawby" ->
            LET k == r.v[e.c] - 1
            IN IF Short(r, k) THEN [r EXCEPT !.st = "err"]
               ELSE Skip(Keep(r, e.n, SubSeq(r.b, 1, k)), k)
      [] e.k = "rest" -> ReadRest(e, r)
      [] e.k = "counted" ->
            IF Short(r, e.w) \/ Peek(r, e.w) \notin e.lens \/ Short(r, e.w + Peek(r, e.w))
            THEN [r EXCEPT !.st = "err"]
            ELSE LET n == Peek(r, e.w)
                 IN Skip(Keep(r, e.n, [len |-> n, bits |-> SubSeq(r.b, e.w + 1, e.w + n)]),
                         e.w + n)
      [] e.k = "sub" -> ReadSub(e.l, e.n, r)
      [] e.k = "when" -> IF Has(r.v, e.n) /\ r.v[e.n] \in e.s THEN ReadAll(e.es, r) ELSE r
      [] e.k = "switch" ->
            IF Has(r.v, e.n) /\ r.v[e.n] \in DOMAIN e.f THEN ReadAll(e.f[r.v[e.n]], r) ELSE r
      [] e.k = "flagged" -> ReadIf(e.es, r)
      [] e.k = "obit" -> IF Short(r, 1) THEN [r EXCEPT !.st = "err"]
                         ELSE [Skip(r, 1) EXCEPT !.o = (Peek(r, 1) = 1)]
      [] e.k = "opt" -> IF r.o THEN ReadIf(e.es, r) ELSE r
      [] e.k = "type3" -> ReadType3(e, r)
      [] e.k = "type3sub" -> ReadType3Sub(e, r)
      [] e.k = "type4" -> ReadType4(e, r)
      [] e.k = "type4sub" -> ReadType4Sub(e, r)
      [] e.k = "anyorder" -> ReadAny(e, r)
      [] e.k = "repeat" ->
            ReadList(e.l, e.n, IF Has(r.v, e.c) THEN r.v[e.c] ELSE 0, Keep(r, e.n, <<>>))
      [] e.k = "blocks" -> ReadBlocks(e, Keep(r, e.n, <<>>))
      [] e.k = "if" -> ReadAll(IF Holds(e.rules, r.v) THEN e.es ELSE e.other, r)
      [] e.k = "end" -> IF (r.o \/ ~e.o) /\ r.b # <<>> THEN [r EXCEPT !.st = "err"] ELSE r
      [] e.k = "trailing" ->
            IF ~r.o THEN r
            ELSE IF Short(r, 1) \/ Peek(r, 1) # 0 THEN [r EXCEPT !.st = "err"]
            ELSE Skip(r, 1)
      [] e.k = "must" -> IF Demand(e.q, r.v) THEN r ELSE [r EXCEPT !.st = "err"]

ReadAll(es, r) ==
    IF es = <<>> \/ r.st # "ok" THEN r
    ELSE ReadAll(Tail(es), ReadOne(Head(es), r))

\* from_bitbuf of the PDU with layout L: [st, the PDU, the bits left over].
Parsed(r) ==
    [st |-> r.st, b |-> r.b, pdu |-> IF r.st = "ok" THEN r.v["pdu"] ELSE Nothing]
FromBitbuf(L, bits) ==
    Parsed(ReadSub(L, "pdu", [st |-> "ok", b |-> bits, v |-> Nothing, o |-> FALSE]))

-----------------------------------------------------------------------------
(* A PDU or a nested struct: its fields s, what its reader r and its writer *)
(* w do, what its validation v demands and whether the reader ends with it, *)
(* and the combinations of optional fields that belong together.            *)

Pdu(s, r, w, v) ==
    [s |-> s, r |-> r, w |-> w, v |-> v, checks |-> FALSE, base |-> <<{}>>, sum |-> FALSE,
     more |-> {}, only |-> FALSE]
Checked(L) == [L EXCEPT !.checks = TRUE]
With(L, vs) == [L EXCEPT !.more = vs]      \* values worth trying as well
Only(L, vs) == [L EXCEPT !.more = vs, !.only = TRUE]   \* the values that are built
Based(L, base) == [L EXCEPT !.base = base]
Variant(L, base) == [L EXCEPT !.base = base, !.sum = TRUE]  \* a Rust enum with data

(* The types of the fields, and from each the values that are tried.        *)
U(w) == [t |-> "int", w |-> w]             \* an unsigned integer of w bits
Trusted(w) == [t |-> "wide", w |-> w]      \* written to w bits without a check
Bool == [t |-> "enum", s |-> {0, 1}]
Enum(S) == [t |-> "enum", s |-> S]
Bits(w) == [t |-> "bits", w |-> w]
Block(lens) == [t |-> "block", lens |-> lens]
Struct(L) == [t |-> "struct", l |-> L]
List(L) == [t |-> "list", l |-> L]
T3 == [t |-> "element", odd |-> FALSE]     \* a Type3FieldGeneric, not checked
T3any == [t |-> "element", odd |-> TRUE]   \* one whose length the writer checks
T4any == [t |-> "elements"]                \* one element or more
Tail64 == [t |-> "tail"]                   \* up to 64 bits, and their number
Option(t) == [t |-> "option", of |-> t]

RECURSIVE Typical(_)
RECURSIVE Samples(_)
Bare(t) == IF t.t = "option" THEN t.of ELSE t
Optional(s) == {n \in DOMAIN s : s[n].t = "option"}
BitsOf(k, bit) == [i \in 1..k |-> IF i = 1 THEN bit ELSE i % 2]
\* A value of the struct with the given optional fields, nothing unusual.
Plain(s, present) ==
    [n \in (DOMAIN s \ Optional(s)) \cup present |-> Typical(Bare(s[n]))]
Typical(t) ==
    CASE t.t \in {"int", "wide"} -> 1
      [] t.t = "enum" -> IF 1 \in t.s THEN 1 ELSE CHOOSE x \in t.s : TRUE
      [] t.t = "bits" -> BitsOf(t.w, 1)
      [] t.t = "block" -> [len |-> 9, bits |-> BitsOf(9, 1)]
      [] t.t = "struct" -> Plain(t.l.s, t.l.base[1])
      [] t.t = "list" -> <<Plain(t.l.s, t.l.base[1])>>
      [] t.t \in {"element", "tail"} -> [len |-> 3, data |-> <<1, 0, 1>>]
      [] t.t = "elements" -> [len |-> 3, elems |-> 1, data |-> <<1, 0, 1>>]
\* The same with one field of ns changed.
Vary(s, present, ns) ==
    LET p == Plain(s, present)
    IN UNION {{[p EXCEPT ![n] = x] : x \in Samples(Bare(s[n]))} : n \in ns}
\* On top of each combination of optional fields that belong together: none or
\* all of the others, with each field changed in turn, or one more; and any two.
Bases(L) == {L.base[i] : i \in DOMAIN L.base}
Free(L) == Optional(L.s) \ UNION Bases(L)
\* An element as long as two reads of the buffer can take, alone or among empty ones.
Longest == [len |-> 128, data |-> BitsOf(128, 1)]
Empty == [len |-> 0, data |-> <<>>]
Long(L) ==
    LET elements == {x \in Optional(L.s) : L.s[x].of.t = "element"}
        others == {x \in elements : ~L.s[x].of.odd}
    IN {[[x \in ns |-> Empty] @@ Plain(L.s, B \cup {n}) EXCEPT ![n] = Longest]
           : B \in Bases(L), ns \in {{}, others}, n \in elements}
\* v with one of its fields, or one of a nested struct, too large for its width.
RECURSIVE Overfull(_, _)
Overfull(s, v) ==
    UNION {LET t == Bare(s[n])
           IN CASE t.t = "wide" -> {[v EXCEPT ![n] = 2^t.w]}
                [] t.t = "struct" -> {[v EXCEPT ![n] = x] : x \in Overfull(t.l.s, v[n])}
                [] OTHER -> {}
             : n \in DOMAIN v}
Usual(L) ==
    IF L.only THEN L.more
    ELSE Long(L) \cup {Plain(L.s, B \cup P) : B \in Bases(L), P \in {{}, Free(L)} \cup {{x} : x \in Free(L)}}
    \cup (IF L.sum THEN {}
          ELSE {Plain(L.s, {x, y}) : x \in Optional(L.s), y \in Optional(L.s)})
Unusual(L) ==
    LET always == DOMAIN L.s \ Optional(L.s)
    IN IF L.only THEN UNION {Overfull(L.s, v) : v \in L.more}
       ELSE UNION {Vary(L.s, B, always \cup B) \cup Vary(L.s, B \cup Free(L), always \cup Free(L))
              : B \in Bases(L)}
       \cup L.more
       \cup UNION {Vary(L.s, B \cup {x}, {x}) : B \in Bases(L), x \in Free(L)}
Values(L) == Usual(L) \cup Unusual(L)
\* A field that is too large for its width, or an element for its length or for
\* the 128 bits that can be written, where nothing checks it before.
RECURSIVE Misfits(_, _)
Misfits(s, v) ==
    \E n \in DOMAIN v :
       LET t == Bare(s[n])
       IN \/ t.t = "wide" /\ v[n] >= 2^t.w
          \/ t.t = "element" /\ (v[n].len > 128 \/ Len(v[n].data) > v[n].len)
          \/ t.t = "struct" /\ Misfits(t.l.s, v[n])
          \/ t.t = "list" /\ \E i \in DOMAIN v[n] : Misfits(t.l.s, v[n][i])
Samples(t) ==
    CASE t.t = "int" -> {0} \cup {2^k : k \in 0..(IF t.w > 30 THEN 30 ELSE t.w - 1)}
      [] t.t = "wide" -> {0} \cup {2^k : k \in 0..t.w}
      [] t.t = "enum" -> t.s
      [] t.t = "bits" -> {BitsOf(t.w, 0)}
      [] t.t = "block" -> {[len |-> n, bits |-> BitsOf(n, 1)] : n \in t.lens}
                          \cup {[len |-> 16, bits |-> BitsOf(15, 1)]}
      [] t.t = "struct" -> Values(t.l)
      [] t.t = "list" -> {<<>>} \cup {<<x, Plain(t.l.s, t.l.base[1])>> : x \in Values(t.l)}
      [] t.t = "element" ->
            {[len |-> k, data |-> BitsOf(k, 0)] : k \in {1, 24}} \cup
            {[len |-> 3, data |-> BitsOf(4, 1)], [len |-> 129, data |-> BitsOf(128, 1)]} \cup
            (IF t.odd THEN {[len |-> 0, data |-> <<>>]} ELSE {})
      [] t.t = "tail" ->
            {[len |-> k, data |-> BitsOf(k, 0)] : k \in {1, 64, 65}} \cup
            {[len |-> 3, data |-> BitsOf(4, 1)]}
      [] t.t = "elements" ->
            {[len |-> 3, elems |-> k, data |-> BitsOf(3, 1)] : k \in {63, 64}} \cup
            {[len |-> 0, elems |-> 1, data |-> <<>>],
             [len |-> 65, elems |-> 2, data |-> BitsOf(64, 1)],
             [len |-> 3, elems |-> 2, data |-> BitsOf(4, 1)]}
=============================================================================

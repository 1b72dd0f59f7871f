---------------------------- MODULE PduExchange -----------------------------
(***************************************************************************)
(* A PDU on its way from one layer to its peer: it is built from a struct,  *)
(* serialised (to_bitbuf), carried, possibly damaged or cut short on the    *)
(* way, parsed (from_bitbuf) and, as the forwarding entities do with what   *)
(* they receive, serialised again.                                          *)
(***************************************************************************)
EXTENDS PduCodec

Cmce == INSTANCE CmceCodec
Mm == INSTANCE MmCodec
Link == INSTANCE LinkCodec
Umac == INSTANCE UmacCodec
Sndcp == INSTANCE SndcpCodec

\* The PDUs: name -> layout.
Codecs ==
    Cmce!CmcePdus @@ Mm!MmPdus @@ Link!MlePdus @@ Link!LlcPdus @@ Umac!UmacPdus
    @@ Sndcp!SndcpPdus
\* Whether a reader meets an element of which only the start is kept.
RECURSIVE SkipsIn(_)
SkipsIn(es) ==
    \E i \in DOMAIN es :
       LET e == es[i]
       IN \/ e.k \in {"type3", "type4"}
          \/ e.k \in {"if", "when", "some", "flagged", "opt", "anyorder"} /\ SkipsIn(e.es)
          \/ e.k = "if" /\ SkipsIn(e.other)
          \/ e.k = "switch" /\ \E x \in DOMAIN e.f : SkipsIn(e.f[x])
          \/ e.k \in {"sub", "type3sub", "type4sub", "repeat", "blocks"} /\ SkipsIn(e.l.r)
Skips == {name \in DOMAIN Codecs : SkipsIn(Codecs[name].r)}
\* Those with an SDU, or a last bit that is not missed, or zeros at the end.
OpenEnded ==
    {"UMmStatus", "MmPduFunctionNotSupported", "DNewCell", "DPrepareFail", "DRestoreAck",
     "UChannelClassAdvice", "UPrepare", "URestore", "AlAck", "MacData",
     "SnUnitdata", "SnData"}
\* What of a struct the PDU carries.
Carried(name, v) == IF name \in DOMAIN Umac!UmacPdus THEN Umac!UmacCarried(name, v) ELSE v
\* Those whose sender computes the length of their header, and the result.
Sized == {"MacResource", "MacEndDl"} \cup DOMAIN Sndcp!SndcpPdus
HeaderLen(name, v) ==
    IF name \in DOMAIN Sndcp!SndcpPdus THEN Sndcp!SndcpBufferLen(name, v)
    ELSE Umac!UmacHeaderLen(name, v)

VARIABLES
    pdu,         \* the name of the PDU under way
    phase,       \* "idle", "sent", "received"
    value,       \* the struct
    sent,        \* what to_bitbuf returned: [st, b, o]
    air,         \* the bits that arrive
    fault,       \* "none", "damaged" or "cut"; "never" for an unusual value
    got,         \* what from_bitbuf returned: [st, b, pdu]
    again        \* to_bitbuf of what was parsed

vars == <<pdu, phase, value, sent, air, fault, got, again>>

Unused == [st |-> "none"]
L == Codecs[pdu]

Init ==
    /\ pdu \in DOMAIN Codecs
    /\ phase = "idle"
    /\ value = Nothing
    /\ sent = Unused
    /\ air = <<>>
    /\ fault = "none"
    /\ got = Unused
    /\ again = Unused

\* A layer fills in the struct and serialises it.
Send(v, risk) ==
    /\ phase' = "sent"
    /\ value' = v
    /\ sent' = ToBitbuf(L, v)
    /\ air' = sent'.b
    /\ fault' = risk
    /\ UNCHANGED <<pdu, got, again>>

\* One bit arrives wrong although the checksum passed.
Damage(i) ==
    /\ phase = "sent" /\ fault = "none" /\ sent.st = "ok"
    /\ fault' = "damaged"
    /\ air' = [air EXCEPT ![i] = 1 - @]
    /\ UNCHANGED <<pdu, phase, value, sent, got, again>>

\* The last bits are missing.
Cut(k) ==
    /\ phase = "sent" /\ fault = "none" /\ sent.st = "ok"
    /\ fault' = "cut"
    /\ air' = SubSeq(air, 1, k)
    /\ UNCHANGED <<pdu, phase, value, sent, got, again>>

\* The peer parses what arrived, and passes it on.
Receive ==
    /\ phase = "sent" /\ sent.st = "ok"
    /\ phase' = "received"
    /\ got' = FromBitbuf(L, air)
    /\ again' = IF got'.st = "ok" THEN ToBitbuf(L, got'.pdu) ELSE Unused
    /\ UNCHANGED <<pdu, value, sent, air, fault>>

Next ==
    \/ phase = "idle" /\ \E v \in Usual(L) : Send(v, "none")
    \/ phase = "idle" /\ \E v \in Unusual(L) : Send(v, "never")
    \/ \E i \in DOMAIN air : Damage(i)
    \/ \E k \in 0..(Len(air) - 1) : Cut(k)
    \/ Receive

Spec == Init /\ [][Next]_vars
-----------------------------------------------------------------------------
Status == {"none", "ok", "err", "panic"}
TypeOK ==
    /\ phase \in {"idle", "sent", "received"}
    /\ fault \in {"none", "never", "damaged", "cut"}
    /\ sent.st \in Status /\ got.st \in Status /\ again.st \in Status
    /\ \A i \in DOMAIN air : air[i] \in {0, 1}

\* What one layer serialises its peer reads as the same PDU, to the last bit,
\* and would itself serialise in the same way.
RoundTrip ==
    phase = "received" /\ fault \in {"none", "never"} =>
        /\ got.st = "ok"
        /\ got.pdu = Carried(pdu, value)
        /\ got.b = <<>>
        /\ again = ToBitbuf(L, Carried(pdu, value))
        /\ again.st = "ok"

\* The header is as long as its sender computed: the SDU behind it, and how
\* much of it fits, are placed by that length.
LengthTold ==
    phase = "sent" /\ sent.st = "ok" /\ pdu \in Sized =>
        Len(sent.b) = HeaderLen(pdu, value)

\* A struct is serialised or refused; an assertion of the bit buffer fails only
\* on a field or an element that to_bitbuf writes without a check and that is
\* too large, in the struct or in what was read.  What arrives is read or
\* refused, with one exception: the damaged length of an element of which only
\* the first 64 or 128 bits are kept.  The reader skips the others with
\* seek_rel, which asserts that they are there.
NoAssertion ==
    /\ sent.st = "panic" => Misfits(L.s, value)
    /\ again.st = "panic" => Misfits(L.s, got.pdu)
    /\ got.st = "panic" => fault = "damaged" /\ pdu \in Skips

\* A PDU whose end is missing is refused, unless a field takes what is left.
CutRefused ==
    phase = "received" /\ fault = "cut" /\ pdu \notin OpenEnded => got.st = "err"

\* Whatever is read out of damaged bits is passed on unchanged or refused.
PassedOn ==
    phase = "received" /\ again.st = "ok" =>
        LET third == FromBitbuf(L, again.b)
        IN third.st = "ok" /\ third.pdu = got.pdu

\* Neither filling in a PDU nor damage to it on the air leads the codecs astray.
CodecSafe ==
    /\ TypeOK
    /\ LengthTold
    /\ NoAssertion
    /\ CutRefused
    /\ PassedOn
=============================================================================

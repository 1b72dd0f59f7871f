-------------------------- MODULE MCAdvancedLink --------------------------
(* Instances of AdvancedLink for TLC. *)
EXTENDS AdvancedLink, TLC

CONSTANTS sa, sb, sc, se, sx, sl

SixSdus == {sa, sb, sc, se, sx, sl}
Prios == [m \in SixSdus |-> IF m = se THEN 1 ELSE 0]
Sizes == [m \in SixSdus |-> CASE m = sa -> 3 [] m = sb -> 2 [] m = sx -> 0 [] OTHER -> 1]

Load(sends, ups, setups, losses) == [send |-> sends, up |-> ups, setup |-> setups, loss |-> losses]
\* Three segments; a queue; an urgent TL-SDU; one that cannot be cut, one that is too
\* long; the link set up again or replaced; uplink, alone and with downlink.
Mixed == {Load({sa}, 0, 1, 2), Load({sb, sc}, 0, 1, 1), Load({sb, se}, 0, 1, 0),
          Load({sc, sx}, 0, 1, None), Load({sc, sl}, 0, 1, None), Load({sb}, 0, 1, None), Load({sc}, 0, 2, None), Load({sb, sc}, 0, 2, 0), Load({}, 3, 1, None), Load({sc}, 1, 1, 1)}
=============================================================================

---------------------------- MODULE MCBasicLink ----------------------------
(* Instances of BasicLink for TLC. *)
EXTENDS BasicLink, TLC

CONSTANTS sa, sb, sc, se, sl, su, sv, sw

FiveSdus == {sa, sb, sc, se, sl}
ThreeUnits == {su, sv, sw}
Prios == [m \in FiveSdus \cup ThreeUnits |-> CASE m = se -> Highest [] m = sw -> 1 [] OTHER -> 0]

Load(sends, ups) == [send |-> sends, up |-> ups]
\* In turn; answers on a link that also receives; an emergency ahead of what is
\* at the UMAC; a backlog of unacknowledged messages; a message too long.
Mixed == {Load({sa, sb, sc}, 0), Load({sa, sb}, 1), Load({sa}, 3), Load({sa, sc, se}, 0), Load({sa, su, se}, 0),
          Load({su, sv, sw}, 0), Load({sa, sl}, 0), Load({sb, sv}, 1)}
=============================================================================

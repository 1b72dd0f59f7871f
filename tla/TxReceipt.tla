------------------------------ MODULE TxReceipt ------------------------------
(***************************************************************************)
(* What a transmit receipt promises its owner (tetra-core tx_receipt.rs):  *)
(* a message that was handed down is first pending, and ends discarded     *)
(* (never sent), lost (sent, never acknowledged) or acknowledged.  The     *)
(* link layer's acknowledged transfers implement this specification; the   *)
(* receipts of the layers above (connect-acknowledge and release guards of *)
(* CMCE, transfers of SNDCP) are read under it.                            *)
(***************************************************************************)
CONSTANT Receipts

VARIABLE receipt

Final == {"Discarded", "Lost", "Acknowledged"}
TxState == Final \cup {"Pending", "Transmitted"}

TypeOK == receipt \in [Receipts -> TxState \cup {"Unused"}]
Init == receipt = [r \in Receipts |-> "Unused"]

Step(r, from, to) == receipt[r] = from /\ receipt' = [receipt EXCEPT ![r] = to]

New(r) == Step(r, "Unused", "Pending")
MarkTransmitted(r) == Step(r, "Pending", "Transmitted")
MarkDiscarded(r) == Step(r, "Pending", "Discarded")
MarkAcknowledged(r) == Step(r, "Transmitted", "Acknowledged")
MarkLost(r) == Step(r, "Transmitted", "Lost")

\* A layer that learns of the end of a transfer before it learns of the
\* transmission marks both within one handler, and one that refuses a message
\* marks the receipt it was handed with it.
MarkBoth(r) == \E end \in {"Acknowledged", "Lost"} : Step(r, "Pending", end)
Refuse(r) == Step(r, "Unused", "Discarded")

Next == \E r \in Receipts : \/ New(r) \/ MarkTransmitted(r) \/ MarkDiscarded(r)
                            \/ MarkAcknowledged(r) \/ MarkLost(r)
                            \/ MarkBoth(r) \/ Refuse(r)

\* Every receipt in use reaches a final state, which it keeps: again and again none
\* is open.
Settles == []<>(\A r \in Receipts : receipt[r] \in Final \cup {"Unused"})

\* The states in their order.
Order == Init /\ [][Next]_receipt

Spec == Order /\ Settles
=============================================================================

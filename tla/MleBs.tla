------------------------------- MODULE MleBs -------------------------------
(***************************************************************************)
(* The MLE of the base station (mle/mle_bs.rs): it passes the SDUs of MM,  *)
(* CMCE and SNDCP to the LLC under handles of its own, keeps who asked     *)
(* under which handle, and gives each report back to the one who asked.    *)
(* Its own broadcasts are tracked alike and their reports end here.        *)
(*                                                                         *)
(* m.next is next_tla_handle and m.pend pending_data_transfers.  No entity *)
(* uses the acknowledged-response service, and MM no unacknowledged one,   *)
(* so every request is tracked.                                            *)
(***************************************************************************)
EXTENDS Lists, Integers

CONSTANT MaxTlaHandle   \* i32::MAX

ASSUME MleAssumption == MaxTlaHandle \in Nat \ {0}

Users == {"Mm", "Cmce", "Sndcp", "Broadcast"}

NewMle == [next |-> 1, pend |-> [h \in {} |-> h]]
Free(m) == Cardinality(DOMAIN m.pend) < MaxTlaHandle

After(h) == IF h = MaxTlaHandle THEN 1 ELSE h + 1
Nth(h, n) == IF h + n <= MaxTlaHandle THEN h + n ELSE h + n - MaxTlaHandle

\* allocate_tla_handle: the next that no pending transfer has.
AllocateTlaHandle(m) ==
    Nth(m.next, Min({n \in 0 .. MaxTlaHandle - 1 : Nth(m.next, n) \notin DOMAIN m.pend}))

\* track_tla_data_request; h is the handle of the request to the LLC.
TrackTlaDataRequest(m, user, upper) ==
    LET h == AllocateTlaHandle(m)
    IN  [h |-> h, m |-> [next |-> After(h),
                         pend |-> Insert(m.pend, h, [user |-> user, upper |-> upper])]]

\* rx_lmm_mle_unitdata_req, rx_ltpd_mle_unitdata_req, rx_lcmc_mle_unitdata_req: the
\* SDU goes down behind its discriminator, acknowledged or not.
LmmMleUnitdataReq(m, upper) == TrackTlaDataRequest(m, "Mm", upper)
LtpdMleUnitdataReq(m, upper) == TrackTlaDataRequest(m, "Sndcp", upper)
LcmcMleUnitdataReq(m, upper) == TrackTlaDataRequest(m, "Cmce", upper)
\* tick_start: D-NWRK-BROADCAST, for which nobody waits.
SendBroadcast(m) == TrackTlaDataRequest(m, "Broadcast", 0)

\* push_mle_report
PushMleReport(p, result) ==
    IF p.user = "Broadcast" THEN <<>>
    ELSE <<[to |-> p.user, kind |-> "Report", handle |-> p.upper, result |-> result]>>

\* rx_tla_report_ind, and rx_tla_data_conf_bl for an outcome: only SNDCP hears of
\* the first transmission, and an outcome ends the transfer.
RxTlaReportInd(m, h, result) ==
    IF h \notin DOMAIN m.pend \/ result = "NoSpecific"
       \/ (result = "FirstComplete" /\ m.pend[h].user # "Sndcp")
    THEN [m |-> m, out |-> <<>>]
    ELSE [m |-> IF result = "FirstComplete" THEN m
                ELSE [m EXCEPT !.pend = Restrict(@, DOMAIN @ \ {h})],
          out |-> PushMleReport(m.pend[h], result)]

\* route_prefixed_tl_sdu
RoutePrefixedTlSdu(user, i, pdu, link) ==
    IF user = "Sndcp" THEN <<[to |-> user, kind |-> "Unitdata", from |-> i, pdu |-> pdu, link |-> link]>>
    ELSE IF user \in Users THEN <<[to |-> user, kind |-> "Unitdata", from |-> i]>> ELSE <<>>
=============================================================================

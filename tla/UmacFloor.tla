------------------------------ MODULE UmacFloor ------------------------------
(***************************************************************************)
(* The UMAC's view of a group call's bearer (umac/umac_bs.rs): the traffic *)
(* circuit, the uplink speaker, hangtime, where the downlink speech comes  *)
(* from, and the timer that notices a speaker who went silent.  The UMAC   *)
(* learns of the floor only through the messages GroupCall sends it.       *)
(***************************************************************************)
EXTENDS GroupCall

VARIABLE umac

UmacBearer == [open : BOOLEAN,                \* circuit_is_active
               speaker : Issis \cup {None},   \* current_ul_speaker
               hang : BOOLEAN,                \* is_hangtime
               media : Media,                 \* dl_media_source
               timer : BOOLEAN]               \* last_ul_voice is set
UmacTypeOK == umac \in [Bearers -> UmacBearer]

Closed == [open |-> FALSE, speaker |-> None, hang |-> FALSE, media |-> LocalLoopback,
           timer |-> FALSE]
UmacInit == umac = [b \in Bearers |-> Closed]

-----------------------------------------------------------------------------
(* What the messages do to a bearer *)

\* rx_control_circuit_open: a circuit that is there is closed first.
OnOpen(s, i) ==
    [open |-> TRUE, speaker |-> i, hang |-> FALSE, timer |-> TRUE,
     media |-> IF i \in Remotes THEN SwMI ELSE LocalLoopback]

\* rx_control_circuit_close.
OnClose(s) == IF s.open THEN Closed ELSE [s EXCEPT !.hang = FALSE]

\* set_circuit_dl_media_source: ignored without a circuit.
OnSetDlMediaSource(s, source) == IF s.open THEN [s EXCEPT !.media = source] ELSE s

\* Fault: a grant does not end hangtime.
OnFloorGrantedHanging(s, i) == [s EXCEPT !.speaker = i, !.timer = TRUE]

OnFloorGranted(s, i) == [s EXCEPT !.speaker = i, !.hang = FALSE, !.timer = TRUE]
OnFloorReleased(s) == [s EXCEPT !.speaker = None, !.hang = TRUE, !.timer = FALSE]
OnCallEnded(s) == [s EXCEPT !.speaker = None, !.hang = FALSE, !.timer = FALSE]

\* rx_control: the bearer after message m.
AfterControl(s, m) ==
    CASE m.type = "Open" -> OnOpen(s, m.arg)
      [] m.type = "Close" -> OnClose(s)
      [] m.type = "SetDlMediaSource" -> OnSetDlMediaSource(s, m.arg)
      [] m.type = "FloorGranted" -> OnFloorGranted(s, m.arg)
      [] m.type = "FloorReleased" -> OnFloorReleased(s)
      [] m.type = "CallEnded" -> OnCallEnded(s)

UmacReceives(m, q) ==
    /\ umac' = [umac EXCEPT ![m.bearer] = AfterControl(@, m)]
    /\ mq' = q

-----------------------------------------------------------------------------
(* Traffic *)

\* rx_tmd_prim: speech on an open bearer, in either direction, restarts the timer.
\* In hangtime the timer is not looked at before the next grant restarts it.
Voice(b) ==
    /\ umac[b].open /\ ~umac[b].hang
    /\ umac' = [umac EXCEPT ![b].timer = TRUE]
    /\ UNCHANGED mq

\* check_ul_inactivity.
CheckUlInactivity(b) ==
    /\ Quiet
    /\ umac[b].open /\ ~umac[b].hang /\ umac[b].timer
    /\ umac' = [umac EXCEPT ![b].timer = FALSE]
    /\ mq' = Append(mq, [to |-> "cmce", type |-> "UlInactivityTimeout", bearer |-> b,
                         arg |-> None])
=============================================================================

-------------------------- MODULE MCIndividualCall --------------------------
(***************************************************************************)
(* Individual calls on two terminals and two traffic timeslots.  Each      *)
(* workload is one family of behaviours: what kind of calls may be made,   *)
(* how many events the users and the network contribute, and how many      *)
(* deliveries fail.                                                        *)
(***************************************************************************)
EXTENDS IndividualCall

CONSTANTS ma, mb

Load(kinds, users, calls, duplex, offer, first, interruption, moves, losses) ==
    [kinds |-> kinds, users |-> users, calls |-> calls, duplex |-> duplex,
     offer |-> offer, first |-> first, interruption |-> interruption,
     moves |-> moves, losses |-> losses]

MCWorkloads ==
    { Load({"local"}, {ma}, 1, FALSE, FALSE, "from", TRUE, 5, 1),
      Load({"local"}, {ma}, 1, TRUE, TRUE, "to", FALSE, 3, 1),
      Load({"local"}, {ma}, 1, TRUE, FALSE, "from", FALSE, 2, 2),
      Load({"local", "in", "echo"}, {ma, mb}, 2, FALSE, FALSE, "from", FALSE, 2, 0),
      Load({"out"}, {ma}, 1, FALSE, FALSE, "from", FALSE, 5, 0),
      Load({"in"}, {ma}, 1, FALSE, FALSE, "to", FALSE, 5, 0),
      Load({"out", "in"}, {ma, mb}, 2, TRUE, FALSE, "from", FALSE, 2, 0),
      Load({"parrot"}, {ma}, 1, FALSE, FALSE, "from", FALSE, 4, 0) }
=============================================================================

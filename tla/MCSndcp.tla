------------------------------ MODULE MCSndcp ------------------------------
(* Packet data on small instances: a behaviour has one of the workloads.   *)
EXTENDS SndcpBs

Activate(n, want) == [k |-> "Activate", nsapi |-> n, want |-> want, ms |-> "A"]
Dynamic == [t |-> "Dynamic"]
Static(a) == [t |-> "Static", a |-> a]
DeactivatePdu(n) == [k |-> "Deactivate", nsapi |-> n]
Ask(n, res) == [k |-> "Request", nsapi |-> n, res |-> res]
End(immediate) == [k |-> "EndOfData", immediate |-> immediate]
Again(n) == [k |-> "Reconnect", nsapi |-> n, res |-> None]
Data(n, src, kind, tid) ==
    [k |-> "Unitdata", nsapi |-> n, src |-> src, kind |-> kind, tid |-> tid]
Phase(ul, dl, full) == [ul |-> ul, dl |-> dl, full |-> full]

Work(n, e, issis, links, events, pdus) ==
    [n |-> n, e |-> e, issis |-> issis, links |-> links, events |-> events,
     pdus |-> pdus, assume |-> FALSE]

\* Two terminals and the calls compete for the channel.
ChannelWork == Work(3, 1, Issis, {0}, {"Calls", "Expiry"}, {Ask(1, None), End(FALSE), Again(1)})
\* Contexts and addresses come and go.
ContextWork ==
    Work(3, 0, Issis, {0}, {},
         {Activate(1, Dynamic), Activate(2, Static(1)), DeactivatePdu(None), Ask(2, None)})
RefusedWork ==
    Work(3, 0, {1}, {0}, {},
         {Activate(1, Dynamic), Activate(2, Static(9)), [Activate(1, Dynamic) EXCEPT !.ms = "D"],
          Activate(2, [t |-> "SecondaryPdpContextsNotSupported"]), DeactivatePdu(1),
          [k |-> "NotSupported"]})
\* One terminal on both links, with losses and recoveries.
LinkWork ==
    Work(3, 1, {1}, {0, 1}, {"Calls", "Deregister", "Setup"},
         {Ask(1, Phase(1, 1, 1)), Ask(1, Phase(1, 2, 2)), End(TRUE), Again(1), Again(None),
          Data(1, 1, "Wtp", 1)})
\* WAP transactions, repeated and refused.
WapWork ==
    Work(4, 1, {1}, {1}, {"Deregister"},
         {Ask(1, None), Data(1, 1, "Wtp", 1), Data(1, 1, "Wtp", 2), Data(1, 2, "Wtp", 1),
          Data(1, 1, "Udp", 1), Data(1, 1, "WtpAck", 1), Data(1, 1, "Bad", 1)})
\* The other users of the MLE, and its broadcasts.
UserWork ==
    Work(2, 2, {1}, {0}, {"Users"}, {Ask(1, None), Data(1, 1, "Udp", 1)})

\* The mode in which the channel is assumed as soon as it is asked for.
AssumeWork ==
    [Work(3, 1, Issis, {0}, {"Calls"}, {Ask(1, None), End(FALSE)}) EXCEPT !.assume = TRUE]

MCWorkloads == {ChannelWork, ContextWork, RefusedWork, LinkWork, WapWork, UserWork, AssumeWork}
MCIssis == {1, 2}
MCNsapis == {1, 2}
MCPool == {1, 2}
=============================================================================

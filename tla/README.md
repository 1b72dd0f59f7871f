# TLA+ models and proofs of Nexus-BS

Nexus-BS is a TETRA base station in Rust. One thread runs all protocol entities:
`MessageRouter` calls each entity's `tick_start`, delivers the messages in one
FIFO queue until it is empty, and calls `tick_end`. Only the Brew worker, which
owns the connection to the TetraPack server, is a thread of its own. The difficulty
is therefore not threads but order: radio PDUs, transmission reports, timers,
subscriber changes, crashes and network events meet in any order, and each entity
acts on what the others said some messages ago.

`PROJECT.json` lists every part of the system, also those that are not modelled, the
source lines behind each definition, and the main hazards with the line where each bites.

## Modules

| Part | Modules | State |
|---|---|---|
| Traffic slots | `Circuits` | the allocator (`owner`), the circuit table, the call tables and the UMAC's circuits, fed by a queue; one packet-data assignment |
| Group calls in CMCE | `GroupCall` | `call[b]`, the call on bearer `b` with its floor queue and all that is pending for it; the local and external subscribers; the router's queue `mq` |
| UMAC and Brew in a group call | `UmacFloor`, `BrewGroup` | what the two make of the floor messages: open circuit, speaker, hangtime; sessions, hanging sessions, forwarders |
| The three together | `FloorSystem` | CMCE, UMAC and Brew joined by the queue |
| Individual calls | `IndividualCall` | calls, delivery guards, tails, releases, bearers, network legs, parrot and echo |
| Mobility | `Mobility`, `SubscriberRegistry` | clients, groups, transactions, restart probes, the cache on disk, the tables of CMCE and Brew that follow |
| Short data | `SdsBs`, `SdsSystem` | messages in each stage, report contexts, receipts, broadcasts |
| Packet data | `SndcpPdp`, `SndcpBs`, `MleBs` | PDP contexts, hand-offs to timeslot 2, WAP transactions, MLE handles |
| LLC | `BasicLink`, `AdvancedLink`, `TxReceipt` | one link each, with the UMAC's requests below and the terminal beyond |
| Upper MAC | `SlotSched`, `BsSched`, `UmacMedia`, `UmacBs` | schedule, queues, fragments, circuits, speech, slot by slot |
| Brew link | `BrewEntity`, `BrewLink` | entity, worker thread, bounded channels, a network that breaks |
| PDUs | `PduCodec`, `CmceCodec`, `MmCodec`, `LinkCodec`, `UmacCodec`, `SndcpCodec`, `PduExchange` | the layout each reader and each writer uses, and one PDU on its way |
| Queues and maps | `Lists` | the operators on sequences and maps of the models that are proved about |
| Proofs | `CircuitsProofs`, `GroupCallProofs`, `FloorSystemSteps`, `FloorSystemProofs`, `BasicLinkSteps`, `BasicLinkProofs`, `SndcpSteps`, `SndcpProofs` | |

An action is one handler run to its end, with every table it changes and every
message it sends; the comment above it names the function. Modules named `MC...` give
constants their values. Operators with a comment that starts with "Fault:" are
deliberate errors that no specification uses: each shows that a property depends on
what the code does.

## Abstractions

PDU contents matter only in the codec modules; elsewhere a message is its type and the
fields that decide something. Telemetry, logging and texts are left out. Time is left
out of the call modules (a timer may fire whenever its condition holds) and is counted
in ticks, with short timers, where an order of timers matters. Reports of the lower
layers may come at any time or never, and a grant may be reported discarded. Terminals,
the server and the air are external: they may do anything the code does not exclude,
within a workload where a run names one.

`GroupCall` is closed by an environment that sends CMCE any message at any time; in
`FloorSystem` the same handlers receive what `UmacFloor` and `BrewGroup` really send. A
kick is CMCE's step followed by the de-affiliation MM sends back; MM's answer is put
into the queue at once, and a new affiliation of the same radio follows it, because MM
reports in order. The server in `BrewGroup` may start a session under any identifier
Brew does not know, also one that Brew has given up without telling it.

## Runs

| Run | Shows |
|---|---|
| circuits | allocator, circuit table, calls and UMAC agree on the slots; packet data is pre-empted last; releases end |
| groupcall | one live call per group, the floor leaves with its speaker, calls have listeners and end |
| floor_system | with the queue empty, the UMAC's bearers are those of the calls (but for a circuit that expired during a release), the speaker is heard, and every active session of Brew is carried by a call, on whose bearer its speech is played; the queue for the floor is fair and the floor goes to members |
| individual_call | bearers, guards and tails belong to one call; everybody is released; the floor is one; set-ups and releases end |
| mobility | MM, registry, CMCE and Brew agree on groups; a crash loses none of a whitelisted terminal; failures are soft; transactions end |
| sds | report contexts are those of reports to come, awaited messages are somewhere and none is sent into a private call; outcomes and live messages get out |
| sndcp | contexts, addresses, transfers and the packet-data channel agree; a request is granted when the slot is free |
| basic_link | stop and wait, and reports that follow the receipt (`LinkConsistent`); an acknowledged message was heard, no uplink message is indicated twice, no answer is unasked for, a repeated unit went out often enough (`AirConsistent`); the acknowledged transfers implement `TxReceipt` |
| advanced_link | one TL-SDU at a time, success means delivery (under the condition the property states), receipts end |
| umac | the scheduler's tables agree, messages are reassembled whole, a group message reaches sleeping members |
| brew_link | no critical command is lost, the server knows every affiliation, speech is in order, the worker ends |
| pdu_exchange | each PDU comes back as it was sent, or is refused; an assertion of a codec fails only on what it writes unchecked |

Each property is a named definition with a comment; several are conjunctions of parts
that are described one by one above them (`LinkConsistent`, `AirConsistent`, `CallsConsistent`,
`TablesAgree`, `SchedulerConsistent`, `PacketDataConsistent`, `MessagesAccounted`,
`SessionConsistent` and others).

### Bounds

* `circuits`: two slots and identifiers up to 4, so that the numbers wrap while calls
  are up; two packet-data terminals.
* `groupcall`: one radio, which may be kicked, one remote with its session, two bearers:
  local and network speakers alternate, and the second bearer lets a call be set up while
  another's release is pending.
* `floor_system`: two radios, of which one may be kicked, two remotes, two bearers, two
  session identifiers, one place in the queue. A behaviour has one of five `Casts`: two
  radios and a remote reach every stage of a hand-over on one bearer, with listeners behind
  Brew and with expiring circuits; two remotes follow each other in one session identifier;
  and two sessions and two bearers let a session take over from one that hangs while the
  bearer of that one is being released. `MaxBacklog = 0`: an entity acts of itself when the queue is empty,
  as after `deliver_all_messages`. All its properties but `SessionsAgree` are proved for all bounds.
* The link modules use counters of 1 or 2 for N.252, N.253, N.273, N.274 and the timers,
  and three sequence numbers on the advanced link: every limit is reached.
* `individual_call`, `mobility`, `sds`, `sndcp`, `brew_link`, `umac`: the events come
  from workloads, each a small set of things that may happen in any order together;
  tables, channels and queues have one to four places, so that they are full. In
  `brew_link` a jitter buffer holds four frames and its target can grow to four, so that it
  overflows, runs empty and adapts.
* `pdu_exchange`: every field at its boundary values, also those beyond its width, every
  combination of neighbouring optional fields, and each element at 128 bits, alone and
  among empty ones.

`Arbitrated = TRUE` in `floor_system` says that the server keeps one session per group.
The server is not part of the repository. Without this assumption `SessionsAgree` fails,
which says what Brew relies on. `SessionsAgree` speaks of active sessions only: see the
hanging sessions under Disagreements.

### Fairness

The router ticks for ever and empties its queue in each tick: ticks, deliveries and the
drains of a tick are weakly fair, some written out as `[]<>~enabled \/ []<>taken`. The
UMAC sends what is queued and reports what is complete. Hangtime is weakly fair because
its timer runs while nobody speaks; the call timer is not, because each grant restarts
it. In `Circuits` the release of a pre-empted assignment is strongly fair, as voice may
take and free slots in between. In `SdsSystem` and `SndcpBs` what the lower layers hold
ends, since the LLC gives up after so many repetitions. In `BrewLink` a connection
attempt succeeds after finitely many failures and the heartbeat finds a broken one.
Nothing is assumed of radios or of the network.

### Refinement

`BasicLink` implements `TxReceipt`: `ImplementsReceipt` is the abstract specification
under the refinement mapping that reads the receipt of a message from the link's reporter.
`TxReceipt!Spec` is `Order`, the moves a receipt may make, and `Settles`, that a pending
receipt reaches a final state. The run checks both; `Order` is also proved. `AdvancedLink` states the same order of states in `ReceiptsServed`.
What is proved of `GroupCall` under an arbitrary environment is proved again of
`FloorSystem`, whose UMAC and Brew are one such environment.

## Proofs

The proofs hold for every value of the constants that satisfies the named assumptions in
`Circuits`, `GroupCall`, `BrewGroup`, `BasicLink`, `SndcpPdp`, `MleBs` and `SndcpBs`: disjoint
kinds of identifiers, `None` apart from them, finite sets of groups and NSAPIs, priorities within
their range, limits and timers that are natural numbers, workloads whose PDUs carry the NSAPIs
there are. They are checked by the TLA+ proof system with its SMT, Zenon and temporal back ends.

**`CircuitsProofs`.** `TypeCorrect`, `AllocatorAgrees`, `CircuitTableAgrees`,
`PreemptedLast`, `IdentifiersStable`, `ReservationHeld` and `BearersStayOpen`. The
inductive invariant joins the type invariant, `SlotsBelongToCalls` and
`CircuitsBelongToCalls`. Neither agreement is inductive alone: that an allocation finds
every usable slot vacant needs the circuit table, and that a circuit belongs to a call
needs the allocator. `AddCall`, `RemoveCall` and `KeepCalls` treat the three ways a step
changes the tables, and one lemma per action reduces to them. `BearersStayOpen` adds what
is on its way: for a slot with a call, the last message about it in the queue is an Open,
or there is none and the UMAC has the bearer open.

**`GroupCallProofs`.** `TypeCorrect`, `OneCall`, `ReleaseAlone`, `QueueFair`, `Listened`,
`MembersOnly` and `LeaversStop`. The inductive invariant `IInv` joins the type invariant
and four state invariants; `QueueWellFormed` and `LiveCallsListened` count a radio as a
member until CMCE has handled the report of its leaving (`Counted`), without which
neither is inductive. The argument is local to a call: `Sound` is what the invariant says
of one call, and `Follows(c, d, S)` what a step may make of it: the group stays, a release
is never taken back, and a new waiter or a new local speaker is in `S`. Each operation on a
call (`Granted`, `Queued`, `EnterHangtime`, `Release` and their compositions) has a lemma
that gives both. `Evolves` lifts them to a step: every call follows its predecessor with the
members of its group for `S`, or is set up with listeners and without a live rival. `Keeps`
says that a step ends nobody's membership, and `Cares` what a departure owes the live calls
instead. One lemma per action shows `Evolves` and one of the two; together they preserve
`IInv`. The action properties follow from `Evolves` (`MembersOnly`) and from `Yields`, which
the departures add (`LeaversStop`).

**`FloorSystemSteps` and `FloorSystemProofs`.** `SystemInvariance`, `SystemTyped`, `CallsInSystem`,
`BearersFollow`, `SystemAgrees`, `SpeakersHeard` and `FloorRulesInSystem`. The properties
speak of states in which the queue is empty, and are far from inductive: a grant is made
in one step and heard some deliveries later, with other grants, hang-ups and closures
between. `FloorInv` therefore says for each bearer, `Agrees(b, mq)`, how the queue and the
UMAC together amount to the call: the last message in the queue that opens or closes the
bearer decides that the circuit will be open exactly if there is a call, or there is no
such message and it is so already; likewise the last floor message names the speaker of a
call that has committed itself to one (`Commits`), or the UMAC already hears that speaker
(`Hears`). A call commits itself unless a tail, an activation or a readiness is pending,
whose outcome will send another message. The proof has two halves. `Tells`: each step of
CMCE sends enough, that is, whenever it commits a call to a speaker or opens or closes a
bearer, its messages end with the one that says so, and otherwise the commitments do not
change (`Kept`); `FloorSystemSteps` shows it of each operation on a call, `FloorSystemProofs`
of each handler. `StepAgrees`: taking the first message off the queue and applying it at
the UMAC keeps the sum the same, since a message that is not the last of its kind decides
nothing. `CallsInSystem` and `FloorRulesInSystem` reuse the lemmas of `GroupCallProofs`,
whose environment may send CMCE anything.

**`BasicLinkSteps` and `BasicLinkProofs`.** `Invariance`, `LinkHolds` and `ReceiptsInOrder`,
for every set of TL-SDUs, priorities, limits and timers, and however the UMAC reports and the
terminal answers: nothing is assumed of the requests below the LLC, not even their type. Each
property needs the other. That an acknowledgement may be marked and reported as a success
needs that the first complete transmission was reported before; that it was depends on which
transfers are still in the queue. The inductive invariant `IInv` says of the state the
handlers work on (`Good`): the queues hold each message at most once; a queued message is open,
that is, its receipt and the reports about it are those of a message that has no outcome yet,
with or without first complete transmission as its entry says (`OpenOut`, `OpenUnit`); receipt
and reports of every message, queued or not, fit each other (`Accounts`); one transfer at most
is submitted (`OneIn`); and a message that was not asked for yet is unused. Most of what a
handler does is inert: it changes places, sequence numbers, timers and requests, and leaves
receipts, reports and the messages in the queues alone (`Inert`). The rest are the marks
(`Tell`, `Failed`, `FirstComplete`), the removal that goes with an outcome (`EndTransfer`,
`EndUnit`) and submission (`SubmitGood`). `Steps` adds what the refinement needs, that the
receipt of one transfer at most moves and only along `Moves`; a lemma per handler composes it
from these, for `Tick` over retransmission, cancellation for an emergency and submission in
their order. `ReceiptsInOrder` reads the moves as steps of `TxReceipt`.

**`SndcpSteps` and `SndcpProofs`.** `PacketData`: `PacketDataConsistent` for any terminals, NSAPIs,
address pool, range of MLE handles, PDUs and length of the queues, and whatever the LLC, the UMAC and
the calls do in between. Two of its parts, `LostNotReady` and `ReadyWasTransmitted`, are about a
report that comes late: SNDCP takes a terminal to be on the channel when the report of the
allocation reaches it, which may be long after the UMAC lost the channel again. So `IInv` follows a
transfer through the layers. `Promise` says of each request at the LLC that, if SNDCP still waits
for it (`Live`) and it has been sent, it went to the terminal SNDCP notes for the handle, since its
last loss; `Message` says the same of each report in the queue. `Lost` says of a terminal the UMAC
has reported that the notice is still in the queue (`Told`), or SNDCP has dealt with it, no report
in the queue can make it ready again, and no live request of it has left the LLC (`Off`). `Silenced` is the same for a
terminal that deregistered. `Tracked` gives the requests at the LLC and the MLE's pending entries
one to one under their handles: that a freshly allocated handle is unused, also after the last one,
is `AllocateFacts`. Of SNDCP's own tables (`Good`) addresses are unique, machines count their
contexts and the two WAP maps are inverses. `SndcpSteps` shows what each operation keeps: `Serves`
for what a PDU does to the contexts, machines and sessions of its sender and to nobody else,
`Responds` for what is noted as pending with the answer, `Forgets` for all that only forgets
(reports, losses, deregistration). `SndcpProofs` has one lemma per action of SNDCP, MLE, LLC, UMAC
and calls. `FreeSlot` is the action property `FreeSlotGranted`, the safety half of `RequestsServed`:
in any state that `IInv` allows, serving a request while timeslot 2 is free puts an allocation for
its sender on the way. It follows the request through the handler: `RetryWaits` (the terminal is
taken off whatever channel it was noted on), `RequestAccepted` (its machine counts a context, found
or recovered, so it may become Ready) and `HandoffGrants`; that the request is new at the LLC is the
uniqueness of handles again.

### Not proved

* Liveness, with it the half `Settles` of `ImplementsReceipt`: the proof system does not reason
  about fairness and `ENABLED`. `CallsEnd`, `Settles`, `ReceiptsServed`, `MessagesServed`,
  `LinkServed` and the half `PendingSettled` of `RequestsServed` are model-checked.
* `SessionsAgree` of `FloorSystem`. It depends on `MaxBacklog = 0`, the tick discipline of
  the router, and on `Arbitrated`; it is model-checked for the five casts, that is for two
  bearers and two sessions at most.
* `AirConsistent` of `BasicLink`. It compares the receipts with what the terminal has heard
  and so needs an invariant over the numbers of the requests on the air, under a condition
  on priorities and drops.
* The invariants of `AdvancedLink`, `IndividualCall`, `Mobility`, `SdsSystem`, `UmacBs` and
  `BrewLink`. They are model-checked under their workloads. `AdvancedLink` and
  the codecs are written with recursive operators, which the proof system does not accept,
  and what a layout decodes to would need induction over data.

## Disagreements between the code and what it says of itself

Met while modelling; the models follow the code.

Traffic slots and group calls
* A circuit that expires while its call's release is pending is not closed at the UMAC:
  the Close is suppressed because of the release (`timers.rs`, `SendClose`), and
  `complete_pending_group_release` finds no circuit to close. The UMAC keeps the bearer open
  until the next Open or Close of the slot. `BearersAgree` and `CallsConsistent` except exactly
  these bearers (`unclosed` in `FloorSystem`, `stale` in `IndividualCall`).
* A session that takes over the resources of a hanging one inherits its bearer also while
  the release of that bearer is draining. When the session ends again before its own
  NetworkCallReady, the hanging entry it leaves names a bearer, and a call, that are gone or
  belong to others by then; it stays until the hang time has run out. This happens with an
  empty queue too. So nothing is claimed of hanging entries, and of active ones only that a
  call carries them and that, once CMCE has reported readiness, speech goes to its bearer.
* A repeated U-TX CEASED grants the floor during the tail of a transmission.
* A discarded D-TX GRANTED puts the call into hangtime without the UMAC being told.
* Re-entry by U-SETUP after a network speaker leaves the bearer on network media.
* A call released in mid-over leaves its session open at the server; a local call that
  became a network call leaves its uplink forwarder.
* CMCE refuses a change of speaker in a session that has the floor (no local listener
  left, or a pre-emptive priority with interruption disabled) by `NetworkCallEnd`; Brew
  forgets the session while its previous speaker keeps the floor, and the GROUP_IDLE of
  that speaker is ignored ("GROUP_IDLE for unknown uuid"). Likewise a `NetworkCallEnd` may
  be taken by a call of the session that is already being released. The comment in
  `rx_network_call_ready` means to exclude such orphans; uplink inactivity ends them.

Brew link
* A MediaReady that crosses a CALL_RELEASE leaves uplink forwarders behind, although
  `drop_network_circuit` says "Clean up here to avoid stale entries".
* AffiliateGroups of before a break may be sent after the reconnect; a terminal whose
  number is not routable is never deregistered; calls in set-up are not told of a
  disconnect; commands are not read while the server cannot be reached, and those that
  wait are lost when the entity is dropped; a subscriber that was external and registers
  here keeps its external entry.

Short data and packet data
* The message reference wraps while older contexts live; success is reported for a message
  that was dropped; deferred messages can be overtaken; D-STATUS is not deferred; contexts
  are not cleared with the terminal.
* SNDCP keeps hand-offs and WAP transactions whose report was lost until the next event of
  the terminal; the state machine may count contexts that were deleted.
* An advanced link that is set up anew drops its transfers without a report, so SNDCP and the
  MLE keep what was pending on them; `PendingSettled` excepts these, and only these.
* With `assume_pdch_ready_after_data_transmit` SNDCP takes the terminal to be on the channel
  as soon as it has asked for it, before anything was transmitted; `LostNotReady` and
  `ReadyWasTransmitted` except this mode, which the log message calls unsafe.

Links
* A TL-SDU of the advanced link can be reported successful without delivery, against
  `TxState::Acknowledged` ("the remote side has acknowledged receipt"), when priorities
  overtake or the link is set up anew; `DeliveredIfSuccessful` states the condition.
* Replacing a link reports nothing to the users of the old one; a TL-SDU of more than 256
  segments is refused after its number was taken, one longer than N.271 before.
* On the basic link a late acknowledgement can complete the next transfer when numbers are
  not used in turn; `HeardInTurn` states the condition.

Individual calls, mobility, UMAC
* The inactivity time-out hands the floor over without FloorGranted; a tail is not
  cancelled when its speaker asks again.
* A U-DISCONNECT with the cause "SwMI requested disconnection" keeps the release from Brew,
  whose leg of the call stays until the server ends it (`untold` in `BrewLegClosed`).
* The groups of a terminal that only the dashboard's list admits are not written to the
  recovery cache, since `restart_recovery_eligible` asks the configured whitelist alone.
* `register` empties the groups of a terminal that registers again, and not every path
  fills them; a commanded terminal is commanded again each minute.
* A slot grant may be taken by the other half slot, against the comment on the order in
  which grants are taken.
* `write_bits` asserts that a value fits. Many `to_bitbuf` do not check their fields, among
  them some filled in from a PDU that was read; `CodecSafe` says that nothing else fails, so
  a field is either checked or listed as unchecked in its layout. A generic element is read
  into at most 64 or 128 bits and the rest skipped with `seek_rel`, which asserts that the
  rest is there: 38 PDUs have such elements, and a damaged length ends in the assertion
  instead of in the error the reader returns elsewhere.

## Not modelled

LMAC and PHY, sockets and transports, control, telemetry and dashboard, the health
registry, configuration, and the MS side of the stack, for the reasons in `PROJECT.json`.
Encryption and authentication fields are data that nothing in the models depends on.

Smaller things that the models leave out of parts they have:
* Calls: the environment of `IndividualCall` offers simplex in a U-ALERT only before the
  called terminal has connected.
* Basic link: group addressed requests (`llc_bs_ms.rs:1977`), and the delivery of an uplink
  SDU that a BL-ACK carries (`:3253`, `:3295`); the acknowledgement in it is modelled.
* Advanced link: the acknowledgement that says that the rest of the TL-SDU was received
  (`:1191`), which the modelled terminal never sends.
* UMAC: the `unreachable!` of `bs_sched.rs:1958`; the exhausted wait budget of packet data
  (`bs_sched.rs:3583`).
* Short data: a configuration with SDS disabled over Brew; periodic weather messages
  (`tick_periodic_wx`), and that only two protocol identifiers get a weather confirmation
  where the model confirms every transfer; live messages refused for their protocol or
  source, which change nothing.
* Brew: GROUP_TX and GROUP_IDLE with the identifier of a circuit call, version detection,
  SDS reports and DTMF; a command channel whose worker has ended; the notice to MM of the
  first connect (`Mobility` has it as an event of its environment); that a subscriber of
  this cell is also looked up in the registry.

Writes of the restart cache may fail in `Mobility`; reads may not (the file is read as it was
written), and its path does not change while the program runs.

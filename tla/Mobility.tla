------------------------------ MODULE Mobility ------------------------------
(***************************************************************************)
(* Mobility management of the base station (MmBs): registration and its    *)
(* watchdog, group attachment by the terminal and by the network, energy   *)
(* economy, the recovery of registrations and groups after a restart from  *)
(* a cache on disk, and the shutdown of the carrier; with the tables that  *)
(* follow its subscriber updates: the shared registry, call control's      *)
(* listeners and the Brew entity's groups.                                 *)
(*                                                                         *)
(* One action is one handler run to its end; a handler is an operator on   *)
(* the record Now of all tables.  Subscriber updates travel on the         *)
(* router's queue, so that further messages for MM may be handled before   *)
(* an update is delivered; a tick begins only when the queue is empty.     *)
(* PDUs to the terminals leave no state behind other than the timers and   *)
(* transactions of MM, and the terminals may send anything at any time.    *)
(***************************************************************************)
EXTENDS Integers, FiniteSets, Sequences, SubscriberRegistry

CONSTANTS
    None,           \* no value
    Allowed,        \* GSSIs of allowed_gssi_ranges
    BrewTerminals,  \* ISSIs routed to Brew
    BrewGroups,     \* GSSIs routed to Brew
    MaxGroups,      \* MAX_GROUPS_PER_ATTACH
    T352, T353,     \* ticks MM waits for an energy or a group response
    ReportWindow,   \* ticks a requested group report may take
    Grace,          \* ticks of grace after D-LOCATION-UPDATE-COMMAND
    Recent,         \* ticks a registration counts as recent
    InitialDelay, Spacing, Retry, MaxAttempts,  \* restart recovery
    FlushGap,       \* ticks between two writes of the cache
    InhibitGuard,   \* ticks between notification and carrier inhibit
    MaxBurst,       \* bound: messages MM handles before the updates are delivered
    Workloads       \* what may happen in a behaviour

ASSUME TerminalsAndGroupsAreNumbered ==
    /\ Terminals \subseteq Nat /\ IsFiniteSet(Terminals)
    /\ Groups \subseteq Nat /\ IsFiniteSet(Groups)
    /\ Allowed \subseteq Groups /\ BrewGroups \subseteq Groups
ASSUME TimesArePositive ==
    {MaxGroups, T352, T353, ReportWindow, Grace, Recent, Spacing, Retry,
     MaxAttempts, FlushGap, InhibitGuard} \subseteq Nat \ {0}

VARIABLES
    clients,    \* client_mgr
    swmi,       \* pending_swmi_group_transactions
    reports,    \* pending_solicited_group_reports
    accepts,    \* terminals with a LocationUpdateAccept in pending_critical_downlinks
    offers,     \* pending_energy_saving
    energy,     \* energy_saving of the shared state
    probes,     \* restart_recovery with restart_recovery_due
    sweep,      \* ticks to the next command, and ticks of one sweep
    cache,      \* restart_recovery_cache with its dirty flag and flush timer
    file,       \* the cache on disk
    writable,   \* writing the file succeeds
    registry,   \* the shared SubscriberRegistry
    cmce,       \* call control's subscriber_groups and group_listeners
    brew,       \* the Brew entity's subscriber_groups
    queue,      \* subscriber updates not yet delivered, those of one handler together
    burst,      \* messages handled since the queue was last empty
    carrier,    \* carrier_inhibited and pending_rf_carrier_inhibit_at
    wiped,      \* terminals whose affiliations a refreshed registration dropped (ghost)
    work        \* what may still happen

vars == <<clients, swmi, reports, accepts, offers, energy, probes, sweep, cache,
          file, writable, registry, cmce, brew, queue, burst, carrier,
          wiped, work>>

Modes == {"StayAlive", "Eg1", "Eg2"}
Clients == [groups : SUBSET Groups, mode : Modes, age : Nat,
            commanded : BOOLEAN, grace : Nat]

Now == [clients |-> clients, swmi |-> swmi, reports |-> reports,
        accepts |-> accepts, offers |-> offers, energy |-> energy,
        probes |-> probes, sweep |-> sweep, cache |-> cache, file |-> file,
        registry |-> registry, cmce |-> cmce, brew |-> brew, out |-> <<>>,
        carrier |-> carrier, wiped |-> wiped]

Commit(s) ==
    /\ clients' = s.clients /\ swmi' = s.swmi /\ reports' = s.reports
    /\ accepts' = s.accepts /\ offers' = s.offers /\ energy' = s.energy
    /\ probes' = s.probes /\ sweep' = s.sweep /\ cache' = s.cache
    /\ file' = s.file /\ registry' = s.registry /\ cmce' = s.cmce
    /\ brew' = s.brew /\ carrier' = s.carrier /\ wiped' = s.wiped

\* The end of a handler of MM: its updates join the queue.
Handled(s) ==
    /\ Commit(s)
    /\ queue' = IF s.out = <<>> THEN queue ELSE Append(queue, s.out)
    /\ burst' = IF queue' = <<>> THEN 0 ELSE burst + 1

Known(s, m) == s.clients[m] # None
GroupsOf(s, m) == IF Known(s, m) THEN s.clients[m].groups ELSE {}

\* Op applied for each terminal of ms in turn, the lowest ISSI first
OverTerminals(Op(_, _), s, ms) ==
    LET nth(n) == CHOOSE m \in ms : Cardinality({k \in ms : k < m}) = n - 1
        after[n \in 0 .. Cardinality(ms)] ==
            IF n = 0 THEN s ELSE Op(after[n - 1], nth(n))
    IN  after[Cardinality(ms)]

-----------------------------------------------------------------------------
(* Subscriber updates *)

Emit(s, m, action, gs) ==
    [s EXCEPT !.out = Append(@, [issi |-> m, action |-> action, groups |-> gs])]
EmitGroups(s, m, action, gs) == IF gs = {} THEN s ELSE Emit(s, m, action, gs)

\* restore_shared_subscriber_registration_for_known_client
RestoreRegistration(s, m) ==
    IF IsRegistered(s.registry, m) \/ ~Known(s, m) THEN s
    ELSE Emit([s EXCEPT !.registry = Register(@, m)], m, "Register", {})

\* restore_shared_subscriber_state_for_reported_groups
RestoreReported(s, m, gs) ==
    LET missing == {g \in gs : ~ContainsGroupMember(s.registry, g, m)}
        registered == RestoreRegistration(s, m)
        affiliated == [registered EXCEPT !.registry = Affiliate(@, m, missing)]
    IN  EmitGroups(affiliated, m, "Affiliate", missing)

-----------------------------------------------------------------------------
(* The cache of registrations and groups for the recovery after a restart *)

\* read_restart_recovery_cache of a file that write_restart_recovery_cache
\* left, into a cache that MmBs::new takes for clean: one entry for each line,
\* with the groups listed on it.
ReadCache(f) ==
    [entries |-> [m \in Terminals |-> IF f[m] = None THEN None ELSE f[m] \cap Groups],
     dirty |-> FALSE, wait |-> 0]

\* write_restart_recovery_cache: all entries, under a temporary name first, so
\* that a crash leaves the old file or the new one.
WriteCache(s) == [s EXCEPT !.file = s.cache.entries]

\* persist_restart_recovery_cache_now: a failed write leaves the cache dirty.
Persist(s) ==
    IF writable THEN [WriteCache(s) EXCEPT !.cache.dirty = FALSE,
                                           !.cache.wait = FlushGap]
    ELSE s

\* flush_restart_recovery_cache_if_due
Flush(s, force) ==
    IF s.cache.dirty /\ (force \/ s.cache.wait = 0) THEN Persist(s) ELSE s

RemoveProbe(s, m) == [s EXCEPT !.probes[m] = None]

SetEntry(s, m, entry, force) ==
    IF s.cache.entries[m] = entry THEN s
    ELSE Flush([s EXCEPT !.cache.entries[m] = entry, !.cache.dirty = TRUE], force)

\* current_restart_recovery_groups_for_client_with_remaining
CurrentGroups(s, m, remaining) ==
    (GroupsOf(s, m) \cup (IF s.swmi[m] = None THEN {} ELSE s.swmi[m].remaining)
        \cup remaining) \cap Allowed

\* restart_recovery_eligible: on the whitelist of the configuration, which is
\* not asked when the dashboard's list admits the terminal
Eligible(m) == m \in work.eligible

\* remember_restart_recovery_issi_with_remaining_persist
RememberWith(s, m, remaining, force) ==
    IF ~Eligible(m) THEN RemoveProbe(s, m)
    ELSE SetEntry(RemoveProbe(s, m), m, CurrentGroups(s, m, remaining), force)
\* remember_restart_recovery_issi and ..._after_group_change
RememberLazily(s, m, changed) == RememberWith(s, m, {}, FALSE)
Remember(s, m, changed) == RememberWith(s, m, {}, changed)

\* forget_restart_recovery_issi
Forget(s, m) == SetEntry(RemoveProbe(s, m), m, None, FALSE)

-----------------------------------------------------------------------------
(* Transactions with a terminal *)

Abandon(s, m) == [s EXCEPT !.swmi[m] = None]
ClearReport(s, m) == [s EXCEPT !.reports[m] = None]
ClearAccept(s, m) == [s EXCEPT !.accepts = @ \ {m}]

\* send_d_location_update_command: a group report is expected from then on
Command(s, m) == [s EXCEPT !.reports[m] = ReportWindow]

\* set_pending_command and reset_registration_timer
SetPending(s, m) ==
    IF Known(s, m) THEN [s EXCEPT !.clients[m].commanded = TRUE,
                                  !.clients[m].grace = Grace]
    ELSE s
ResetTimer(s, m) ==
    [s EXCEPT !.clients[m].age = 0, !.clients[m].commanded = FALSE,
              !.clients[m].grace = 0]

-----------------------------------------------------------------------------
(* Energy economy *)

\* set_client_stay_alive
StayAlive(s, m) ==
    LET gone == [s EXCEPT !.offers[m] = None, !.energy[m] = "StayAlive"]
    IN  IF Known(s, m) THEN [gone EXCEPT !.clients[m].mode = "StayAlive"] ELSE gone

\* forget_energy_saving
ForgetEnergy(s, m) == [s EXCEPT !.offers[m] = None, !.energy[m] = "StayAlive"]

\* apply_energy_saving_information
ApplyEnergy(s, m, mode) ==
    [s EXCEPT !.offers[m] = None, !.clients[m].mode = mode, !.energy[m] = mode]

\* select_energy_saving_mode; None is no request, and "Auto" no configured mode
SelectMode(requested) ==
    CASE work.mode = "Auto" -> IF requested = None THEN "StayAlive" ELSE requested
      [] requested = "StayAlive" -> "StayAlive"
      [] OTHER -> work.mode

\* fail_pending_energy_saving_assignment, restore_energy_saving_assignment
FailOffer(s, m) ==
    LET previous == s.offers[m].previous
        dropped == [s EXCEPT !.offers[m] = None]
    IN  IF previous = "StayAlive" THEN StayAlive(dropped, m)
        ELSE [dropped EXCEPT !.clients[m].mode = previous, !.energy[m] = previous]

\* The energy part of an accepted location update: an assignment in the
\* accept, an offer of the configured mode, or none.
AssignEnergy(s, m, requested) ==
    IF requested # None \/ work.mode = "StayAlive"
    THEN ApplyEnergy(s, m, SelectMode(requested))
    ELSE IF work.mode = "Auto" THEN StayAlive(s, m)
    ELSE IF s.energy[m] = work.mode THEN s
    ELSE [s EXCEPT !.offers[m] =
            [mode |-> work.mode, left |-> T352, previous |-> s.energy[m]]]

-----------------------------------------------------------------------------
(* Attaching and detaching groups *)

\* client_detach_all_groups with the deaffiliation of what was attached
DetachAll(s, m) ==
    LET prior == GroupsOf(s, m)
        gone == [s EXCEPT !.clients[m].groups = {},
                          !.registry = Deaffiliate(@, m, prior)]
    IN  EmitGroups(gone, m, "Deaffiliate", prior)

\* Mutant: the groups given up are not announced.
ReplaceSilently(s, m, attach) ==
    LET dropped == GroupsOf(s, m) \ (attach \cap Allowed)
    IN  [s EXCEPT !.clients[m].groups = {}, !.registry = Deaffiliate(@, m, dropped)]

\* prepare_detach_all_then_attach: groups attached again stay affiliated
Replace(s, m, attach) ==
    LET dropped == GroupsOf(s, m) \ (attach \cap Allowed)
        gone == [s EXCEPT !.clients[m].groups = {},
                          !.registry = Deaffiliate(@, m, dropped)]
    IN  EmitGroups(gone, m, "Deaffiliate", dropped)

\* try_attach_detach_groups
AttachDetachWith(s, m, attach, detach, lazily) ==
    LET accepted == attach \cap Allowed
        left == detach \cap GroupsOf(s, m)
        shared == s.registry.attached[m]
        touched == left # {} \/ accepted \ GroupsOf(s, m) # {} \/ accepted \ shared # {}
        present == IF touched THEN RestoreRegistration(s, m) ELSE s
        aff == accepted \ shared
        deaff == left \cap shared
        done == [present EXCEPT
                    !.clients[m].groups = (@ \cup accepted) \ left,
                    !.registry = Deaffiliate(Affiliate(@, m, aff), m, deaff)]
        told == EmitGroups(EmitGroups(done, m, "Affiliate", aff),
                           m, "Deaffiliate", deaff)
        changed == aff \cup deaff # {}
    IN  IF lazily THEN RememberLazily(told, m, changed) ELSE Remember(told, m, changed)

\* Mutant: the cache is written when it is due, not at once.
AttachDetachLazily(s, m, attach, detach) ==
    AttachDetachWith(s, m, attach, detach, TRUE)
AttachDetach(s, m, attach, detach) ==
    AttachDetachWith(s, m, attach, detach, FALSE)

\* process_attach_detach_group_identity_uplink, and the same of a location
\* update: a request beyond the capacity of one acknowledgement changes nothing.
ProcessUplink(s, m, d) ==
    LET detach == IF d.replace THEN {} ELSE d.detach
        ready == IF d.replace THEN Replace(s, m, d.attach) ELSE s
    IN  IF Cardinality(d.attach \cup detach) > MaxGroups THEN s
        ELSE IF ~d.listed THEN ready
        ELSE AttachDetach(ready, m, d.attach, detach)

-----------------------------------------------------------------------------
(* Refreshing the groups of a terminal that returns after a restart *)

FirstBatch(gs) == {g \in gs : Cardinality({h \in gs : h < g}) < MaxGroups}

\* restore_cached_restart_recovery_group_batch; the groups it restored
Restored(s, m, gs) == gs \ s.registry.attached[m]
RestoreBatch(s, m, gs) ==
    LET touched == gs \ GroupsOf(s, m) # {} \/ Restored(s, m, gs) # {}
        present == IF touched THEN RestoreRegistration(s, m) ELSE s
        done == [present EXCEPT
                    !.clients[m].groups = @ \cup gs,
                    !.registry = Affiliate(@, m, Restored(s, m, gs))]
    IN  EmitGroups(done, m, "Affiliate", Restored(s, m, gs))

\* send_swmi_group_attach_refresh
SendRefresh(s, m, gs, remaining) ==
    IF gs = {} THEN s
    ELSE [s EXCEPT !.swmi[m] = [groups |-> gs, remaining |-> remaining, left |-> T353]]

\* rollback_swmi_group_attachment for each group of gs; what was deaffiliated
RolledBack(s, m, gs) == gs \cap (GroupsOf(s, m) \cup s.registry.attached[m])
Rollback(s, m, gs) ==
    EmitGroups([s EXCEPT !.clients[m].groups = @ \ gs,
                         !.registry = Deaffiliate(@, m, gs)],
               m, "Deaffiliate", RolledBack(s, m, gs))

\* finish_swmi_group_failure_recovery
FinishFailure(s, m, remaining, changed) ==
    Command(RememberWith(s, m, remaining, changed), m)

\* The transaction of m is over when its acknowledgement refuses the groups
\* of refused (apply_swmi_group_ack); the next batch follows when there is one.
ApplyAck(s, m, refused) ==
    LET t == s.swmi[m]
        wanted == t.groups \ refused
        aff == wanted \ GroupsOf(s, m)
        undone == RolledBack(s, m, refused)
        back == Rollback(Abandon(s, m), m, refused)
        done == EmitGroups([back EXCEPT !.clients[m].groups = @ \cup wanted,
                                        !.registry = Affiliate(@, m, aff)],
                           m, "Affiliate", aff)
        batch == FirstBatch(t.remaining)
        next == SendRefresh(RestoreBatch(done, m, batch), m,
                            Restored(done, m, batch), t.remaining \ batch)
    IN  IF undone # {} THEN FinishFailure(done, m, t.remaining, FALSE)
        ELSE IF t.remaining # {} THEN Remember(next, m, aff # {})
        ELSE Remember(done, m, aff # {})

\* Mutant: the refresh is sent again without end.
ResendTransaction(s, m) == [s EXCEPT !.swmi[m].left = T353]

\* One transaction that T353 ends: its groups are taken back.
ExpireTransaction(s, m) ==
    LET t == s.swmi[m]
        changed == RolledBack(s, m, t.groups) # {}
    IN  FinishFailure(Rollback(Abandon(s, m), m, t.groups), m, t.remaining, changed)

-----------------------------------------------------------------------------
(* U-LOCATION UPDATE DEMAND *)

\* rf_carrier_shutdown_in_progress
ShuttingDown(s) == s.carrier.inhibited \/ s.carrier.guard # None

\* All of a client's state but its transactions: what every removal ends with
RemoveClient(s, m) ==
    [s EXCEPT !.clients[m] = None, !.registry = Deregister(@, m)]
EmitRemoval(s, m, gs) ==
    Emit(EmitGroups(s, m, "Deaffiliate", gs), m, "Deregister", {})

\* cleanup_ms_for_rf_carrier_inhibit
CleanupForInhibit(s, m) ==
    LET told == EmitRemoval(s, m, GroupsOf(s, m))
    IN  Forget(ClearAccept(ClearReport(ForgetEnergy(RemoveClient(told, m), m), m), m), m)

\* A terminal that leaves for another network is forgotten and refused.
Migrate(s, m) ==
    LET t == Forget(ClearAccept(ClearReport(Abandon(s, m), m), m), m)
    IN  IF ~Known(s, m) THEN t
        ELSE EmitRemoval(StayAlive(RemoveClient(t, m), m), m, GroupsOf(s, m))

\* The request is refused with nothing changed but the pending refresh: an
\* identity that does not match, a disabled terminal, an unsupported element,
\* or a terminal that is not on the whitelist.
Unsupported(p) ==
    \/ p.refused
    \/ p.complete /\ p.demand # None /\ p.type # "Demand"

\* What the handler finds before it changes anything
Found(s, m, p) ==
    LET hint == s.reports[m] # None \/ s.probes[m] # None \/ s.cache.entries[m] # None
        carries == p.demand # None \/ p.complete
        roaming == Known(s, m) /\ p.type = "Roaming"
        recent == Known(s, m) /\ s.clients[m].age < Recent
    IN  [new |-> ~Known(s, m),
         pending |-> Known(s, m) /\ s.clients[m].commanded,
         solicited |-> s.reports[m] # None,
         hint |-> hint,
         awaited |-> s.probes[m] # None \/ s.cache.entries[m] # None,
         carries |-> carries,
         defer |-> p.type = "Demand" /\ ~carries /\ hint,
         soft |-> roaming /\ (~carries \/ recent),
         hard |-> roaming /\ carries /\ ~recent]

\* A known terminal registers again.
Renew(s, m, f) ==
    LET told == EmitGroups(s, m, "Deaffiliate", GroupsOf(s, m))
        fresh == StayAlive([told EXCEPT !.clients[m].groups = {},
                                        !.registry = Register(@, m)], m)
        again == Emit(Emit(fresh, m, "Deregister", {}), m, "Register", {})
        called == IF f.soft THEN Emit(s, m, "ReleaseIndividualCalls", {}) ELSE s
        kept == IF f.pending THEN [called EXCEPT !.registry = Register(@, m)] ELSE called
    IN  IF f.new THEN s ELSE ResetTimer(IF f.hard THEN again ELSE kept, m)

\* handle_pending_swmi_group_transaction_for_location_update
KeepRefresh(s, m, f) ==
    IF f.carries \/ f.new \/ f.hard THEN Abandon(s, m) ELSE s

NewClient == [groups |-> {}, mode |-> "StayAlive", age |-> 0,
              commanded |-> FALSE, grace |-> 0]
Admit(s, m, p, f) ==
    LET known == IF f.new THEN [s EXCEPT !.clients[m] = NewClient] ELSE s
        published == IF f.new /\ ~f.defer
                     THEN [known EXCEPT !.registry = Register(@, m)] ELSE known
    IN  IF (f.new \/ p.type = "Itsi" \/ f.pending) /\ ~f.defer
        THEN Emit(published, m, "Register", {}) ELSE published

\* The group report in the request: a demand, or "group report complete"
TakeReport(s, m, p) ==
    LET had == GroupsOf(s, m) # {}
        demanded == IF p.demand # None THEN ProcessUplink(s, m, p.demand)
                    ELSE IF p.complete /\ had THEN Remember(DetachAll(s, m), m, TRUE)
                    ELSE s
    IN  IF p.complete THEN ClearReport(demanded, m) ELSE demanded

\* Coverage return: groups MM still holds are announced again.
Reaffiliate(s, m, f) ==
    IF f.soft \/ f.new \/ f.carries THEN s
    ELSE EmitGroups([s EXCEPT !.registry = Affiliate(@, m, GroupsOf(s, m))],
                    m, "Affiliate", GroupsOf(s, m))

\* The cached groups of a terminal that returns without a group report
CachedGroups(s, m) ==
    IF s.cache.entries[m] = None THEN {} ELSE s.cache.entries[m] \cap Allowed
RestoreCached(s, m, f) ==
    LET cached == CachedGroups(s, m)
        batch == FirstBatch(cached)
    IN  IF f.new /\ ~f.carries /\ f.hint
        THEN SendRefresh(RestoreBatch(s, m, batch), m, Restored(s, m, batch),
                         cached \ batch)
        ELSE s

\* The accept is on its way; a new terminal without groups is asked for them.
FinishUpdate(s, m, p, f) ==
    LET tracked == [ResetTimer(s, m) EXCEPT !.accepts = @ \cup {m}]
        kept == RememberLazily(tracked, m, FALSE)
        ask == /\ f.new /\ ~f.carries /\ s.swmi[m] = None /\ ~f.solicited
               /\ p.type # "Itsi" \/ f.awaited
    IN  IF ask THEN Command(kept, m) ELSE kept

AcceptUpdate(s, m, p) ==
    LET f == Found(s, m, p)
        admitted == Admit(KeepRefresh(Renew(s, m, f), m, f), m, p, f)
        reported == TakeReport(AssignEnergy(admitted, m, p.energy), m, p)
        done == FinishUpdate(RestoreCached(Reaffiliate(reported, m, f), m, f), m, p, f)
        dropped == GroupsOf(done, m) \ done.registry.attached[m]
    IN  IF dropped = {} THEN done ELSE [done EXCEPT !.wiped = @ \cup {m}]

LocationUpdate(s, m, p) ==
    IF p.mismatch THEN Abandon(s, m)
    ELSE IF ShuttingDown(s)
         THEN CleanupForInhibit(Forget(ClearAccept(ClearReport(Abandon(s, m), m), m), m), m)
    ELSE IF p.type = "Migrating" THEN Migrate(s, m)
    ELSE IF Unsupported(p) THEN Abandon(s, m)
    ELSE AcceptUpdate(s, m, p)

-----------------------------------------------------------------------------
(* The other requests of a terminal *)

\* rx_u_itsi_detach
ItsiDetach(s, m) ==
    LET t == Forget(ClearAccept(ClearReport(Abandon(s, m), m), m), m)
    IN  IF ~Known(s, m) THEN t
        ELSE EmitRemoval(ForgetEnergy(RemoveClient(t, m), m), m, GroupsOf(s, m))

\* rx_u_attach_detach_group_identity: p.report asks for the groups MM holds,
\* p.response is a group report response, complete or not understood
AttachDetachIdentity(s0, m, p) ==
    LET s == Abandon(s0, m)
        had == GroupsOf(s, m) # {}
        detached == IF had THEN DetachAll(s, m) ELSE s
        malformed == p.replace \/ p.listed \/ p.response # None
    IN  IF ~Known(s, m) \/ (p.report /\ malformed) THEN s
        ELSE IF p.report THEN RestoreReported(s, m, GroupsOf(s, m))
        ELSE IF ~p.listed /\ p.response = "complete"
             THEN Remember(ClearReport(detached, m), m, had)
        ELSE IF ~p.listed /\ p.response # None THEN s
        ELSE IF ~p.listed /\ p.replace THEN Remember(detached, m, had)
        ELSE IF ~p.listed THEN s
        ELSE IF p.response = None THEN ProcessUplink(s, m, p)
        ELSE IF p.response = "complete" /\ s.reports[m] # None
             THEN ClearReport(ProcessUplink(s, m, p), m)
        ELSE s

\* rx_u_mm_status: a change of energy saving mode, asked for or answered
EnergyRequest(s, m, mode) == ApplyEnergy(s, m, SelectMode(mode))
EnergyResponse(s, m, mode) ==
    IF s.offers[m] = None THEN s
    ELSE IF mode = "StayAlive" THEN StayAlive(s, m)
    ELSE IF mode = s.offers[m].mode THEN ApplyEnergy(s, m, mode)
    ELSE FailOffer(s, m)

\* rx_lmm_mle_report_ind of a failed D-LOCATION UPDATE ACCEPT
\* (mark_registration_unconfirmed_and_reprobe)
AcceptFailed(s, m) ==
    SetPending(Abandon(Command(StayAlive(ClearAccept(s, m), m), m), m), m)

-----------------------------------------------------------------------------
(* Requests of the other entities and of the operator *)

\* rx_brew_reconnected, one client
ReconnectClient(s, m) == SetPending(Abandon(Command(s, m), m), m)

\* notify_and_remove_registered_ms_for_rf_carrier_inhibit, one client
InhibitClient(s, m) == CleanupForInhibit(Abandon(Command(s, m), m), m)

\* set_rf_carrier_inhibited_state
SetInhibited(s, on) == [s EXCEPT !.carrier.inhibited = on]

\* handle_rf_carrier_inhibit_request
InhibitRequest(s, on) ==
    LET ms == {m \in Terminals : Known(s, m)}
        gone == OverTerminals(InhibitClient, s, ms)
    IN  IF ~on THEN SetInhibited([s EXCEPT !.carrier.guard = None], FALSE)
        ELSE IF s.carrier.inhibited THEN [s EXCEPT !.carrier.guard = None]
        ELSE IF s.carrier.guard # None THEN s
        ELSE IF ms = {} THEN SetInhibited(s, TRUE)
        ELSE [gone EXCEPT !.carrier.guard = InhibitGuard]

\* kick_ms of call control, and MM's answer to it
KickListener(s, m) ==
    [s EXCEPT !.cmce.known = @ \ {m}, !.cmce.groups[m] = {},
              !.cmce.listeners = [g \in Groups |->
                  IF g \in s.cmce.groups[m] THEN @[g] - 1 ELSE @[g]]]
KickClient(s, m) ==
    LET told == EmitRemoval(Abandon(Command(s, m), m), m, GroupsOf(s, m))
    IN  ClearAccept(ClearReport(ForgetEnergy(RemoveClient(told, m), m), m), m)

-----------------------------------------------------------------------------
(* tick_start *)

Less(n) == IF n = 0 THEN 0 ELSE n - 1
LessOrNone(n) == IF n = None THEN None ELSE n - 1
Older(n) == IF n > work.period /\ n >= Recent THEN n ELSE n + 1

\* update_restart_recovery_clock and dltime: time passes for every timer.
Elapse(s) ==
    [s EXCEPT
        !.clients = [m \in Terminals |-> IF @[m] = None THEN None
            ELSE [@[m] EXCEPT !.age = Older(@), !.grace = Less(@)]],
        !.swmi = [m \in Terminals |-> IF @[m] = None THEN None
            ELSE [@[m] EXCEPT !.left = @ - 1]],
        !.offers = [m \in Terminals |-> IF @[m] = None THEN None
            ELSE [@[m] EXCEPT !.left = @ - 1]],
        !.reports = [m \in Terminals |-> LessOrNone(@[m])],
        !.probes = [m \in Terminals |-> IF @[m] = None THEN None
            ELSE [@[m] EXCEPT !.due = @ - 1]],
        !.sweep.next = Less(@), !.cache.wait = Less(@),
        !.carrier.guard = LessOrNone(@)]

\* apply_pending_rf_carrier_inhibit_if_due
ApplyInhibit(s) ==
    IF s.carrier.guard = 0 THEN SetInhibited([s EXCEPT !.carrier.guard = None], TRUE)
    ELSE s

\* expire_pending_energy_saving, expire_pending_swmi_group_transactions
ExpireOffers(s) ==
    OverTerminals(FailOffer, s, {m \in Terminals : s.offers[m] # None /\ s.offers[m].left = 0})
ExpireTransactions(s) ==
    OverTerminals(ExpireTransaction, s,
                  {m \in Terminals : s.swmi[m] # None /\ s.swmi[m].left = 0})

\* expire_pending_solicited_group_reports
ExpireReport(s, m) ==
    IF Known(s, m) /\ GroupsOf(s, m) = {} THEN Command(s, m) ELSE ClearReport(s, m)
ExpireReports(s) ==
    OverTerminals(ExpireReport, s, {m \in Terminals : s.reports[m] = 0})

\* expire_restart_recovery_candidate
ExpireCandidate(s, m) ==
    SetEntry(Abandon(ClearAccept(ClearReport(RemoveProbe(s, m), m), m), m), m, None, TRUE)

\* One probe that is due: dropped, given up or sent
Probe(s, m) ==
    IF Known(s, m) \/ ~Eligible(m) THEN RemoveProbe(s, m)
    ELSE IF s.probes[m].attempts >= MaxAttempts THEN ExpireCandidate(s, m)
    ELSE Command([s EXCEPT !.probes[m].attempts = @ + 1,
                           !.probes[m].due = @ + s.sweep.length,
                           !.sweep.next = Spacing], m)

\* tick_restart_recovery: probes in the order of their times, at most one command
TickRecovery(s) ==
    LET due(t) == {m \in Terminals : t.probes[m] # None /\ t.probes[m].due <= 0}
        first(t) == CHOOSE m \in due(t) : \A k \in due(t) \ {m} :
                        \/ t.probes[m].due < t.probes[k].due
                        \/ t.probes[m].due = t.probes[k].due /\ m < k
        after[n \in 0 .. Cardinality(Terminals)] ==
            IF n = 0 THEN s
            ELSE IF due(after[n - 1]) = {} \/ after[n - 1].sweep.next > 0 THEN after[n - 1]
            ELSE Probe(after[n - 1], first(after[n - 1]))
    IN  after[Cardinality(Terminals)]

\* The watchdog (collect_expired_registrations): a first command, and later
\* the end of its grace, which keeps the terminal
Expired(s) ==
    {m \in Terminals : Known(s, m) /\
        IF s.clients[m].commanded THEN s.clients[m].grace = 0
        ELSE s.clients[m].age > work.period}

\* Mutant: the terminal that did not answer is removed.
WatchClientHard(s, m) ==
    IF s.clients[m].commanded
    THEN ForgetEnergy(EmitRemoval(RemoveClient(ClearAccept(Abandon(s, m), m), m),
                                  m, GroupsOf(s, m)), m)
    ELSE SetPending(Abandon(Command(s, m), m), m)
WatchClient(s, m) ==
    IF s.clients[m].commanded THEN ResetTimer(s, m)
    ELSE SetPending(Abandon(Command(s, m), m), m)
Watchdog(s) == IF work.period = 0 THEN s ELSE OverTerminals(WatchClient, s, Expired(s))

TickStart(s) ==
    LET flushed == Flush(Elapse(s), FALSE)
        expired == ExpireReports(ExpireTransactions(ExpireOffers(ApplyInhibit(flushed))))
    IN  Watchdog(TickRecovery(expired))

-----------------------------------------------------------------------------
(* The receivers of subscriber updates *)

\* sync_shared_subscribers_from_mm_update
SyncRegistry(r, u) ==
    CASE u.action = "Register" -> IF IsRegistered(r, u.issi) THEN r ELSE Register(r, u.issi)
      [] u.action = "Deregister" -> Deregister(r, u.issi)
      [] u.action = "Affiliate" ->
            IF IsRegistered(r, u.issi) THEN Affiliate(r, u.issi, u.groups) ELSE r
      [] u.action = "Deaffiliate" -> Deaffiliate(r, u.issi, u.groups)
      [] OTHER -> r

\* handle_subscriber_update of call control
UpdateListeners(c, u) ==
    LET held == c.groups[u.issi]
        now == CASE u.action = "Affiliate" -> held \cup u.groups
                 [] u.action = "Deaffiliate" -> held \ u.groups
                 [] u.action = "Deregister" -> {}
                 [] OTHER -> held
        known == CASE u.action \in {"Register", "Affiliate"} -> c.known \cup {u.issi}
                   [] u.action = "Deregister" -> c.known \ {u.issi}
                   [] OTHER -> c.known
    IN  [known |-> known, groups |-> [c.groups EXCEPT ![u.issi] = now],
         listeners |-> [g \in Groups |->
            IF g \in now \ held THEN c.listeners[g] + 1
            ELSE IF g \in held \ now THEN c.listeners[g] - 1 ELSE c.listeners[g]]]

\* emit_subscriber_update towards Brew, and the Brew entity's handle_subscriber_update
UpdateBrew(b, u) ==
    LET gs == u.groups \cap BrewGroups
    IN  CASE u.action = "Affiliate" -> [b EXCEPT ![u.issi] = @ \cup gs]
          [] u.action = "Deaffiliate" -> [b EXCEPT ![u.issi] = @ \ gs]
          [] u.action = "Deregister" /\ u.issi \in BrewTerminals -> [b EXCEPT ![u.issi] = {}]
          [] OTHER -> b

DeliverOne(s, u) ==
    [s EXCEPT !.registry = SyncRegistry(@, u), !.cmce = UpdateListeners(@, u),
              !.brew = UpdateBrew(@, u)]
DeliverAll(s, us) ==
    LET after[n \in 0 .. Len(us)] == IF n = 0 THEN s ELSE DeliverOne(after[n - 1], us[n])
    IN  after[Len(us)]

-----------------------------------------------------------------------------
(* The entity and its environment *)

\* MmBs::new with the cache on disk: one probe for each eligible terminal of the
\* cache or of restart_recovery_issis, in the order of their ISSIs
Started(f) ==
    LET ms == {m \in Terminals : Eligible(m) /\ (f[m] # None \/ m \in work.recover)}
        rank(m) == Cardinality({k \in ms : k < m})
        round == Cardinality(ms) * Spacing
    IN  [clients |-> [m \in Terminals |-> None], swmi |-> [m \in Terminals |-> None],
         reports |-> [m \in Terminals |-> None], accepts |-> {},
         offers |-> [m \in Terminals |-> None],
         energy |-> [m \in Terminals |-> "StayAlive"],
         probes |-> [m \in Terminals |-> IF m \notin ms THEN None
            ELSE [attempts |-> 0, due |-> InitialDelay + rank(m) * Spacing]],
         sweep |-> [next |-> InitialDelay,
                    length |-> IF round > Retry THEN round ELSE Retry],
         cache |-> ReadCache(f), file |-> f,
         registry |-> EmptyRegistry,
         cmce |-> [known |-> {}, groups |-> [m \in Terminals |-> {}],
                   listeners |-> [g \in Groups |-> 0]],
         brew |-> [m \in Terminals |-> {}],
         carrier |-> [inhibited |-> FALSE, guard |-> None], wiped |-> {}]

Init ==
    /\ work \in Workloads
    /\ \E s \in {Started(work.file)} :
        /\ clients = s.clients /\ swmi = s.swmi /\ reports = s.reports
        /\ accepts = s.accepts /\ offers = s.offers /\ energy = s.energy
        /\ probes = s.probes /\ sweep = s.sweep /\ cache = s.cache
        /\ file = s.file /\ registry = s.registry /\ cmce = s.cmce
        /\ brew = s.brew /\ carrier = s.carrier /\ wiped = s.wiped
    /\ writable = TRUE /\ queue = <<>> /\ burst = 0

Spend(budget) ==
    /\ work[budget] > 0
    /\ work' = [work EXCEPT ![budget] = @ - 1]
Receives(s) == burst < MaxBurst /\ Handled(s) /\ UNCHANGED writable

\* Messages of a terminal
RxLocationUpdate == Spend("moves") /\
    \E m \in work.users, p \in work.updates : Receives(LocationUpdate(Now, m, p))
RxItsiDetach == work.detach /\ Spend("moves") /\
    \E m \in work.users : Receives(ItsiDetach(Now, m))
RxAttachDetach == Spend("moves") /\
    \E m \in work.users, p \in work.identities :
        Receives(AttachDetachIdentity(Now, m, p))
RxAcknowledgement == \E m \in Terminals :
    /\ swmi[m] # None
    /\ \E refused \in SUBSET swmi[m].groups : Receives(ApplyAck(Now, m, refused))
    /\ UNCHANGED work
RxStatus == Spend("moves") /\
    \E m \in work.users, mode \in work.modes :
        /\ clients[m] # None
        /\ \/ Receives(EnergyRequest(Now, m, mode))
           \/ Receives(EnergyResponse(Now, m, mode))

\* The link reports the outcome of a D-LOCATION UPDATE ACCEPT.
RxReport == \E m \in accepts :
    /\ \/ Receives(ClearAccept(Now, m))
       \/ Receives(AcceptFailed(Now, m))
    /\ UNCHANGED work

\* Requests of the Brew entity, the operator and call control.  Call control
\* reads its commands in its own tick, after MM's, with nothing under way.
\* all_clients_with_handle: those whose last location update came with a handle
RxBrewReconnected == Spend("reconnects") /\
    \E ms \in SUBSET {m \in Terminals : clients[m] # None} :
        Receives(OverTerminals(ReconnectClient, Now, ms))
RxCarrierInhibit == Spend("inhibits") /\
    \E on \in BOOLEAN : Receives(InhibitRequest(Now, on))
KickMs == Spend("kicks") /\ queue = <<>> /\
    \E m \in cmce.known : Receives(KickClient(KickListener(Now, m), m))

\* The next handler's updates reach call control and the Brew entity.
Deliver ==
    /\ queue # <<>>
    /\ Commit(DeliverAll(Now, Head(queue)))
    /\ queue' = Tail(queue)
    /\ burst' = IF queue' = <<>> THEN 0 ELSE burst
    /\ UNCHANGED <<writable, work>>

Tick ==
    /\ queue = <<>>
    /\ Handled(TickStart(Now))
    /\ UNCHANGED <<writable, work>>

\* The process stops at any point and starts again; the file survives.
Crash ==
    /\ Spend("crashes")
    /\ Commit(Started(file))
    /\ queue' = <<>> /\ burst' = 0
    /\ UNCHANGED writable

DiskChanges ==
    /\ Spend("disk")
    /\ writable' = ~writable
    /\ Commit(Now)
    /\ UNCHANGED <<queue, burst>>

Next ==
    \/ RxLocationUpdate \/ RxItsiDetach \/ RxAttachDetach \/ RxAcknowledgement
    \/ RxStatus \/ RxReport \/ RxBrewReconnected \/ RxCarrierInhibit \/ KickMs
    \/ Deliver \/ Tick \/ Crash \/ DiskChanges

\* The router ticks every entity and delivers every message for ever: weak
\* fairness of Tick and Deliver, written out.
Idle == queue = <<>> /\ TickStart(Now) = Now
Fairness ==
    /\ []<>(queue # <<>>) \/ []<>Idle \/ []<><<Tick>>_vars
    /\ []<>(queue = <<>>) \/ []<><<Deliver>>_vars

Spec == Init /\ [][Next]_vars /\ Fairness

-----------------------------------------------------------------------------
(* Properties *)

\* The types of the pending transactions: a timer that has run out is gone when
\* no handler is running.
GroupTransactions == [groups : SUBSET Groups, remaining : SUBSET Groups, left : 1 .. T353]
EnergyOffers == [mode : Modes, left : 1 .. T352, previous : Modes]
RecoveryProbes == [attempts : 0 .. MaxAttempts, due : Int]

\* The accepts that wait for their report, at most one for a terminal
CriticalDownlinks == SUBSET Terminals

Entries == [Terminals -> SUBSET Groups \cup {None}]
Updates == [issi : Terminals, groups : SUBSET Groups,
            action : {"Register", "Deregister", "Affiliate", "Deaffiliate",
                      "ReleaseIndividualCalls"}]

\* Every table has its type; no timer is left to run below its end, so that
\* each one is looked at in the tick it ends (tick_start).
TypeOK ==
    /\ \A m \in Terminals :
        /\ clients[m] \in Clients \cup {None}
        /\ swmi[m] \in GroupTransactions \cup {None}
        /\ offers[m] \in EnergyOffers \cup {None}
        /\ reports[m] \in {None} \cup 1 .. ReportWindow
        /\ probes[m] \in RecoveryProbes \cup {None}
    /\ accepts \in CriticalDownlinks /\ wiped \subseteq Terminals
    /\ energy \in [Terminals -> Modes] /\ brew \in [Terminals -> SUBSET BrewGroups]
    /\ cache.entries \in Entries /\ cache.dirty \in BOOLEAN /\ file \in Entries
    /\ registry \in Registries
    /\ cmce.known \subseteq Terminals /\ cmce.groups \in [Terminals -> SUBSET Groups]
    /\ \A i \in DOMAIN queue : \A j \in DOMAIN queue[i] : queue[i][j] \in Updates
    /\ carrier.inhibited \in BOOLEAN /\ carrier.guard \in {None} \cup 1 .. InhibitGuard

\* The shared registry's three tables agree whatever MM and call control both
\* write to it (SubscriberRegistry), and the listeners call control counts are
\* the terminals it holds in the group: no update lost or counted twice leaves
\* a group with a wrong number of listeners.
ListenersCounted ==
    /\ Indexed(registry)
    /\ \A g \in Groups :
        cmce.listeners[g] = Cardinality({m \in Terminals : g \in cmce.groups[m]})

\* Once every update is delivered, MM, the shared registry, call control and
\* the Brew entity hold the same groups for every terminal, in whatever order
\* requests, expiries, kicks and the late updates themselves came.  The
\* exception is a terminal whose registration MM refreshed while its command
\* was pending: register() empties its entry, and not every update that follows
\* fills it again (rx_u_location_update_demand).
ViewsAgree ==
    queue = <<>> => \A m \in Terminals \ wiped :
        /\ registry.attached[m] = GroupsOf(Now, m)
        /\ cmce.groups[m] = GroupsOf(Now, m)
        /\ brew[m] = GroupsOf(Now, m) \cap BrewGroups
        /\ m \in cmce.known => IsRegistered(registry, m)

\* A terminal MM does not know has no transaction, no pending accept, no
\* energy assignment and, once the updates are delivered, no registration: no
\* path that removes a client forgets one of its tables, and no late message
\* brings one back.
NothingLeftBehind ==
    \A m \in Terminals : clients[m] = None =>
        /\ swmi[m] = None /\ offers[m] = None /\ m \notin accepts
        /\ energy[m] = "StayAlive"
        /\ queue = <<>> => ~IsRegistered(registry, m) /\ m \notin cmce.known

\* The scheduler's energy assignment of a terminal is the one MM records for
\* it, also while an offer is pending, refused, expired or overtaken.
EnergyAgrees ==
    \A m \in Terminals : clients[m] # None => clients[m].mode = energy[m]

\* A crash at any point loses no group of a registered terminal on the whitelist
\* of the configuration, nor one whose refresh is still to come: the cache on
\* disk holds them all, when writing it did not fail; and whenever the cache is
\* not dirty the file is the cache.  The groups of a terminal that only the
\* dashboard's list admits are not cached (restart_recovery_eligible).
GroupsSurviveCrash ==
    /\ ~cache.dirty => file = cache.entries
    /\ \A m \in Terminals : clients[m] # None /\ Eligible(m) /\ work.reliable =>
        LET held == GroupsOf(Now, m) \cup
                    (IF swmi[m] = None THEN {} ELSE swmi[m].groups \cup swmi[m].remaining)
        IN  held # {} => file[m] # None /\ held \subseteq file[m]

\* From the request to inhibit the carrier on, no terminal is registered,
\* whatever it sends during the guard and after it.
InhibitEmpties ==
    ShuttingDown(Now) => \A m \in Terminals : clients[m] = None

\* Without a request of the terminal, the operator or call control, no terminal
\* is removed, and the only groups it loses are those of a refresh that it
\* refuses or that T353 ends: the watchdog, the failed accept and the recovery
\* after a restart all fail soft.
FailsSoft ==
    [][work' = work => \A m \in Terminals : clients[m] # None =>
        /\ clients'[m] # None
        /\ GroupsOf(Now, m) \ clients'[m].groups \subseteq
                IF swmi[m] = None THEN {} ELSE swmi[m].groups]_vars

\* Every transaction ends: a refresh, an energy offer, a commanded terminal's
\* grace and every restart probe is confirmed, given up or overtaken.
Settles ==
    \A m \in Terminals :
        /\ []<>(swmi[m] = None) /\ []<>(offers[m] = None) /\ []<>(probes[m] = None)
        /\ work.period # 0 => []<>(clients[m] = None \/ ~clients[m].commanded)

\* MM, the registry, call control, the scheduler and Brew agree on who is registered, in
\* which groups and with which energy mode, and nothing is left of who is gone.
TablesAgree ==
    /\ TypeOK
    /\ ListenersCounted
    /\ ViewsAgree
    /\ NothingLeftBehind
    /\ EnergyAgrees
    /\ InhibitEmpties
=============================================================================

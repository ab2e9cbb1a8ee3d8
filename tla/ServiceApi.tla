------------------------------ MODULE ServiceApi ------------------------------
(***************************************************************************)
(* StunDeck's control plane for services: the HTTP handlers and the        *)
(* mapping goroutine of internal/httpapi/services.go, the boot goroutine   *)
(* restoreServices of cmd/stundeck/main.go, shutdown, and crashes, on top  *)
(* of the process supervisor (module Engine).                              *)
(*                                                                         *)
(* Every handler holds Server.serviceMu from its first to its last step,   *)
(* which is what the single thread "api" stands for: a handler begins when *)
(* that thread is idle.  Checks that make a handler answer with an error   *)
(* and no effect are the guards of its first step.                         *)
(***************************************************************************)
EXTENDS Engine

CONSTANTS
    Modes,         \* publish modes that occur
    GatewayModes,  \* gateway modes that occur
    MaxBoots       \* bound: starts of the program

ASSUME ModeAssumption ==
    /\ Modes \subseteq PublishModes
    /\ GatewayModes \subseteq AllGatewayModes
    /\ MaxBoots \in Nat

VARIABLES
    callbacks,  \* goroutines natmapEvent spawned, waiting for serviceMu
    boot,       \* restoreServices: "sleeping", then "restoring"
    snap, todo, \* its copies of the enabled rows and those still to start
    up,         \* "up", or "stopping" once a signal has been received
    boots       \* starts of the program so far

apiVars == <<callbacks, boot, snap, todo, up, boots>>

vars == <<engineVars, apiVars>>

Inputs == {ServiceFromRequest(m, g) : m \in Modes, g \in GatewayModes}

Callbacks == [svc : Services, mapping : Mappings]

TypeOK ==
    /\ EngineTypeOK
    /\ callbacks \subseteq Callbacks
    /\ boot \in {"sleeping", "restoring"}
    /\ snap \in [Services -> Row]
    /\ todo \subseteq Services
    /\ up \in {"up", "stopping"}
    /\ boots \in Nat

Init ==
    /\ EngineInit
    /\ callbacks = {}
    /\ boot = "sleeping"
    /\ snap = [s \in Services |-> UnbornRow]
    /\ todo = {}
    /\ up = "up"
    /\ boots = 1

-------------------------------------------------------------------------------
(* Handlers *)

BeginHandler(s, pc, copy) ==
    th' = [th EXCEPT !["api"] =
             [Idle EXCEPT !.pc = pc, !.svc = s, !.copy = copy]]

\* Resource rows are looked up under the connection the row names.
OwnsResources(s) == owned[s] /\ UsesCloudflareAccount(rows[s])

HandleCreate(s, input) ==
    /\ At("api", "idle")
    /\ rows[s].life = "unborn"
    /\ rows' = [rows EXCEPT ![s] = CreateService(input)]
    /\ UNCHANGED <<owned, processes, proc, th, mu, pmu, router, loops, doomed>>
    /\ UNCHANGED apiVars

\* updateService up to the last check: the service does not run, and its
\* publication stays the same while it owns Cloudflare resources.
HandleUpdate(s, input) ==
    /\ At("api", "idle")
    /\ Live(rows[s])
    /\ mu = None
    /\ ~Running(s)
    /\ OwnsResources(s) => input.mode = rows[s].mode
    /\ BeginHandler(s, "update", Config(input))
    /\ UNCHANGED <<rows, owned, processes, proc, mu, pmu, router, loops, doomed>>
    /\ UNCHANGED apiVars

UpdateWrite ==
    /\ At("api", "update")
    /\ rows' = [rows EXCEPT ![th["api"].svc] = UpdateService(@, th["api"].copy)]
    /\ Return("api")
    /\ UNCHANGED <<owned, processes, proc, mu, pmu, router, loops, doomed>>
    /\ UNCHANGED apiVars

HandleDelete(s) ==
    /\ At("api", "idle")
    /\ mu = None
    /\ ~Running(s)
    /\ Live(rows[s])
    /\ ~OwnsResources(s)
    /\ BeginHandler(s, "delete", UnbornRow)
    /\ UNCHANGED <<rows, owned, processes, proc, mu, pmu, router, loops, doomed>>
    /\ UNCHANGED apiVars

DeleteWrite ==
    /\ At("api", "delete")
    /\ rows' = [rows EXCEPT ![th["api"].svc] = DeleteService(@)]
    /\ Return("api")
    /\ UNCHANGED <<owned, processes, proc, mu, pmu, router, loops, doomed>>
    /\ UNCHANGED apiVars

HandleStart(s) ==
    /\ At("api", "idle")
    /\ Live(rows[s])
    /\ BeginHandler(s, "validate", Config(rows[s]))
    /\ UNCHANGED <<rows, owned, processes, proc, mu, pmu, router, loops, doomed>>
    /\ UNCHANGED apiVars

\* startService gives up on a failed start; restoreServices keeps it enabled.
StartFails(t) ==
    /\ At(t, "startfail")
    /\ \/ t = "api" /\ CallerWrite(th[t].svc, "error", FALSE)
       \/ t = "restore" /\ rows' = Runtime(th[t].svc, "error", TRUE)
    /\ Return(t)
    /\ UNCHANGED <<owned, processes, proc, mu, pmu, router, loops, doomed>>
    /\ UNCHANGED apiVars

HandleStop(s) == Stop(s) /\ UNCHANGED apiVars

\* syncService; syncCloudflare refuses modes without an account and services
\* that need a mapping but are not enabled.
HandleSync(s) ==
    /\ At("api", "idle")
    /\ Live(rows[s])
    /\ UsesCloudflareAccount(rows[s])
    /\ UsesConnector(rows[s]) \/ rows[s].enabled
    /\ BeginHandler(s, "sync", rows[s])
    /\ UNCHANGED <<rows, owned, processes, proc, mu, pmu, router, loops, doomed>>
    /\ UNCHANGED apiVars

\* What the caller does with an error of syncCloudflare: syncService reports
\* it, the mapping goroutine writes sync_error.
SyncError ==
    IF th["api"].mapping = None THEN Return("api") ELSE Goto("api", "syncerr")

\* syncCloudflare's own check of enabled cannot fail: its callers have looked,
\* and only holders of serviceMu switch a service off.
SyncLock ==
    /\ At("api", "sync")
    /\ UsesConnector(th["api"].copy) \/ th["api"].copy.enabled
    /\ pmu = None
    /\ pmu' = "api"
    /\ Goto("api", "syncing")
    /\ UNCHANGED <<rows, owned, processes, proc, mu, router, loops, doomed>>
    /\ UNCHANGED apiVars

\* Publisher.Sync: a service without a public mapping has nothing to publish;
\* a failure may come after the first resource was recorded.
SyncCall ==
    LET c == th["api"].copy  s == th["api"].svc IN
    /\ At("api", "syncing")
    /\ pmu' = None
    /\ \/ /\ UsesConnector(c) \/ c.mapping # None
          /\ owned' = [owned EXCEPT ![s] = TRUE]
          /\ Goto("api", "syncwrite")
       \/ /\ owned' \in {owned, [owned EXCEPT ![s] = TRUE]}
          /\ SyncError
    /\ UNCHANGED <<rows, processes, proc, mu, router, loops, doomed>>
    /\ UNCHANGED apiVars

\* The status and enabled columns are written back from the handler's copy.
SyncWrite ==
    LET c == th["api"].copy
        status == IF ~UsesConnector(c) /\ c.enabled THEN "healthy" ELSE c.status
    IN
    /\ At("api", "syncwrite")
    /\ \/ rows' = Runtime(th["api"].svc, status, c.enabled) /\ Return("api")
       \/ UNCHANGED rows /\ SyncError
    /\ UNCHANGED <<owned, processes, proc, mu, pmu, router, loops, doomed>>
    /\ UNCHANGED apiVars

SyncErrorWrite ==
    /\ At("api", "syncerr")
    /\ CallerWrite(th["api"].svc, "sync_error", TRUE)
    /\ Return("api")
    /\ UNCHANGED <<owned, processes, proc, mu, pmu, router, loops, doomed>>
    /\ UNCHANGED apiVars

HandleCleanup(s) ==
    /\ At("api", "idle")
    /\ Live(rows[s])
    /\ UsesCloudflareAccount(rows[s])
    /\ mu = None
    /\ ~Running(s)
    /\ ~rows[s].enabled
    /\ BeginHandler(s, "cleanup", UnbornRow)
    /\ UNCHANGED <<rows, owned, processes, proc, mu, pmu, router, loops, doomed>>
    /\ UNCHANGED apiVars

CleanupLock ==
    /\ At("api", "cleanup")
    /\ pmu = None
    /\ pmu' = "api"
    /\ Goto("api", "cleaning")
    /\ UNCHANGED <<rows, owned, processes, proc, mu, router, loops, doomed>>
    /\ UNCHANGED apiVars

\* The resource rows go last; any failure keeps them.
CleanupCall ==
    /\ At("api", "cleaning")
    /\ pmu' = None
    /\ owned' \in {owned, [owned EXCEPT ![th["api"].svc] = FALSE]}
    /\ Return("api")
    /\ UNCHANGED <<rows, processes, proc, mu, router, loops, doomed>>
    /\ UNCHANGED apiVars

-------------------------------------------------------------------------------
(* Mapping announcements *)

\* stundeck-notify posts an announcement of the NATMap process p; natmapEvent
\* spawns a goroutine for it.  The announcement does not name the process.
NatmapEvent(p, m) ==
    LET s == proc[p].svc
        pending == Cardinality({c \in callbacks : c.svc = s})
                   + IF At("api", "idle") THEN 0 ELSE 1
    IN
    /\ proc[p].state = "running"
    /\ proc[p].kind = "natmap"
    /\ Live(rows[s])
    /\ \A q \in Pids : proc[q].svc = s /\ ~Free(q)
                         => proc[q].gen + pending < MaxGeneration
    /\ callbacks' = callbacks \cup {[svc |-> s, mapping |-> m]}
    /\ UNCHANGED engineVars
    /\ UNCHANGED <<boot, snap, todo, up, boots>>

\* Faulty variant of HandleMapping: an announcement that is not wanted is tried
\* again.
HandleMappingRetries(c) ==
    LET row == rows[c.svc] IN
    /\ At("api", "idle")
    /\ c \in callbacks
    /\ mu = None
    /\ Live(row) /\ row.enabled /\ ~UsesConnector(row) /\ Running(c.svc)
    /\ callbacks' = callbacks \ {c}
    /\ th' = [th EXCEPT !["api"] = [Idle EXCEPT !.pc = "mapping", !.svc = c.svc,
                                               !.mapping = c.mapping]]
    /\ UNCHANGED <<rows, owned, processes, proc, mu, pmu, router, loops, doomed>>
    /\ UNCHANGED <<boot, snap, todo, up, boots>>

\* handleMapping gets serviceMu and checks that the service still wants it.
HandleMapping(c) ==
    LET row == rows[c.svc] IN
    /\ At("api", "idle")
    /\ c \in callbacks
    /\ mu = None
    /\ callbacks' = callbacks \ {c}
    /\ IF Live(row) /\ row.enabled /\ ~UsesConnector(row) /\ Running(c.svc)
       THEN th' = [th EXCEPT !["api"] = [Idle EXCEPT !.pc = "mapping",
                                         !.svc = c.svc, !.mapping = c.mapping]]
       ELSE UNCHANGED th
    /\ UNCHANGED <<rows, owned, processes, proc, mu, pmu, router, loops, doomed>>
    /\ UNCHANGED <<boot, snap, todo, up, boots>>

\* SetServiceMapping, the second read of the row, and the choice of what comes
\* next.  When the deadline has passed nothing is saved and the goroutine ends.
SaveMapping ==
    LET s == th["api"].svc
        row == SetServiceMapping(rows[s], th["api"].mapping)
    IN
    /\ At("api", "mapping")
    /\ \/ /\ rows' = [rows EXCEPT ![s] = row]
          /\ IF row.gw = "none" /\ row.mode = "direct" THEN Return("api")
             ELSE th' = [th EXCEPT !["api"].copy = row,
                                   !["api"].pc = IF row.gw = "none" THEN "sync"
                                                 ELSE "gwadd"]
       \/ Return("api") /\ UNCHANGED rows
    /\ UNCHANGED <<owned, processes, proc, mu, pmu, router, loops, doomed>>
    /\ UNCHANGED apiVars

-------------------------------------------------------------------------------
(* Boot, shutdown, crash *)

\* Faulty variant of RestoreSnapshot: services whose last run ended with an error
\* are passed over.
RestoreSnapshotOfHealthy ==
    LET enabled == {s \in Services : /\ up = "up" /\ rows[s].enabled
                                     /\ rows[s].status # "error"} IN
    /\ boot = "sleeping"
    /\ boot' = "restoring"
    /\ todo' = enabled
    /\ snap' = [s \in Services |-> IF s \in enabled THEN Config(rows[s])
                                   ELSE UnbornRow]
    /\ UNCHANGED engineVars
    /\ UNCHANGED <<callbacks, up, boots>>

\* restoreServices copies the enabled rows once; a cancelled context makes the
\* read fail and the goroutine ends.
RestoreSnapshot ==
    LET enabled == IF up = "up"
                   THEN {s \in Services : Live(rows[s]) /\ rows[s].enabled}
                   ELSE {}
    IN
    /\ boot = "sleeping"
    /\ boot' = "restoring"
    /\ todo' = enabled
    /\ snap' = [s \in Services |-> IF s \in enabled THEN Config(rows[s])
                                   ELSE UnbornRow]
    /\ UNCHANGED engineVars
    /\ UNCHANGED <<callbacks, up, boots>>

RestoreNext(s) ==
    /\ At("restore", "idle")
    /\ s \in todo
    /\ todo' = todo \ {s}
    /\ snap' = [snap EXCEPT ![s] = UnbornRow]
    /\ th' = [th EXCEPT !["restore"] =
                [Idle EXCEPT !.pc = "validate", !.svc = s, !.copy = snap[s]]]
    /\ UNCHANGED <<rows, owned, processes, proc, mu, pmu, router, loops, doomed>>
    /\ UNCHANGED <<callbacks, boot, up, boots>>

\* main receives a signal.  Handlers go on until the listener has shut down.
Shutdown ==
    /\ up = "up"
    /\ up' = "stopping"
    /\ StopAll
    /\ UNCHANGED <<callbacks, boot, snap, todo, boots>>

\* The program ends, by its shutdown or by a crash, and is started again.  The
\* tables and the gateway keep what they hold.
Restart ==
    /\ boots < MaxBoots
    /\ boots' = boots + 1
    /\ processes' = [s \in Services |-> None]
    /\ proc' = [p \in Pids |-> IF proc[p].state = "unused" THEN Unused
                               ELSE [Unused EXCEPT !.state = "lost"]]
    /\ th' = [t \in Threads |-> Idle]
    /\ mu' = None
    /\ pmu' = None
    /\ loops' = {}
    /\ doomed' = {}
    /\ callbacks' = {}
    /\ boot' = "sleeping"
    /\ snap' = [s \in Services |-> UnbornRow]
    /\ todo' = {}
    /\ up' = "up"
    /\ UNCHANGED <<rows, owned, router>>

-------------------------------------------------------------------------------

\* One step of a call in progress on thread t.
StartStep(t) ==
    /\ \/ ValidateTarget(t)
       \/ AlreadyRunning(t)
       \/ SpawnFails(t)
       \/ \E p \in Pids : StartNatmap(t, p)
       \/ StartNatmapWrite(t)
       \/ \E p \in Pids : StartQuickTunnel(t, p)
       \/ StartTunnelLock(t)
       \/ TunnelTokenCall(t)
       \/ TunnelTokenFails(t)
       \/ \E p \in Pids : StartTunnel(t, p)
    /\ UNCHANGED apiVars

GatewayStep ==
    /\ \/ StopRemovesGateway
       \/ GatewayAdd
       \/ GatewayInsertRule
       \/ GatewayRecord
       \/ GatewayUndo
       \/ RemovePreviousGateway
       \/ GatewayReady
       \/ GatewayFails
    /\ UNCHANGED apiVars

HandlerStep ==
    \/ UpdateWrite \/ DeleteWrite
    \/ SyncLock \/ SyncCall \/ SyncWrite \/ SyncErrorWrite
    \/ CleanupLock \/ CleanupCall
    \/ SaveMapping

BeginRequest(s) ==
    \/ \E input \in Inputs : HandleCreate(s, input) \/ HandleUpdate(s, input)
    \/ HandleDelete(s)
    \/ HandleStart(s)
    \/ HandleStop(s)
    \/ HandleSync(s)
    \/ HandleCleanup(s)

ProcessStep(p) ==
    /\ \/ ProcessExits(p)
       \/ QuickTunnelURL(p)
       \/ WaitReturns(p)
       \/ WaitRemovesGateway(p)
       \/ StopAllCancels(p)
    /\ UNCHANGED apiVars

LoopStep(l) ==
    /\ \/ LoopEnds(l)
       \/ LoopTicks(l)
       \/ RenewNATPMP(l)
       \/ ReassertPrunes(l)
       \/ ReassertInserts(l)
       \/ LoopFails(l)
    /\ UNCHANGED apiVars

Next ==
    \/ \E t \in Threads : StartStep(t) \/ StartFails(t)
    \/ GatewayStep
    \/ HandlerStep
    \/ \E s \in Services : BeginRequest(s) \/ RestoreNext(s)
    \/ \E p \in Pids : ProcessStep(p)
    \/ \E p \in Pids, m \in Mappings : NatmapEvent(p, m)
    \/ \E c \in callbacks : HandleMapping(c)
    \/ \E l \in loops : LoopStep(l)
    \/ FirewallReload /\ UNCHANGED apiVars
    \/ RestoreSnapshot
    \/ Shutdown
    \/ Restart

Spec == Init /\ [][Next]_vars

-------------------------------------------------------------------------------
(* Safety *)

Registered(p) == \E s \in Services : processes[s] = p

\* Every connector that runs and has not been cancelled is in Manager.processes
\* under its service (or StopAll is about to cancel it): no interleaving of
\* starts, stops, exits and the restore goroutine leaves a connector nobody can
\* stop.  As the map holds one process per service, a service never has two.
EveryConnectorManaged ==
    \A p \in Pids :
        proc[p].state = "running" /\ ~proc[p].cancelled
            => p \in doomed \/ processes[proc[p].svc] = p

\* Connectors that run and that nobody has decided to end.
Serving(p) ==
    proc[p].state = "running" /\ ~proc[p].cancelled /\ p \notin doomed

Supervision == INSTANCE ConnectorContract WITH
    Connectors <- Pids,
    listed <- {s \in Services : Running(s)},
    serves <- [p \in Pids |-> IF Serving(p) THEN proc[p].svc ELSE None]

\* What a handler reads off the process map can be relied on, step by step: a
\* service gets a connector only when it is not listed and has none, the two come
\* together, and a service leaves the list with its connector or after its end.
\* No interleaving of starts, stops, exits, the restore goroutine, shutdown and
\* restart does anything else.
KeepsConnectorContract == Supervision!Spec

\* Every entry of Manager.processes is a live context and will be removed when
\* its process ends: a goroutine waits for the process, or the starting thread
\* has yet to spawn it.  An entry without a waiter would answer "running" for
\* ever, and updateService and deleteService would refuse the service.
EveryEntryWatched ==
    \A s \in Services : Running(s) =>
        LET p == processes[s] IN
        /\ proc[p].svc = s
        /\ ~proc[p].cancelled
        /\ \/ proc[p].wait = "waiting"
           \/ proc[p].wait = "unspawned"
              /\ \E t \in Threads : th[t].pc = "discovering" /\ th[t].pid = p

\* The runtime_url of a row was announced by the process registered for the
\* service: a URL of a stopped or dead quick tunnel of this run of the program
\* is never shown.  (StopAll leaves the URL in the table on purpose, with the
\* services still enabled.)
UrlIsOfRegisteredProcess ==
    up = "up" => \A s \in Services :
        LET p == rows[s].url IN
        p # None /\ proc[p].state # "lost" => processes[s] = p

\* The gateway mapping recorded on a process does not change any more once the
\* process is out of the map (until its identity is used for another one, or
\* the program ends and forgets every record): Stop, StopAll and wait read it
\* after they have released Manager.mu, and rely on this to remove the right
\* entry.
RecordFrozenAfterRemoval ==
    [][\A p \in Pids : proc[p].gw # proc'[p].gw /\ boots' = boots
           => Registered(p) \/ Free(p)]_vars

\* Who still answers for an entry of the gateway: the record of a registered
\* process, somebody who is about to remove the record's entry, or the apply
\* call in progress.
EntryAnsweredFor(e) ==
    \/ \E p \in Pids :
        /\ proc[p].gw # None
        /\ GatewayEntry(proc[p].gw) = e
        /\ \/ Registered(p)
           \/ proc[p].wait = "cleanup"
           \/ At("api", "stopgw") /\ th["api"].pid = p
           \/ p \in doomed
    \/ /\ th["api"].pc \in {"gwrecord", "gwundo"}
       /\ GatewayEntry(ApplyState) = e
    \/ At("api", "gwprev") /\ GatewayEntry(th["api"].gw) = e

\* StunDeck leaves nothing behind on the gateway: every entry it added is one
\* somebody will remove when the service stops.
GatewayEntriesAnsweredFor == \A e \in router : EntryAnsweredFor(e)

\* A lease or rule recorded on a registered process is kept alive, once the
\* handler that recorded it is done, by exactly one goroutine of the announcement
\* that counts: failures do not end that goroutine, and what would replace it
\* (a further announcement) starts another.
RecordKeptAlive ==
    \A s \in Services :
        LET p == processes[s] IN
        Running(s) /\ proc[p].gw # None /\ proc[p].gw.mode \in {"natpmp", "fw4"}
            /\ (th["api"].svc = s => At("api", "mapping"))
            => Cardinality({l \in loops : /\ l.pid = p
                                          /\ l.gw = proc[p].gw
                                          /\ l.gen = proc[p].gen}) = 1

\* A service that is switched off and has no process comes back on only through
\* a start: some thread is starting it.  A stop is not undone by goroutines
\* that outlive it.
StoppedStaysOff ==
    [][\A s \in Services :
         ~rows[s].enabled /\ ~Running(s) /\ rows'[s].enabled
             => \E t \in Threads : th[t].svc = s]_vars

\* A service whose row says tunnel_running has its connector process in the
\* map, or the program has not come to restoring it, or it is being started.
TunnelRunningHasProcess ==
    \A s \in Services :
        boot = "restoring" /\ up = "up" /\ Live(rows[s])
            /\ rows[s].status = "tunnel_running"
            => \/ Running(s)
               \/ s \in todo
               \/ \E t \in Threads : th[t].svc = s

\* No connector runs for a service that has been deleted, except while its
\* start or its stop is in progress, or the program is shutting down.
DeletedServiceHasNoConnector ==
    up = "up" => \A s \in Services : rows[s].life = "deleted" =>
        \/ ~Running(s)
        \/ \E t \in Threads : th[t].svc = s

\* While a service is reported as gateway_mapped and nobody is working on it,
\* the entry recorded on its process is on the gateway.  (At shutdown entries
\* go first.)
MappedServiceHasEntry ==
    up = "up" => \A s \in Services :
        /\ Running(s)
        /\ rows[s].status = "gateway_mapped"
        /\ \A t \in Threads : th[t].svc # s
        => LET g == proc[processes[s]].gw IN
           g # None => GatewayEntry(g) \in router

-------------------------------------------------------------------------------
(* Fairness.  A call in progress goes on: every network call has a time limit  *)
(* and a goroutine that waits for a sync.Mutex gets it even when others take   *)
(* the lock again and again (starvation mode), hence strong fairness for the   *)
(* steps that take a lock.  A cancelled child is killed.  Nothing is assumed   *)
(* of clients, signals, crashes, or children that exit or announce something.  *)

CallStep(t) ==
    \/ StartStep(t) \/ StartFails(t)
    \/ t = "api" /\ (GatewayStep \/ HandlerStep)

Kill(p) == proc[p].cancelled /\ ProcessExits(p) /\ UNCHANGED apiVars

Wait(p) == (WaitReturns(p) \/ WaitRemovesGateway(p)) /\ UNCHANGED apiVars

RefreshLoop(p, gen) ==
    \E l \in loops : l.pid = p /\ l.gen = gen /\ LoopStep(l)

Fairness ==
    /\ \A t \in Threads : SF_vars(CallStep(t))
    /\ WF_vars(RestoreSnapshot)
    /\ WF_vars(\E s \in Services : RestoreNext(s))
    /\ \A c \in Callbacks : SF_vars(HandleMapping(c))
    /\ \A p \in Pids :
        /\ WF_vars(Kill(p))
        /\ SF_vars(Wait(p))
        /\ WF_vars(StopAllCancels(p) /\ UNCHANGED apiVars)
        /\ \A gen \in 1..MaxGeneration : SF_vars(RefreshLoop(p, gen))

FairSpec == Spec /\ Fairness

\* Every call comes to an end: no request, mapping goroutine or restore step
\* waits for ever for serviceMu, Manager.mu or Publisher.mu.
CallsFinish == \A t \in Threads : ~At(t, "idle") ~> At(t, "idle")

\* The restore goroutine has had an error from its own start of the service, and is
\* about to write it.
RestoreFailed(s) == At("restore", "startfail") /\ th["restore"].svc = s

\* A service that is enabled when the program starts, whatever its last status was
\* (also "error", which an exit before the restart has left), is running at some
\* time later, or this start of it has failed, or it was switched off, deleted, or
\* the program received a signal.  Nobody is promised more after a crash than what
\* the next start of the program does.
EnabledServicesRestored ==
    \A s \in Services :
        boot = "sleeping" /\ Live(rows[s]) /\ rows[s].enabled
            ~> \/ Running(s)
               \/ RestoreFailed(s)
               \/ ~Live(rows[s]) \/ ~rows[s].enabled
               \/ up = "stopping"

\* The end of a connector is noticed: its entry does not stay in the map.
ExitsNoticed ==
    \A p \in Pids : proc[p].state = "exited" ~> ~Registered(p)

\* An announcement that natmapEvent accepted is handled in the end.
AnnouncementsHandled ==
    \A c \in Callbacks : c \in callbacks ~> c \notin callbacks

\* A recorded fw4 rule that a firewall reload has dropped is put back while the
\* service runs with it.
RulesReasserted ==
    \A s \in Services, g \in {h \in Gateways : h.mode = "fw4"} :
        Running(s) /\ proc[processes[s]].gw = g
            ~> \/ GatewayEntry(g) \in router
               \/ ~Running(s)
               \/ proc[processes[s]].gw # g
===============================================================================

# StunDeck in TLA+

StunDeck publishes services of a home network. It supervises NATMap and
cloudflared child processes, opens ports on the router, publishes names at
Cloudflare and reports events to webhooks. This directory holds a formal model
of it: modules translated from the Go source, TLC configurations that check
them on small instances, and proofs that TLAPS checks for every instance.

    tlc -config Connectors.cfg MCServiceApi.tla
    tlc -config Webhooks.cfg MCWebhookDispatcher.tla
    tlc -config Publisher.cfg MCCloudflarePublisher.tla
    tlc -config Login.cfg MCAuthentication.tla
    tlapm ServiceApiProofs.tla
    tlapm CloudflareConnectionsProofs.tla

(The table of section 3 names the module and the configuration of every run; every module
whose name ends in `Proofs` is for `tlapm`.)

`PROJECT.json` names the components, the runs, the source lines of every
definition ("map"), the hazards the properties are for, and the theorems.

## 1. Inventory

| component | source | state it keeps | operations |
|---|---|---|---|
| service handlers, mapping callbacks | `internal/httpapi/services.go`, `cloudflare_features.go` | `serviceMu` | create, update, delete, start, stop, sync, cleanup, `natmapEvent`, `handleMapping` |
| services table | `internal/store/services.go` | a row per service: configuration, `enabled`, status, mapping, `runtime_url` | the UPDATE, INSERT and DELETE statements |
| process supervisor | `internal/engine/natmap.go`, `tunnel.go`, `quick_tunnel.go` | `Manager.processes` under `Manager.mu`, the child processes, one waiter each | `Start`, `Stop`, `StopAll`, `wait`, the quick tunnel's output |
| gateway mappings | `internal/engine/gateway.go`, `firewall.go` | the mapping recorded on a process, its generation, the renewal goroutines; the entries on the router | `ApplyGatewayMapping`, `renewNATPMP`, `reassertFirewall`, removal |
| boot, restore, shutdown | `cmd/stundeck/main.go` | copies of the enabled rows | `restoreServices`, the signal, `StopAll` |
| Cloudflare publisher | `internal/cloudflare/publisher.go`, `reconciler.go`, `workers.go`, `private_network.go`, `internal/store/cloudflare_resources.go` | `Publisher.mu`, the ownership rows; the objects at Cloudflare | `Sync`, `TunnelToken`, `Cleanup` in six modes |
| Access policies | `internal/cloudflare/access.go` | an ownership row per host name | `SaveAccess`, `DeleteAccess` |
| webhook dispatcher | `internal/webhook/dispatcher.go`, `internal/store/webhooks.go`, `events.go` | events, endpoints, delivery rows, the batch of a tick | report, test, queue, deliver, retry, delete |
| authentication | `internal/httpapi/auth.go`, `security_settings.go`, `internal/store/auth.go` | users, sessions, the login limiter, requests with their copies | setup, login, logout, expiry, the switch of the second factor |
| access policy of the dashboard | `internal/httpapi/access.go`, `internal/store/settings.go` | the policy setting | the middleware's decision, setup, update |
| Cloudflare connections | `internal/store/cloudflare.go`, `internal/httpapi/cloudflare.go` | the connections table, beside services and ownership rows | create, change, delete; every handler that checks or uses a connection |
| token inspection | `internal/cloudflare/capabilities.go` | answers of nine reads | `Client.Inspect` and what it concludes |
| network diagnosis | `internal/engine/diagnostics.go` | the report, the probes in flight | four tasks, three STUN probes, the parser of their answers |
| master key | `internal/security/cipher.go` | `master.key`, on disk and in memory | load or create, crash, power failure |
| HTTP plumbing, configuration, callback program, web interface | the rest | none that other parts depend on | not modelled, see section 9 |

How they interact. A handler holds `serviceMu` from beginning to end. Inside, it
calls the manager, which takes `Manager.mu` for each look at its map, and the
publisher, which takes `Publisher.mu` for a whole call. `startTunnel` is the
exception of the manager: it keeps `Manager.mu` while the publisher talks to
Cloudflare. The boot goroutine calls the same `Manager.Start` without
`serviceMu`, on copies of rows. Children call back: `stundeck-notify` posts an
announcement, `natmapEvent` spawns a goroutine that queues for `serviceMu`. A
waiter goroutine per child removes it from the map and writes the row. All of
them report events, which the dispatcher delivers.

What is hard here, by component, and what makes it correct:

* Supervisor: a connector may die, be stopped, be restored and be started at the
  same time, and its exit is noticed later. Every running connector must be in
  the map (somebody can stop it), every entry of the map must have a waiter
  (somebody removes it), and what a dead process still has to say must not be
  written over its successor.
* Handlers and restore: locks held across network calls must be given back;
  decisions made on a copy of a row must still be right when they are written; a
  stop must stay a stop.
* Gateway: the record of an entry lives on a process that may end during the
  calls to the router. No entry may be forgotten, a lease must be renewed by one
  goroutine as long as it is recorded, a rule the firewall drops must come back.
* Publisher: a publication is many requests and few rows. Whatever breaks off,
  nothing may be forgotten at Cloudflare, nothing foreign touched, a retry must
  get through, and success must mean that everything, or nothing, is there.
* Webhooks: at-least-once delivery in the face of crashes, failing writes and
  endpoints that vanish; no second delivery after a recorded one; no starvation.
* Authentication: every request reads and writes at different moments. One setup
  wins, with its own policy; a session comes from credentials that were in force
  during the login; attempts at the same time do not get past the limiter.
* Access policy: the middleware reads twice, and the policy may change in between.
  Each answer has to be right at some moment of the request.
* Connections: they are counted, checked and written without a common lock.
  Whatever StunDeck owns at Cloudflare has to keep the token that can remove it.
* Token inspection: nine answers of different moments about a token that is being
  edited; a refusal, a missing resource and an outage look alike.
* Diagnosis: answers are lost, late, doubled or foreign; a wrong type is worse
  than none. The parser must stay in its datagram and end.
* Master key: two programs may start on an empty directory, and the program or
  the machine may fail between the file and its contents.

## 2. Modules

| module | models | lines of state |
|---|---|---|
| `ServiceStore` | the statements of `internal/store/services.go`, as operators on a row, and `serviceFromRequest` | none (pure) |
| `GatewayMapping` | which entry of the gateway a mapping stands for, and how entries are pruned and removed | none (pure) |
| `Engine` | `Manager`: start, stop, wait, StopAll, announcements' gateway calls, renewal goroutines | rows, owned, processes, proc, th, mu, pmu, router, loops, doomed |
| `ServiceApi` | handlers, callbacks, restore, shutdown, crash; composes `Engine` into the system | callbacks, boot, snap, todo, up, boots |
| `ConnectorContract` | abstract: what the supervisor promises the handlers | listed, serves |
| `PublisherContract` | abstract: what the publisher promises the handlers | mode, owned, busy, result |
| `CloudflarePublisher` | the publisher request by request; implements `PublisherContract` | mode, address, cloud, rows, call, result, lost, torn, edits |
| `WebhookDispatcher` | reporting, queue and dispatcher | hooks, events, rows, due, prod, batch, disp, ok, boots and history |
| `Authentication` | setup, login, sessions, second factor, limiter | admins, policy, sessions, attempts, requests and their copies |
| `AccessPolicy` | the middleware and the two writers of the policy | admin, policy, requests |
| `CloudflareConnections` | connections beside services, ownership rows and the restore | conns, services, enabled, owned, running, requests, jobs |
| `TokenInspection` | `Client.Inspect` on a token that may be edited | token, plan, answers |
| `NATDiscovery` | the network diagnosis over a lossy network | NAT, datagrams, probe, checks, report |
| `STUNResponse` | the parser of STUN answers | offset, candidate address |
| `MasterKey` | the key file | file, disk, programs |
| `...Proofs` | the theorems about the module of that name; `DiagnosticsProofs` is about `NATDiscovery` and `STUNResponse`, `SecurityProofs` about `AccessPolicy` and `MasterKey` | |
| `MC...` | symmetry sets, small instances and a state constraint for TLC | |

### Engine and ServiceApi

`th["api"]` is the handler or callback that holds `serviceMu`; there is at most
one, so a handler begins when that thread is idle. `th["restore"]` is the boot
goroutine. A thread record holds the program counter and the locals a call
carries across steps: the copy of the row, the mapping, the previous gateway
record. A step ends where another goroutine can act: at an unlock, a network
call, a write of the database. Checks that answer with an error and no effect
are guards of a handler's first step.

A critical section of `Manager.mu` is one step that waits for `mu = None`; `mu`
names a holder only from `StartTunnelLock` to `StartTunnel` or
`TunnelTokenFails`. `pmu` is `Publisher.mu`. `proc[p]` is a child process with
its `process` struct: life, cancellation, its waiter goroutine, gateway record
and generation. `doomed` holds the processes `StopAll` has taken from the map
and not yet cancelled. A child of an earlier start of the program is "lost": the
new run does not know it.

A write made with a request's context may be lost when the client has gone
(`CallerWrite`); writes of background goroutines are not. Restored services are
taken in any order. A read of the row and the `Running` check that follows it
are one step. The announcement of a child does not name the process, only the
service, as in the code. Pids are identities: one may be used again when nothing
refers to it, and when none is free a spawn fails, which is an outcome the code
handles. There is one Cloudflare connection and one router. An entry of the
router is keyed by its port for UPnP and NAT-PMP and by the service for fw4, as
its comment says. `pruneFirewallRules` and the insertion are separate steps.
`Restart` stands for an exit and for a crash.

What all this is for, seen from a handler, is `ConnectorContract`: a list of
services and the connectors that may carry traffic for them, with `Start`, `Exit`,
`Notice` and `Stop` as its only steps. `Supervision` is its instance in
`ServiceApi`. A process on `StopAll`'s list no longer serves, although it may run a
little longer than the start of a successor: shutdown does not promise more.

### CloudflarePublisher

`Publisher.mu` makes calls sequential, so `call` is the one under way; every
write at Cloudflare and every write of the table is a step. `Request` gives the
outcomes of a request that takes effect: answered, or with its answer lost;
`CallFails` is the one that has none. `cloud` is the set of objects: kind, identifier, mark and link. The mark
is "ours" when the code would recognise the object (comment of a record, name
of a tunnel, tag of a Worker, ref of a rule, host name of an application); the
link is what the object points to (public mapping, tunnel). Objects whose
identifier is a name derived from the service (`Derived`) can be found again;
the others only by their row, or not at all.

"dns" stands for "proxy" as well, and "redirect" for a redirect with managed DNS
and an origin name. `TunnelToken` is `Sync` with a read after it. Reads are
merged with the check they serve; foreign changes (`Edit`) happen between calls,
since Cloudflare has no conditional write. `lost`, `torn` and `edits` are
history variables of the properties: which objects a fault has cost their
identifier, whose removal is unfinished, and how often others interfered. A
service restored from a stale copy is the subject of `ServiceApi`, not of this
module.

`ServiceApi` knows of all this only `owned[s]`, that is, whether rows exist, and
that a failed call may or may not have made or removed them. That reduction is
`PublisherContract`, and `KeepsContract` checks that `CloudflarePublisher`
implements it (owned <- "the service has rows", busy <- the call under way);
`PublisherKeepsContract` proves it for every value of the constants.

### WebhookDispatcher

A delivery is named by its event and endpoint. Time is an order: `due` orders the
rows whose `next_attempt_at` has passed, oldest first, and a waiting row waits for
seconds ("normal") or a day ("daily"). A tick reads the `Oldest`. `Batch` stands for 20,
`NormalAttempts` for 10. `enabled` of a webhook is never cleared by the code and
left out. A delivery whose secret cannot be decrypted is a failed post.
`received`, `listed` and `aborted` are history variables.

### Authentication and AccessPolicy

A request is a goroutine and its steps are its statements: `SetupCheck` is
`HasAdmin`, `InitializeAdmin` the transaction after it; a login is the question
to the limiter, the read of the user, and the answer with what the limiter is
told. `user[r]` is the copy of the row that `login` works on, `seen[r]` a history
of the second factors in force since. Limiter and sessions end at times of their
own (`BlockEnds`, `SessionExpires`); a restart empties the limiter, not the
tables. `SetUserTOTP` is unconditional, as in `internal/store/auth.go:68`. A code
is named by the secret it was computed from; Argon2 and the TOTP arithmetic are
left out.

`AccessPolicy` has the middleware as the two reads it makes, on behalf of a
request that stands for its class of addresses, its host and its path. `Rules`
is what `docs/deployment.md` says, written as a reference apart from the code's
decision; `verdicts` collects what the rules said while the request was in the
middleware. `setup` and `updateAccessPolicy` write the policy that
`normalizeAccessPolicy` makes of a list.

### CloudflareConnections

Requests on connections take no lock, so a request is two steps: the read or the
count, and the write. `job["handler"]` is the handler that holds `serviceMu`,
`job["restore"]` the boot goroutine with its copies. `Starting` is `Manager.mu`
during a start, `Publishing` is `Publisher.mu`. A host name is its zone. The
ownership row has the foreign key to the connection: `DeleteConnection` fails
while one refers to it, `SaveResource` fails without a connection. A publication
is one row here; the requests it takes are `CloudflarePublisher`'s subject.

### TokenInspection

`ReadZone`, `ReadDetails`, `ReadProduct` and the two reads for Access are steps in
any order; `EditToken` and `EditPlan` come between any two of them. `May` says what
Cloudflare lets a token do, from its policies, owner and level, and `plan` which
products are activated. `Answers` is all that is assumed of a listing: it needs the
right to read; a refusal or a 404 means that this right or the product is missing,
without saying which (`capabilities.go:197`, `docs/cloudflare.md:54`); a product
that is not activated may also have an empty list, and any request may fail.
`writeEvidence` and `capability` are the code's conclusions from what was read.
`history` has the rights the token had and lacked, and what was not activated, at
any moment of the inspection.

### NATDiscovery and STUNResponse

The NAT is not the program: `Mapped` says what each of the four kinds makes of a
target. Datagrams in flight are sets: one that stays in the set after it was read
is a duplicate. `Deadline` is the read deadline of a probe, `ReadNoise` a datagram
that is no STUN message. `Classify` is the decision after an answer. The other
checks end by themselves; `Report` follows `wait.Wait`.

`STUNResponse` keeps positions and lengths in bytes: `ReadHeader`,
`SkipAttribute`, `ReadAddress`, `ReadOther` and `Finish` are the statements of
`parseSTUNResponse`, what a field contains is chosen when it is read. `touched` is
the end of the last byte read. `ReadOther` is OTHER-ADDRESS, whose value is parsed
in the same way and may be an error, but is not the address reported.

### MasterKey

A start reads the file, or generates a key, creates the file with `O_EXCL` and
writes it. `file` is what programs see, `disk` what a power failure leaves:
`WriteBack` may come at any time, because the code does not sync. A key that is
stored with something in the database is in `stored`.

### Faulty variants

Definitions with a comment "Faulty variant of ..." are plausible bugs used to
test the properties: with the variant in place of the definition, TLC finds the
property it is paired with in `PROJECT.json` ("mutants") violated. They are not
part of any specification.

## 3. Runs

Sizes are distinct states; times are for two workers.

| run | module and instance | checks | size |
|---|---|---|---|
| `Connectors` | `MCServiceApi`: quick and named tunnels, 1 service, 2 processes, 2 starts of the program | `EveryConnectorManaged`, `UrlIsOfRegisteredProcess`, `StoppedStaysOff`, `KeepsConnectorContract` | 1.4 M, 130 s |
| `Leases` | `MCServiceApi`: dns publication with NAT-PMP or no gateway, faulty router, 2 announcements | `EveryEntryWatched`, `RecordKeptAlive` | 1.6 M, 75 s |
| `Entries` | `MCServiceApi`: UPnP, 2 ports, 2 processes, 2 announcements each | `GatewayEntriesAnsweredFor`, `RecordFrozenAfterRemoval` | 1.2 M, 65 s |
| `LivenessTunnel` | `MCServiceApi`: named tunnel, 1 process, 2 starts, fairness | `CallsFinish`, `EnabledServicesRestored`, `ExitsNoticed` | 20 k |
| `LivenessFirewall` | `MCServiceApi`: fw4, 1 process, fairness | `AnnouncementsHandled`, `RulesReasserted` | 44 k |
| `Webhooks` | `MCWebhookDispatcher`: 1 event, 2 endpoints, one row per tick, faults, 2 starts, fairness | `DueAgrees`, `DeliveredWasReceived`, `NoSendAfterDelivered`, `NormalRetriesBounded`, `FannedOut`, `EventuallyDelivered` | 40 k, 13 s |
| `Publisher` | `MCCloudflarePublisher`: 1 service, 6 modes, 2 identifiers, 2 addresses, faults, 1 foreign change | `NothingForgotten`, `CleanedMeansGone`, `PublishedIsComplete`, `NeverRefusesItself`, `OnlyOwnTouched`, `KeepsContract` | 0.8 M, 60 s |
| `Login` | `MCAuthentication`: 2 requests, 2 passwords, a second factor, 2 sessions, 2 starts | `SetupIsWhole`, `GrantedWhileInForce`, `GuessesBounded` | 620 k, 30 s |
| `Admission` | `MCAccessPolicy`: 2 requests, 5 classes of address, 4 paths, 3 names, 6 lists, 1 update after the setup | `AdmittedInForce`, `RefusedByRules`, `FounderIsLocal` | 2.0 M, 65 s |
| `Connections` | `MCCloudflareConnections`: 2 connections, 2 zones, 1 service, 2 requests, 2 starts | `TypeOK`, `HostInItsZone`, `OwnedHasConnection` | 71 k, 7 s |
| `NATTypes` | `MCNATDiscovery`: the 4 kinds of NAT, noise, fairness | `TypeIsReal`, `ReportAgrees`, `ReportEventually` | 119 k, 13 s |
| `Inspection` | `MCTokenInspection`: 7 tokens, 3 plans, 3 sets of records, 1 edit | `AvailableWasGranted`, `ReadOnlyWasSo`, `ReadingAsReported` | 1.8 M, 60 s |

What they show is that the properties hold of the code's design in every
interleaving of these instances; section 6 has what does not hold.

Bounds and why they are enough to be interesting:

* One service. Services share the locks, the ports of the router and the map;
  two processes of one service already meet in every one of these (old and new
  process of the same service on the same port is the harder case), and the
  proofs hold for any number of services.
* `Pids`: two, so that an old process and its successor live at the same time;
  identities are reused, so histories are longer than two.
* `MaxGeneration`: announcements of a process. Two make the previous mapping, the
  retiring renewal goroutine and the change of port appear. `MaxBoots`: two
  starts, so that a restore meets rows of an earlier run.
* `Ports`, `Hosts`: two ports where a move matters, one otherwise.
* `RouterFaults`: on where a failing gateway is the point (`Leases`); off in
  `Entries`, where a router that answers wrongly leaves entries by itself.
* Webhooks: two endpoints and `Batch` 1 make them compete for the tick;
  `NormalAttempts` 2 and `MaxAttempts` 4 put retries on both sides of the limit.
  `MaxAttempts` says that an endpoint accepts at the latest then; without it
  nothing is ever delivered.
* Publisher: `Ids` two, since a call makes at most one object that is not
  recorded yet and an identifier is given out again when nothing refers to it;
  `MaxEdits` 1; `LostBound` cuts histories in which faults have lost more than two
  objects at a time (they are checked, and not continued).
* Login: two requests are what every race here needs (a third would only repeat
  one of them); two passwords make a right and a wrong one, two setups that
  differ; one secret, since the second factor is on or off; `Threshold` 2 lets
  both requests be past the limiter when it closes.
* Admission: one update after the setup gives a request two policies and the
  time before any; the lists have every form of an entry and one too many.
* Connections: a deleted and a surviving connection, each in a zone of its own;
  two requests count and upsert the same one; the restart gives the restore a copy
  that goes stale.
* NATTypes: nothing is bounded; the three probes and the four tasks are the
  program's. Inspection: one edit, of the token or of what is activated, as each
  verdict relates two moments; everything activated, no Access at all, and only
  dns and Access for the zone.

Deadlock is checked wherever it is one. `Publisher` and `Connections` allow the
end of a behaviour: deleted services and connections leave nothing to do.
`NATTypes` and `Inspection` end with their report.

## 4. Properties

Each is stated above its definition with the code it is about. In short:

* `EveryConnectorManaged`, `EveryEntryWatched`: the map of processes is neither
  too small nor too large.
* `KeepsConnectorContract`: step by step, what a handler reads off the map can be
  relied on; the supervisor implements `ConnectorContract`.
* `UrlIsOfRegisteredProcess`: the address of a quick tunnel is that of the process
  that runs, though output arrives late.
* `StoppedStaysOff`: what outlives a stop does not switch the service on again.
* `RecordFrozenAfterRemoval`: why `Stop`, `StopAll` and `wait` may read the record
  of a process after they have given up the lock.
* `GatewayEntriesAnsweredFor`, `RecordKeptAlive`, `RulesReasserted`: nothing stays
  on the router, and nothing that should stay goes.
* `CallsFinish`, `EnabledServicesRestored`, `ExitsNoticed`, `AnnouncementsHandled`:
  calls end; a service that is enabled when the program starts, also one an earlier
  exit has left with the status "error", runs or fails in the start that the restore
  itself makes (`RestoreFailed`, not a status in the row); dead connectors are
  noticed; every announcement is handled, in whatever order.
* `NothingForgotten`, `CleanedMeansGone`, `PublishedIsComplete`,
  `NeverRefusesItself`, `OnlyOwnTouched`, `KeepsContract`: the publisher.
* `DueAgrees`, `DeliveredWasReceived`, `NoSendAfterDelivered`, `FannedOut`,
  `NormalRetriesBounded`, `EventuallyDelivered`: the dispatcher.
* `SetupIsWhole`, `GrantedWhileInForce`, `GuessesBounded`: one setup wins entirely;
  a session is justified by what was in force during the login; requests at the
  same time add at most their own number to the limiter's threshold.
* `AdmittedInForce`, `RefusedByRules`, `FounderIsLocal`: the middleware's answer was
  right at some moment, although it mixes two; nobody from outside becomes the
  administrator.
* `HostInItsZone`, `OwnedHasConnection`: what a check promised is still so when the
  row is written, and after an upsert has brought a deleted connection back.
* `AvailableWasGranted`, `ReadOnlyWasSo`, `ReadingAsReported`: the verdicts on a
  token, against what Cloudflare let it do and what is activated. "unavailable" is
  justified at every level that was tried, so that an outage of one read of Access
  and a refusal of the other do not add up to it.
* `TypeIsReal`, `ReportAgrees`, `ReportEventually`: the network diagnosis.

Exceptions made in the statements are the code's own. `NothingForgotten` excepts
objects that a fault has made unfindable (`lost`); `FannedOut` excepts events
whose queueing was cut short by an error or a crash.

## 5. Fairness

`FairSpec` of `ServiceApi`: a call under way goes on, because every network call
of it has a time limit (10 to 45 seconds in the code); a goroutine that waits
for a `sync.Mutex` gets it although others come and go (starvation mode of Go's
mutex), hence strong fairness for the steps that take a lock; a cancelled child
is killed by its context; `wait` returns after an exit; a renewal goroutine
ticks; `restoreServices` gets on with its list. Nothing is assumed of clients,
signals, crashes, of children that exit or announce something, or of the router.

`FairSpec` of `WebhookDispatcher`: the ticker fires and a POST has a time limit,
a producer gets on, and time passes for every waiting row. `Settled(d)` is the
step that writes the outcome of a delivery; strong fairness says that the
database does not fail in every one of these writes for ever, as a delivery that
is never recorded is repeated for ever.

`FairSpec` of `NATDiscovery`: the deadline of a probe passes, the other checks have
time limits of their own, and the goroutine in `wait.Wait` gets on. Nothing is
assumed of the network.

## 6. Where the code and its documents disagree

### Known divergences

Each was met while modelling. Those with a property in brackets can be
reproduced: the property stands in the module, TLC refutes it on the instance
named. The runs check what does hold beside them.

* A renewal, or a reassertion of a fw4 rule, that fails because a stop cancels it
  writes `gateway_error` with `enabled = 1` after `Stop` has written `stopped`
  (`internal/engine/gateway.go:183`, `firewall.go:273`): the service starts again
  at the next boot. [`StoppedStaysOff`, direct publication with fw4;
  `Connectors` checks it of services without a gateway.]
* `syncCloudflare` writes back the status it read before the calls to Cloudflare;
  a connector that died meanwhile is shown as running
  (`internal/httpapi/services.go:329`, `docs/cloudflare.md:71`).
  [`TunnelRunningHasProcess`, a named tunnel.]
* The restore goroutine works on copies without `serviceMu` and starts NATMap for
  a service that has been deleted since (`cmd/stundeck/main.go:151`,
  `internal/httpapi/services.go:140`). [`DeletedServiceHasNoConnector`, dns
  without a gateway, `MaxBoots` 2.]
* In the same way it may publish for a service that has been deleted or given
  another connection since, and leaves an ownership row that the service's
  cleanup does not find (`cmd/stundeck/main.go:151`,
  `internal/httpapi/services.go:155`). [`OwnedByItsService` of
  `CloudflareConnections`, the instance of `Connections.cfg`.]
* `wait` removes the mapping of a dead process after it has released the lock;
  its successor on the same port loses its entry while the row says
  `gateway_mapped` (`internal/engine/natmap.go:201`). [`MappedServiceHasEntry`,
  UPnP, 2 processes,
  `MaxGeneration` 2.]
* The second factor is confirmed by a read and a later unconditional write
  (`internal/httpapi/security_settings.go:57`, `internal/store/auth.go:68`): of two
  confirmations at a time the second replaces the first without a code of it.
  [`ChangedOnlyByItsCode` of `Authentication`, the instance of `Login.cfg`.]
* `DeleteCloudflareConnection` counts the services and deletes afterwards
  (`internal/store/cloudflare.go:75`): a service written in between is left without
  its connection, where `docs/cloudflare.md:109` says that a connection in use
  cannot be deleted. The foreign key protects ownership rows only.
  [`ServiceHasConnection`, the instance of `Connections.cfg`.]
* The address of an IPv6 link-local client has a zone, which `net.ParseIP` refuses
  (`internal/httpapi/access.go:14`); `docs/deployment.md:59` says that mode lan
  accepts link-local addresses. [`LinkLocalAdmitted`, the instance of
  `Admission.cfg`.]
* A start that ends between the creation of the key file and its contents leaves
  a file that no later start takes (`internal/security/cipher.go:91`, with the
  message at `cipher.go:69`); `docs/deployment.md:102` says that the file is a key
  of 32 bytes. [`KeyIsWhole` of `MasterKey`.] The file is not synced before secrets
  are committed, so a power failure may cost them. [`StoredReadable` with
  `PowerLoss` TRUE.]
* `listAll` reads page after page (`internal/cloudflare/client.go:166`): an entry
  that moves to an earlier page meanwhile is missed, where the comment at
  `client.go:156` says that an inventory is never silently truncated.
* Announcements are handled by goroutines that queue for `serviceMu`
  (`internal/httpapi/services.go:261`), and name the service but not the process: two
  may be handled in the wrong order, and one of a process that has been stopped may
  be applied to its successor. `HandleMapping` allows both; no property excludes it.
* A renewal under way during a stop (`internal/engine/gateway.go:179`) maps a
  NAT-PMP port again after it was unmapped, until the lease ends; `README.md:117`
  says that a stop withdraws the mapping. `GatewayEntriesAnsweredFor` is
  therefore checked for UPnP only.
* An update between a restart and the restore keeps the address of a dead quick
  tunnel on a service that is off (`internal/httpapi/services.go:124`;
  `docs/cloudflare.md:75` says that it is cleared).
  `UrlIsOfRegisteredProcess` excepts children of an earlier run.
* dns, proxy and redirect write their ownership row last
  (`internal/cloudflare/publisher.go:92`): records of a publication that broke off
  have no row until it is repeated, and nothing keeps the service from being
  deleted. `NothingForgotten` counts them as lost.

## 7. Proofs

`ServiceApiProofs`, for any sets of services, processes, ports and hosts and any
bounds, from `NoneAssumption` (`None` is no service, process or thread),
`NoMappingAssumption` (nor a mapping or gateway record), `BoundAssumption` and
`ModeAssumption` (types of the parameters):

* `TypeCorrect`: `Spec => []TypeOK`.
* `ConnectorsManaged`: `Spec => []EveryConnectorManaged`.
* `EntriesWatched`: `Spec => []EveryEntryWatched`.
* `SupervisorKeepsContract`: `Spec => KeepsConnectorContract`, the refinement of
  `ConnectorContract`.
* `OneConnectorPerService`: `Spec => []Supervision!OneConnectorListed`: two
  connectors that run, are not cancelled and are of the same service are the same,
  or `StopAll` is about to cancel one; and that service is listed.
* `UrlsOfRegisteredProcesses`: `Spec => []UrlIsOfRegisteredProcess`.
* `RecordsFrozen`: `Spec => RecordFrozenAfterRemoval`.
* `RecordsKeptAlive`: `Spec => []RecordKeptAlive`, whatever the gateway answers.
* `LocksInOrder`: `Spec => [](LocksHeld /\ NoCircularWait)`: `Manager.mu` and
  `Publisher.mu` belong to the goroutines inside them, and nobody waits in a circle.
* `StopsLast`: `Spec => StoppedStaysOff`, when `GatewayModes` is a part of
  `{"none", "upnp"}`. Without this hypothesis it is false (section 6).
* `EntriesAnsweredFor`: `Spec => [](boots = 1 => GatewayEntriesAnsweredFor)`, with
  the same modes and without faults of the router. Both hypotheses are needed: a
  goroutine that keeps a mapping alive may add it again after it was removed, and a
  removal that fails is not repeated (section 6).

The argument. `EveryConnectorManaged` is not inductive: `StartTunnel` registers a
process without looking at the map again, because `startTunnel` looked before it
called Cloudflare. The strengthening `TunnelLock` says that a thread in that call
holds `Manager.mu` and its service has no process; every registration and removal
needs the lock, so it is stable. `RunningHasService` and `DoomedUnregistered` tie
processes to services and keep `StopAll`'s list apart from the map.
`EveryEntryWatched` needs to know what a thread between registration and the
spawn of the waiter carries in its locals (`CallLocals`). `IInv` is the
conjunction of `TypeOK`, `CallLocals` and `Supervised`; `IInvStep` goes through
every action, grouped as `Next` is, with one lemma per group for each conjunct.
Steps that leave the map, the processes and the lock alone are done by one frame
lemma, those that register or remove a process by `Register` and `Unregister`.

The refinement maps `listed` to the services in the map and `serves` to the service
of each process that runs, is not cancelled and not on `StopAll`'s list. A spawn is
a `Start` of the contract (`StartKeepsContract`), though `StartTunnel` looked for a
process several steps before: `TunnelLock` says that it found none that has come
since. An exit is an `Exit`, `WaitReturns` a `Notice` or, when a successor is
registered, a stutter, and `Stop`, `Shutdown` and `Restart` are a `Stop` of one
service or of all (`StopKeepsContract`). That a connector which serves is the one in
the map (`ServingIsListed`) makes these the contract's own steps.

The addresses of quick tunnels have an invariant of their own, `UrlInv`, on top of
`IInv`: an address names a process that has been started, and only a live row shows
one. What makes it inductive is that every step that takes a process out of the map
clears the address in the same step (`Stop` writes `stopped`; `wait` writes `error`,
for a registered process is never cancelled, which is part of `EveryEntryWatched`),
and that an identity a row names is not used again. `StopsLast` rests on `NoLoops`:
with mappings that last, no goroutine keeps one alive, and all other writes of
`enabled = 1` are for a call in progress or a registered process (`SwitchedOn`).

`RecordKeptAlive` becomes true several steps after the record is written: the
goroutine is spawned at the end of the announcement, and the one of the previous
record ends later still. `Renewal` says which goroutine a record has
(`OneLoopEach`, by generation: one with an older generation is on its way out,
`LoopsOfPast`), and that the announcement that has just recorded a mapping still
holds it in its locals (`JustRecorded`), so the record without a goroutine is the
one that gets one next. `LocksHeld` gives the program counters at which each lock
is held; `Publisher.mu` is taken inside `Manager.mu` by one call only
(`tokencall`), which waits for nothing else.

`EntriesAnsweredFor` rests on `IInv`, `NoLoops` and two more invariants. `AllAnswered`
names for each entry who answers for it: the announcement between the gateway's yes
and the record (`gwrecord`, or `gwundo` when its process is gone), the removal of
the entry it replaced (`gwprev`), or a process that is `Responsible` for its record:
registered, about to be cancelled by a stop or by `StopAll`, or with its `wait` in
its cleanup. A process that leaves the map always becomes one of the latter in the
same step; `WaitersKnown` keeps the waiter of a new process from being one that is
already at its cleanup.

`CloudflarePublisherProofs`, for any identifiers, addresses and modes, any number of
foreign changes, and whatever fails (it needs none of the assumptions on the
constants); with this all properties of the run `Publisher` are proved:

* `PublisherKeepsContract`: `Spec => KeepsContract`, the refinement of
  `PublisherContract`.
* `OwnObjectsOnly`: `Spec => OnlyOwnTouched`.
* `NothingIsForgotten`: `Spec => []NothingForgotten`.
* `CleanedIsGone`: `Spec => []CleanedMeansGone`.
* `PublicationsComplete`: `Spec => []PublishedIsComplete`.
* `RefusalsExcused`: `Spec => []NeverRefusesItself`.
* `TypeCorrect`: `Spec => []TypeOK`.

The argument. A step that ends `Sync` with success must find a row, though in most
modes that row was written several steps before, by this call or an earlier one.
`Recording` says from which steps on a `Sync` has a row; `CallOK` says that a
call about to write the row of an Access application is an Access change, so the
row written by a `Sync` belongs to the service. Their conjunction is inductive.
`NextStep` shows, with one lemma per action, that a step keeps it and is a step
of the contract or a stutter. The lemmas differ only in how an action moves the
call; the ways there are (`GotoStep`, `KindStep`, `SavedStep`, `FailStep`,
`SyncedStep`, `BrokenOff`, `StayStep`) are proved once.

The other theorems stand on further invariants, each with its lemma per action.
`Possession` (for `OnlyOwnTouched`): what a call is about to overwrite or delete was
found to be the service's by an earlier step of it, or made by it (`Checked`), and
each kind of call keeps to its own kinds of objects (`Restrained`). `Ledger` (for
`NothingForgotten` and `CleanedMeansGone`) has three parts: `Base`, that there is one
row of a kind, that own objects of other modes than the present one are lost ones,
and that there is no result during a call; `Course`, what the steps of a call know
of mode and rows; and `Clearing`, what a cleanup has dealt with, so that a row goes
only when it names no object any more. `Grown` says of a step which objects it may
add. `Built` (for `PublishedIsComplete`) lists, step by step, what a `Sync` has put
in place so far; nothing of it is taken away before the call ends, so that with its
last step the publication is whole. `TypeOK` follows with `Ledger`, which says where
identifiers come from. `Orderly` (for `NeverRefusesItself`) is about histories
without foreign changes: each name has one record of the type its mode wants, or a
lost one; a private route leads to a tunnel with a row, which is why a cleanup must
remove the tunnel's row last; and a row that a call takes for granted names an
object, until a removal has begun (`Tidy`). So each reason for a refusal comes down
to something lost (`OthersAreLost`) or half removed (`MissingIsTorn`).

`AuthenticationProofs`, for any finite set of requests and any passwords, secrets,
keys and tokens, from `AuthAssumption`: `TypeCorrect`, `SetupWhole`, `Granted` and
`Guesses`. `GrantedWhileInForce` speaks of the last step of a login; `LoginOK` says
what each earlier step has secured: the copy of the user has the password that is
stored, and a second factor that was in force since the login began. A login
relies on there being a user once (`Inhabited`), since nobody deletes one.
`GuessesBounded` is a count: `LimiterOK` adds to the failures told those requests
that are past the limiter and will tell one (`InFlight`), whose number is at most
that of the requests.

`SecurityProofs` has two parts. About `AccessPolicy`, for any requests, names and
lists, from `PolicyAssumption`: `TypeCorrect`, `Admission`, `Refusal`, `Founder`.
`RequestOK` says that, while the middleware has a request, the present verdict of
the rules is among its verdicts; so whichever of the two moments its answer is
right about is covered. About `MasterKey`, for any number of programs and of starts,
from `KeyAssumption`, a hypothesis of each theorem since the module is instantiated:
`KeyTypes`, `KeyShared` (`OneKey`) and, without power failures, `KeyReadable`
(`StoredReadable`). `Loading` says that the file belongs to its one writer until it
holds a key. `MasterKey` has no run.

`CloudflareConnectionsProofs`, for any connections, zones, requests and any finite
set of services, from `ConnectionsAssumption`: `TypeCorrect`, `HostsInZones`,
`OwnedReachable`. An upsert may bring a deleted connection back, so that
`HostInItsZone` needs every copy of a service's zone there is: rows, jobs and the
restore's list (`Held`). `ZoneFixed` says of a connection that all of these, the
row and the requests under way agree on one zone. `Fit` and `RequestsFit` say what
a job or a request carries at each step.

`TokenInspectionProofs`, for any tokens, plans and records and any number of edits, from
`TokenAssumption`: `TypeCorrect`, `Available`, `ReadOnly`, `Reading`.
`AnswersTrue`: every answer kept is about a token, or an activation, that the history
has (`Excused` for a refusal or a 404); once Access is read for the zone, this is so
of the account as well. `Unread` says what is still as it was at the start.
`EvidenceTrue` is the lemma on the pure part, that what `writeEvidence` finds in
policies is what Cloudflare grants for them.

`DiagnosticsProofs`, from `DiscoveryAssumption`: `TypeReal` and `ReportConsistent`
of `NATDiscovery`. `AnswersTrue` says that answers in flight are what the NAT made
of their own probe's target; `Progress`, that the discovery goes on only while
the earlier probes have left the type open. `ChecksFit` relates each check to the
variable of the summary that its task has set. Of `STUNResponse`, for answers of
every length: `ReadsInRange`, `LoopBounded` (four bytes a round at least) and
`PrefersXor`, from where the parser is (`Reading`) and what it has kept
(`Candidate`). These lengths are what TLC cannot enumerate, and the module has no
run.

`WebhookDispatcherProofs`, for any events, endpoints, producers and limits, from
`DispatcherAssumption`: `TypeCorrect`, `QueueAgrees`, `Delivered`, `SentOnce`,
`RetriesBounded`, `FanOutComplete`; with these all safety properties of the run
`Webhooks` are proved. `Batched` is what the copies of a tick may be relied on for:
their rows are still pending, due and unchanged, or gone with their endpoint,
because one goroutine alone sends and writes outcomes. `Queueing` follows an event
through the two steps of its producer, the read of the endpoints and a row for
each. `Retried` relates the back-offs of a row to its failed attempts, which is
what bounds them. `due` is a relation so that the laws of the order (`Ordered`) can
be carried through every step, which a filtered sequence would not allow here.

All invariants and action properties of the runs are proved. Only model-checked is
liveness, since fairness and ENABLED are out of the prover's reach:
`CallsFinish`, `EnabledServicesRestored`, `ExitsNoticed`, `AnnouncementsHandled`,
`RulesReasserted`, `EventuallyDelivered` and `ReportEventually`.

## 8. Plan

In order of importance; a later module composes or uses the earlier ones.

1. Done: the service core (`ServiceStore`, `GatewayMapping`, `Engine`,
   `ServiceApi`), `CloudflarePublisher` with its contract, `WebhookDispatcher`,
   `Authentication`, `AccessPolicy`, `CloudflareConnections`, `TokenInspection`,
   `NATDiscovery`, `STUNResponse`, `MasterKey`, and the proofs of section 7.
2. Proofs: the entries of the gateway with modes that are kept alive, for the
   firewall rules, which are named by their service.
3. Lifecycle: an abstract specification of one service as its user sees it (off,
   starting, on, failing, deleted), implemented by `ServiceApi`; the
   configuration a connector was started with, for the update that meets a
   restore (`internal/httpapi/services.go:92`).
4. Checks of webhook URLs and addresses as pure functions.

## 9. Not modelled

* The wire formats of SSDP, SOAP, NAT-PMP, nft and the Cloudflare API: a call is a
  step that succeeds, fails or both, and what it says is data. Of STUN only the
  answers are parsed.
* The pagination of lists (`internal/cloudflare/client.go:158`): the listing it
  stands for is one read in every module; section 6 says what that hides.
* Argument lists, environments and log pipes of children; the event log and the
  queueing of webhooks by the handlers (the handlers ignore its outcome).
* URL validation, address filtering and the signature of webhooks.
* The e-mail rules of an Access policy, the settings carried over from an existing
  application, the second scope (zones) of Access, the ports a proxy may use.
* The diagnosis of a single service and the preview of a token's zones: they read,
  probe and answer, and keep nothing.
* Cryptography and random strings, configuration, migrations, routing and headers,
  the callback program (one POST, whose effect is `NatmapEvent`), the web interface
  and the packaging.

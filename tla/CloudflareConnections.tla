------------------------- MODULE CloudflareConnections -------------------------
(***************************************************************************)
(* The table of Cloudflare connections and those who refer to it: saving,  *)
(* changing and deleting a connection (internal/httpapi/cloudflare.go,     *)
(* internal/store/cloudflare.go), the service handlers that check and use  *)
(* it, and the ownership rows whose foreign key it is.                     *)
(*                                                                         *)
(* Connection requests take no lock.  The service handlers take serviceMu, *)
(* so "handler" is one of them at a time; "restore" is the goroutine that  *)
(* starts services at boot from copies, without serviceMu.  A publication  *)
(* is the row that records it; see CloudflarePublisher for the rest.  A    *)
(* service's host name is abstracted to the zone it belongs to.            *)
(***************************************************************************)
EXTENDS Naturals, FiniteSets, Sequences, SequencesExt

CONSTANTS
    Conns,      \* identifiers of connections; a random one is never used twice
    Zones,      \* Cloudflare zones
    Services,   \* identifiers of services, likewise
    Requests,   \* requests on connections that may be in flight at a time
    None,       \* no connection, no zone
    MaxBoots    \* bound: starts of the program

ASSUME ConnectionsAssumption ==
    /\ None \notin Conns \cup Zones
    /\ {"unborn", "deleted"} \cap Zones = {}
    /\ IsFiniteSet(Services)
    /\ MaxBoots \in Nat

VARIABLES
    conns,     \* cloudflare_connections: the zone of each, if it is there
    services,  \* services: connection and zone of the host name, if it is there
    enabled,   \* their column enabled
    owned,     \* cloudflare_resources, as pairs of connection and owner
    running,   \* Manager.processes
    req,       \* the connection requests: step, connection, zone
    job,       \* "handler" and "restore": step, service and its copy
    copies,    \* restore's services still to start
    boots      \* starts of the program so far

vars == <<conns, services, enabled, owned, running, req, job, copies, boots>>

serviceVars == <<services, enabled, owned, running, job, copies>>

Threads == {"handler", "restore"}

\* A service that uses no Cloudflare account has no connection.
Copies == [conn : Conns, zone : Zones] \cup {[conn |-> None, zone |-> None]}

NoCopy == [conn |-> None, zone |-> None]

Absent == {[conn |-> None, zone |-> life] : life \in {"unborn", "deleted"}}

\* What a handler or the restore goroutine carries from step to step.
Jobs == [pc : {"asleep", "idle", "rows", "create", "update", "delete", "client",
               "save", "run", "cleanup", "wipe"},
         service : SUBSET Services, copy : Copies, start : BOOLEAN]

TypeOK ==
    /\ conns \in [Conns -> Zones \cup {"unborn", "deleted"}]
    /\ services \in [Services -> Copies \cup Absent]
    /\ enabled \subseteq {s \in Services : services[s] \in Copies}
    /\ owned \subseteq Conns \X Services
    /\ running \subseteq Services
    /\ req \in [Requests -> [pc : {"idle", "upsert", "delete"},
                             conn : Conns \cup {None}, zone : Zones \cup {None}]]
    /\ job \in [Threads -> Jobs]
    /\ copies \in Seq(Services \X Copies)
    /\ boots \in Nat

NoRequest == [pc |-> "idle", conn |-> None, zone |-> None]
NoJob == [pc |-> "idle", service |-> {}, copy |-> NoCopy, start |-> FALSE]

\* restoreServices sleeps first, while the server answers already.
Booting == [t \in Threads |-> IF t = "restore" THEN [NoJob EXCEPT !.pc = "asleep"] ELSE NoJob]

Init ==
    /\ conns = [c \in Conns |-> "unborn"]
    /\ services = [s \in Services |-> [conn |-> None, zone |-> "unborn"]]
    /\ enabled = {}
    /\ owned = {}
    /\ running = {}
    /\ req = [r \in Requests |-> NoRequest]
    /\ job = Booting
    /\ copies = <<>>
    /\ boots = 1

Exists(s) == services[s] \in Copies

Owns(s, c) == <<c, s>> \in owned

-------------------------------------------------------------------------------
(* Requests on connections.  The token is verified first, which changes        *)
(* nothing here.                                                               *)

\* saveCloudflareConnection without an identifier.
CreateConnection(c, z) ==
    /\ conns[c] = "unborn"
    /\ conns' = [conns EXCEPT ![c] = z]
    /\ UNCHANGED <<serviceVars, req, boots>>

\* Faulty variant of ReadConnection: any zone the token reaches will do.
ReadConnectionOnly(r, c, z) ==
    /\ req[r].pc = "idle"
    /\ conns[c] \in Zones
    /\ req' = [req EXCEPT ![r] = [pc |-> "upsert", conn |-> c, zone |-> z]]
    /\ UNCHANGED <<serviceVars, conns, boots>>

\* saveCloudflareConnection with an identifier: the stored zone has to be the same.
ReadConnection(r, c, z) ==
    /\ req[r].pc = "idle"
    /\ conns[c] = z
    /\ req' = [req EXCEPT ![r] = [pc |-> "upsert", conn |-> c, zone |-> z]]
    /\ UNCHANGED <<serviceVars, conns, boots>>

\* The upsert inserts a connection that has been deleted since it was read.
UpsertConnection(r) ==
    /\ req[r].pc = "upsert"
    /\ conns' \in {conns, [conns EXCEPT ![req[r].conn] = req[r].zone]}
    /\ req' = [req EXCEPT ![r] = NoRequest]
    /\ UNCHANGED <<serviceVars, boots>>

\* DeleteCloudflareConnection counts first.
CountUses(r, c) ==
    /\ req[r].pc = "idle"
    /\ conns[c] \in Zones
    /\ \A s \in Services : ~Owns(s, c) /\ (Exists(s) => services[s].conn # c)
    /\ req' = [req EXCEPT ![r] = [pc |-> "delete", conn |-> c, zone |-> None]]
    /\ UNCHANGED <<serviceVars, conns, boots>>

\* Faulty variant of DeleteConnection: foreign keys are not enforced.
DeleteConnectionUnchecked(r) ==
    /\ req[r].pc = "delete"
    /\ conns' = [conns EXCEPT ![req[r].conn] = "deleted"]
    /\ req' = [req EXCEPT ![r] = NoRequest]
    /\ UNCHANGED <<serviceVars, boots>>

\* The statement fails while an ownership row refers to the connection.
DeleteConnection(r) ==
    /\ req[r].pc = "delete"
    /\ \/ /\ \A s \in Services : ~Owns(s, req[r].conn)
          /\ conns' = [conns EXCEPT ![req[r].conn] = "deleted"]
       \/ UNCHANGED conns
    /\ req' = [req EXCEPT ![r] = NoRequest]
    /\ UNCHANGED <<serviceVars, boots>>

-------------------------------------------------------------------------------
(* Service handlers.  Manager.mu is held during a start.                       *)

Enter(t, step, s, copy) ==
    job' = [job EXCEPT ![t] = [pc |-> step, service |-> {s}, copy |-> copy, start |-> FALSE]]

Step(t, step) == job' = [job EXCEPT ![t] = [pc |-> step, service |-> job[t].service,
                                            copy |-> job[t].copy, start |-> job[t].start]]

Leave(t) == job' = [job EXCEPT ![t] = NoJob]

Of(t) == CHOOSE s \in Services : job[t].service = {s}

Starting(t) == job[t].pc \in {"client", "save", "run"} /\ job[t].start

Publishing(t) == job[t].pc \in {"client", "save", "wipe"}

\* Manager.Running waits for a start that is under way.
NotRunning(s) == s \notin running /\ \A t \in Threads : ~Starting(t)

\* serviceFromRequest: the connection exists and the host name is in its zone.
Acceptable(copy) == copy # NoCopy => conns[copy.conn] = copy.zone

CreateService(s, copy) ==
    /\ job["handler"].pc = "idle"
    /\ services[s].zone = "unborn"
    /\ Acceptable(copy)
    /\ Enter("handler", "create", s, copy)
    /\ UNCHANGED <<conns, services, enabled, owned, running, copies, req, boots>>

UpdateService(s, copy) ==
    /\ job["handler"].pc = "idle"
    /\ Exists(s)
    /\ NotRunning(s)
    /\ Acceptable(copy)
    /\ Enter("handler", "rows", s, copy)
    /\ UNCHANGED <<conns, services, enabled, owned, running, copies, req, boots>>

\* A service that owns something keeps its connection and its host name.
UpdateCheck ==
    LET s == Of("handler") IN
    /\ job["handler"].pc = "rows"
    /\ IF Owns(s, services[s].conn) /\ job["handler"].copy # services[s]
       THEN Leave("handler")
       ELSE Step("handler", "update")
    /\ UNCHANGED <<conns, services, enabled, owned, running, copies, req, boots>>

\* Neither writes the column enabled as anything but 0.
WriteService ==
    LET s == Of("handler") IN
    /\ job["handler"].pc \in {"create", "update"}
    /\ \/ /\ services' = [services EXCEPT ![s] = job["handler"].copy]
          /\ enabled' = enabled \ {s}
       \/ UNCHANGED <<services, enabled>>
    /\ Leave("handler")
    /\ UNCHANGED <<conns, owned, running, copies, req, boots>>

DeleteService(s) ==
    /\ job["handler"].pc = "idle"
    /\ Exists(s)
    /\ NotRunning(s)
    /\ ~Owns(s, services[s].conn)
    /\ Enter("handler", "delete", s, NoCopy)
    /\ UNCHANGED <<conns, services, enabled, owned, running, copies, req, boots>>

WriteDelete ==
    LET s == Of("handler") IN
    /\ job["handler"].pc = "delete"
    /\ \/ /\ services' = [services EXCEPT ![s] = [conn |-> None, zone |-> "deleted"]]
          /\ enabled' = enabled \ {s}
       \/ UNCHANGED <<services, enabled>>
    /\ Leave("handler")
    /\ UNCHANGED <<conns, owned, running, copies, req, boots>>

\* stopService; a service that is not running is marked as stopped too.
StopService(s) ==
    /\ job["handler"].pc = "idle"
    /\ Exists(s)
    /\ \A t \in Threads : ~Starting(t)
    /\ running' = running \ {s}
    /\ enabled' = enabled \ {s}
    /\ UNCHANGED <<conns, services, owned, job, copies, req, boots>>

\* Manager.wait: a connector that has died is reported on the service's row.
WaitReturns(s) ==
    /\ s \in running
    /\ \A t \in Threads : ~Starting(t)
    /\ running' = running \ {s}
    /\ enabled' = IF Exists(s) THEN enabled \cup {s} ELSE enabled
    /\ UNCHANGED <<conns, services, owned, job, copies, req, boots>>

-------------------------------------------------------------------------------
(* Publications: syncService, and a start that fetches the connector's token   *)

Enterable(t, s, copy, start) ==
    /\ copy # NoCopy
    /\ \A u \in Threads : ~Publishing(u)
    /\ start => NotRunning(s)
    /\ job' = [job EXCEPT ![t] = [pc |-> "client", service |-> {s}, copy |-> copy,
                                  start |-> start]]

SyncService(s, start) ==
    /\ job["handler"].pc = "idle"
    /\ Exists(s)
    /\ Enterable("handler", s, services[s], start)
    /\ UNCHANGED <<conns, services, enabled, owned, running, copies, req, boots>>

\* restoreServices starts the next of its copies.
RestoreNext ==
    /\ job["restore"].pc = "idle"
    /\ copies # <<>>
    /\ copies' = Tail(copies)
    /\ LET s == Head(copies)[1] copy == Head(copies)[2] IN
         IF s \in running \/ copy = NoCopy
         THEN UNCHANGED job
         ELSE Enterable("restore", s, copy, TRUE)
    /\ UNCHANGED <<conns, services, enabled, owned, running, req, boots>>

\* A start that fails switches the service off; restoreServices switches it on.
Fails(t) ==
    /\ Leave(t)
    /\ enabled' = IF ~job[t].start THEN enabled
                  ELSE IF t = "restore" /\ Exists(Of(t)) THEN enabled \cup {Of(t)}
                  ELSE enabled \ {Of(t)}

\* Publisher.ClientFor and the checks of sync: the connection is read.
ClientFor(t) ==
    /\ job[t].pc = "client"
    /\ \/ conns[job[t].copy.conn] = job[t].copy.zone /\ Step(t, "save") /\ UNCHANGED enabled
       \/ Fails(t)
    /\ UNCHANGED <<conns, services, owned, running, copies, req, boots>>

\* The object is made at Cloudflare and recorded; without the row it is taken back.
SaveResource(t) ==
    LET c == job[t].copy.conn IN
    /\ job[t].pc = "save"
    /\ \/ /\ conns[c] \in Zones
          /\ owned' = owned \cup {<<c, Of(t)>>}
          /\ IF job[t].start THEN Step(t, "run") ELSE Leave(t)
          /\ UNCHANGED enabled
       \/ Fails(t) /\ UNCHANGED owned
    /\ UNCHANGED <<conns, services, running, copies, req, boots>>

\* Faulty variant of RunConnector: the row is written whether it is there or not.
RunConnectorUnchecked(t) ==
    LET s == Of(t) IN
    /\ job[t].pc = "run"
    /\ running' = running \cup {s}
    /\ enabled' = enabled \cup {s}
    /\ Leave(t)
    /\ UNCHANGED <<conns, services, owned, copies, req, boots>>

\* startTunnel: if its row is gone, or the connector does not start, nothing runs.
RunConnector(t) ==
    LET s == Of(t) IN
    /\ job[t].pc = "run"
    /\ \/ /\ Exists(s)
          /\ running' = running \cup {s}
          /\ enabled' = enabled \cup {s}
          /\ Leave(t)
       \/ Fails(t) /\ UNCHANGED running
    /\ UNCHANGED <<conns, services, owned, copies, req, boots>>

\* cleanupCloudflareService.
CleanupService(s) ==
    /\ job["handler"].pc = "idle"
    /\ Exists(s)
    /\ NotRunning(s)
    /\ s \notin enabled
    /\ services[s] # NoCopy
    /\ Enter("handler", "cleanup", s, services[s])
    /\ UNCHANGED <<conns, services, enabled, owned, running, copies, req, boots>>

CleanupLock ==
    /\ job["handler"].pc = "cleanup"
    /\ \A t \in Threads : ~Publishing(t)
    /\ IF conns[job["handler"].copy.conn] \in Zones THEN Step("handler", "wipe")
       ELSE Leave("handler")
    /\ UNCHANGED <<conns, services, enabled, owned, running, copies, req, boots>>

CleanupRows ==
    /\ job["handler"].pc = "wipe"
    /\ owned' \in {owned, owned \ {<<job["handler"].copy.conn, Of("handler")>>}}
    /\ Leave("handler")
    /\ UNCHANGED <<conns, services, enabled, running, copies, req, boots>>

-------------------------------------------------------------------------------

\* The program ends, in order or by a crash, and starts again with its tables.
Restart ==
    /\ boots < MaxBoots
    /\ boots' = boots + 1
    /\ running' = {}
    /\ req' = [r \in Requests |-> NoRequest]
    /\ job' = Booting
    /\ copies' = <<>>
    /\ UNCHANGED <<conns, services, enabled, owned>>

\* EnabledServices: the copies, in the order of their creation.
RestoreSnapshot ==
    /\ job["restore"].pc = "asleep"
    /\ Leave("restore")
    /\ \E order \in SetToSeqs(enabled) :
         copies' = [i \in DOMAIN order |-> <<order[i], services[order[i]]>>]
    /\ UNCHANGED <<conns, services, enabled, owned, running, req, boots>>

Connection ==
    \/ \E c \in Conns, z \in Zones : CreateConnection(c, z)
    \/ \E r \in Requests, c \in Conns :
         CountUses(r, c) \/ \E z \in Zones : ReadConnection(r, c, z)
    \/ \E r \in Requests : UpsertConnection(r) \/ DeleteConnection(r)

Handler ==
    \/ \E s \in Services, copy \in Copies : CreateService(s, copy) \/ UpdateService(s, copy)
    \/ \E s \in Services : DeleteService(s) \/ StopService(s) \/ CleanupService(s)
    \/ \E s \in Services, start \in BOOLEAN : SyncService(s, start)
    \/ UpdateCheck
    \/ WriteService
    \/ WriteDelete
    \/ CleanupLock
    \/ CleanupRows

Publish(t) == ClientFor(t) \/ SaveResource(t) \/ RunConnector(t)

Next ==
    \/ Connection
    \/ Handler
    \/ \E t \in Threads : Publish(t)
    \/ \E s \in Services : WaitReturns(s)
    \/ RestoreSnapshot
    \/ RestoreNext
    \/ Restart

Spec == Init /\ [][Next]_vars

-------------------------------------------------------------------------------
(* Properties *)

\* The host name a service was accepted with stays in the zone of its connection,
\* over changed and deleted connections and deletions that an update undoes.
HostInItsZone ==
    \A s \in Services :
        Exists(s) /\ services[s] # NoCopy =>
            conns[services[s].conn] \in {services[s].zone, "deleted"}

\* What StunDeck owns at Cloudflare can be reached: its connection, and with it
\* the token to remove it, is still there.
OwnedHasConnection ==
    \A s \in Services, c \in Conns : Owns(s, c) => conns[c] \in Zones

\* What a service owns is recorded under the connection that the service has, so
\* that its cleanup, its update and its deletion find it.
OwnedByItsService ==
    \A s \in Services, c \in Conns : Owns(s, c) => Exists(s) /\ services[s].conn = c

\* "A connection that still has services or managed resources cannot be deleted."
ServiceHasConnection ==
    \A s \in Services :
        Exists(s) /\ services[s] # NoCopy => conns[services[s].conn] \in Zones
===============================================================================

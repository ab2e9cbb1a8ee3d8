-------------------------------- MODULE Engine --------------------------------
(***************************************************************************)
(* The process supervisor (internal/engine): Manager with its map of       *)
(* running connectors, the goroutines it spawns, and the gateway mappings  *)
(* recorded on a process.                                                  *)
(*                                                                         *)
(* Two threads call the manager: "api", the request handler or mapping     *)
(* goroutine that holds Server.serviceMu (there is at most one), and       *)
(* "restore", the boot goroutine, which does not take serviceMu.  A thread *)
(* runs one call at a time; th[t] is its program counter with the locals   *)
(* it carries from one step to the next.                                   *)
(*                                                                         *)
(* A critical section of Manager.mu is one step that waits for mu = None.  *)
(* Only startTunnel keeps the lock while it waits for the network, so only *)
(* there does mu name a holder across steps; pmu is Publisher.mu.          *)
(***************************************************************************)
EXTENDS GatewayMapping, Naturals, FiniteSets

CONSTANTS
    Services,      \* service identifiers
    Pids,          \* identities of child processes (the *exec.Cmd pointers)
    Ports, Hosts,  \* what NATMap announces
    RouterFaults,  \* the gateway may answer with an error
    MaxGeneration  \* bound: mapping announcements of one process

ASSUME NoneAssumption ==
    None \notin Services \cup Pids \cup {"api", "restore"}

ASSUME BoundAssumption ==
    RouterFaults \in BOOLEAN /\ MaxGeneration \in Nat

VARIABLES
    rows,       \* the services table
    owned,      \* cloudflare_resources has rows owned by the service
    processes,  \* Manager.processes: service -> process or None
    proc,       \* the child processes and their process structs
    th,         \* the two caller threads
    mu, pmu,    \* holders of Manager.mu and Publisher.mu across steps
    router,     \* entries the gateway holds
    loops,      \* renewNATPMP and reassertFirewall goroutines
    doomed      \* processes StopAll took out of the map and has yet to cancel

engineVars == <<rows, owned, processes, proc, th, mu, pmu, router, loops, doomed>>

Threads == {"api", "restore"}

Mappings == [port : Ports, host : Hosts]

Gateways == [mode : AllGatewayModes, svc : Services, port : Ports, host : Hosts]

\* An empty column is no announcement, and an empty record no mapping.
ASSUME NoMappingAssumption == None \notin Mappings \cup Gateways

Entries == [mode : AllGatewayModes, svc : Services \cup {None}, port : Ports]

Row == [life : {"unborn", "live", "deleted"}, mode : PublishModes,
        gw : AllGatewayModes, enabled : BOOLEAN, status : Statuses,
        url : Pids \cup {None}, mapping : Mappings \cup {None}]

\* state "lost": a child of an earlier run of the program, which this run does
\* not know.  wait is the goroutine that calls cmd.Wait for the process.
Process == [state : {"unused", "running", "exited", "lost"},
            svc : Services \cup {None}, kind : {"natmap", "tunnel", "quick"},
            cancelled : BOOLEAN, wait : {"unspawned", "waiting", "cleanup", "done"},
            gw : Gateways \cup {None}, gen : Nat, found : BOOLEAN]

PCs == {"idle", "validate", "register", "discovering", "token", "tokencall",
        "startfail", "update", "delete", "stopgw", "sync", "syncing",
        "syncwrite", "syncerr", "cleanup", "cleaning", "mapping", "gwadd",
        "gwinsert",
        "gwrecord", "gwundo", "gwprev", "gwready", "gwfail"}

Thread == [pc : PCs, svc : Services \cup {None}, copy : Row,
           pid : Pids \cup {None}, mapping : Mappings \cup {None},
           gw : Gateways \cup {None}]

Loop == [pid : Pids, gw : Gateways, gen : Nat, pc : {"sleep", "call", "insert"}]

Idle == [pc |-> "idle", svc |-> None, copy |-> UnbornRow, pid |-> None,
         mapping |-> None, gw |-> None]

Unused == [state |-> "unused", svc |-> None, kind |-> "natmap",
           cancelled |-> FALSE, wait |-> "done", gw |-> None, gen |-> 0,
           found |-> FALSE]

EngineTypeOK ==
    /\ rows \in [Services -> Row]
    /\ owned \in [Services -> BOOLEAN]
    /\ processes \in [Services -> Pids \cup {None}]
    /\ proc \in [Pids -> Process]
    /\ th \in [Threads -> Thread]
    /\ mu \in Threads \cup {None}
    /\ pmu \in Threads \cup {None}
    /\ router \subseteq Entries
    /\ loops \subseteq Loop
    /\ doomed \subseteq Pids

EngineInit ==
    /\ rows = [s \in Services |-> UnbornRow]
    /\ owned = [s \in Services |-> FALSE]
    /\ processes = [s \in Services |-> None]
    /\ proc = [p \in Pids |-> Unused]
    /\ th = [t \in Threads |-> Idle]
    /\ mu = None
    /\ pmu = None
    /\ router = {}
    /\ loops = {}
    /\ doomed = {}

-------------------------------------------------------------------------------
(* Shared helpers *)

At(t, pc) == th[t].pc = pc

Goto(t, pc) == th' = [th EXCEPT ![t].pc = pc]

Return(t) == th' = [th EXCEPT ![t] = Idle]

Running(s) == processes[s] # None

\* The table after a SetServiceRuntime on s.  A missing row is an error that
\* changes nothing.
Runtime(s, status, enabled) ==
    [rows EXCEPT ![s] = SetServiceRuntime(@, status, enabled)]

\* A write made with the caller's context: it is lost when the client has gone
\* away or the call's deadline has passed.
CallerWrite(s, status, enabled) == rows' \in {rows, Runtime(s, status, enabled)}

\* A process identity nothing refers to any more.
Free(p) ==
    /\ \/ proc[p].state \in {"unused", "lost"}
       \/ proc[p].state = "exited" /\ proc[p].wait = "done"
    /\ \A s \in Services : processes[s] # p /\ rows[s].url # p
    /\ \A t \in Threads : th[t].pid # p
    /\ \A l \in loops : l.pid # p
    /\ p \notin doomed

Spawned(s, kind, wait) ==
    [Unused EXCEPT !.state = "running", !.svc = s, !.kind = kind, !.wait = wait]

RemoveFromRouter(g) ==
    \/ router' = removeGatewayMapping(router, g)
    \/ RouterFaults /\ router' = router

\* `if running.gateway != nil { removeGatewayMapping(...) }`
RemoveRecorded(p) ==
    IF proc[p].gw = None THEN router' = router ELSE RemoveFromRouter(proc[p].gw)

-------------------------------------------------------------------------------
(* Manager.Start.  The caller has put the service and its copy of the row in *)
(* its locals and set pc to "validate".                                      *)

\* validateTarget and the LookPath checks: before the lock, before the check
\* whether the service is already running.
ValidateTarget(t) ==
    /\ At(t, "validate")
    /\ Goto(t, "register") \/ Goto(t, "startfail")
    /\ UNCHANGED <<rows, owned, processes, proc, mu, pmu, router, loops, doomed>>

AlreadyRunning(t) ==
    /\ At(t, "register")
    /\ mu = None
    /\ Running(th[t].svc)
    /\ Return(t)
    /\ UNCHANGED <<rows, owned, processes, proc, mu, pmu, router, loops, doomed>>

\* cmd.Start fails (or its pipes cannot be opened): nothing is registered.
SpawnFails(t) ==
    /\ At(t, "register")
    /\ mu = None
    /\ ~Running(th[t].svc)
    /\ th[t].copy.mode \notin {"tunnel", "warp"}
    /\ Goto(t, "startfail")
    /\ UNCHANGED <<rows, owned, processes, proc, mu, pmu, router, loops, doomed>>

\* Start, NATMap: the process is registered under the lock; the row is written
\* and the waiter is spawned after the lock has been released.
StartNatmap(t, p) ==
    LET s == th[t].svc IN
    /\ At(t, "register")
    /\ mu = None
    /\ ~Running(s)
    /\ ~UsesConnector(th[t].copy)
    /\ Free(p)
    /\ processes' = [processes EXCEPT ![s] = p]
    /\ proc' = [proc EXCEPT ![p] = Spawned(s, "natmap", "unspawned")]
    /\ th' = [th EXCEPT ![t].pc = "discovering", ![t].pid = p]
    /\ UNCHANGED <<rows, owned, mu, pmu, router, loops, doomed>>

\* Faulty variant of StartNatmapWrite: a failed write returns before the waiter
\* is spawned.
StartNatmapReturnsEarly(t) ==
    LET spawn == Live(rows[th[t].svc]) IN
    /\ At(t, "discovering")
    /\ rows' = Runtime(th[t].svc, "discovering", TRUE)
    /\ proc' = IF spawn THEN [proc EXCEPT ![th[t].pid].wait = "waiting"] ELSE proc
    /\ Return(t)
    /\ UNCHANGED <<owned, processes, mu, pmu, router, loops, doomed>>

StartNatmapWrite(t) ==
    /\ At(t, "discovering")
    /\ rows' = Runtime(th[t].svc, "discovering", TRUE)
    /\ proc' = [proc EXCEPT ![th[t].pid].wait = "waiting"]
    /\ Return(t)
    /\ UNCHANGED <<owned, processes, mu, pmu, router, loops, doomed>>

\* Faulty variant of StartQuickTunnel: the process without a row is cancelled and
\* stays in the map.
StartQuickTunnelStaysListed(t, p) ==
    LET s == th[t].svc IN
    /\ At(t, "register")
    /\ mu = None
    /\ ~Running(s)
    /\ th[t].copy.mode = "quick"
    /\ Free(p)
    /\ processes' = [processes EXCEPT ![s] = p]
    /\ proc' = [proc EXCEPT ![p] = [Spawned(s, "quick", "waiting") EXCEPT
                                     !.cancelled = ~Live(rows[s])]]
    /\ rows' = Runtime(s, "tunnel_starting", TRUE)
    /\ IF Live(rows[s]) THEN Return(t) ELSE Goto(t, "startfail")
    /\ UNCHANGED <<owned, mu, pmu, router, loops, doomed>>

\* startQuickTunnel: registration and the row's write share the critical
\* section.  Without a row the process is cancelled and reaped elsewhere.
StartQuickTunnel(t, p) ==
    LET s == th[t].svc IN
    /\ At(t, "register")
    /\ mu = None
    /\ ~Running(s)
    /\ th[t].copy.mode = "quick"
    /\ Free(p)
    /\ \/ /\ Live(rows[s])
          /\ processes' = [processes EXCEPT ![s] = p]
          /\ proc' = [proc EXCEPT ![p] = Spawned(s, "quick", "waiting")]
          /\ rows' = Runtime(s, "tunnel_starting", TRUE)
          /\ Return(t)
       \/ /\ ~Live(rows[s])
          /\ proc' = [proc EXCEPT ![p] =
                        [Spawned(s, "quick", "done") EXCEPT !.cancelled = TRUE]]
          /\ Goto(t, "startfail")
          /\ UNCHANGED <<rows, processes>>
    /\ UNCHANGED <<owned, mu, pmu, router, loops, doomed>>

\* Faulty variant of StartTunnelLock: the lock is given up for the network calls.
StartTunnelUnlocked(t) ==
    /\ At(t, "register")
    /\ mu = None
    /\ ~Running(th[t].svc)
    /\ th[t].copy.mode \in {"tunnel", "warp"}
    /\ Goto(t, "token")
    /\ UNCHANGED <<rows, owned, processes, proc, mu, pmu, router, loops, doomed>>

\* startTunnel: the lock stays held while TunnelToken synchronises the tunnel
\* under Publisher.mu and fetches its token.
StartTunnelLock(t) ==
    /\ At(t, "register")
    /\ mu = None
    /\ ~Running(th[t].svc)
    /\ th[t].copy.mode \in {"tunnel", "warp"}
    /\ mu' = t
    /\ Goto(t, "token")
    /\ UNCHANGED <<rows, owned, processes, proc, pmu, router, loops, doomed>>

TunnelTokenCall(t) ==
    /\ At(t, "token")
    /\ pmu = None
    /\ pmu' = t
    /\ Goto(t, "tokencall")
    /\ UNCHANGED <<rows, owned, processes, proc, mu, router, loops, doomed>>

\* Faulty variant of TunnelTokenFails: the call is repeated until it succeeds.
TunnelTokenRetries(t) ==
    /\ At(t, "tokencall")
    /\ pmu' = None
    /\ Goto(t, "token")
    /\ UNCHANGED <<rows, owned, processes, proc, mu, router, loops, doomed>>

\* The token call or cmd.Start fails; a tunnel may have been created and
\* recorded before the failure.
TunnelTokenFails(t) ==
    /\ At(t, "tokencall")
    /\ owned' \in {owned, [owned EXCEPT ![th[t].svc] = TRUE]}
    /\ mu' = None
    /\ pmu' = None
    /\ Goto(t, "startfail")
    /\ UNCHANGED <<rows, processes, proc, router, loops, doomed>>

\* Faulty variant of StartTunnel: nobody waits for the process.
StartTunnelUnwatched(t, p) ==
    LET s == th[t].svc IN
    /\ At(t, "tokencall")
    /\ Free(p)
    /\ owned' = [owned EXCEPT ![s] = TRUE]
    /\ mu' = None
    /\ pmu' = None
    /\ processes' = [processes EXCEPT ![s] = p]
    /\ proc' = [proc EXCEPT ![p] = Spawned(s, "tunnel", "done")]
    /\ rows' = Runtime(s, "tunnel_running", TRUE)
    /\ Return(t)
    /\ UNCHANGED <<router, loops, doomed>>

\* Without a row the process is taken out of the map and reaped inside the same
\* critical section, so nobody ever sees it.
StartTunnel(t, p) ==
    LET s == th[t].svc IN
    /\ At(t, "tokencall")
    /\ Free(p)
    /\ owned' = [owned EXCEPT ![s] = TRUE]
    /\ mu' = None
    /\ pmu' = None
    /\ \/ /\ Live(rows[s])
          /\ processes' = [processes EXCEPT ![s] = p]
          /\ proc' = [proc EXCEPT ![p] = Spawned(s, "tunnel", "waiting")]
          /\ rows' = Runtime(s, "tunnel_running", TRUE)
          /\ Return(t)
       \/ /\ ~Live(rows[s])
          /\ Goto(t, "startfail")
          /\ UNCHANGED <<rows, processes, proc>>
    /\ UNCHANGED <<router, loops, doomed>>

-------------------------------------------------------------------------------
(* The life of a child process. *)

\* The child ends, by itself or because its context was cancelled.  For a quick
\* tunnel: cmd.Wait has also drained its output.
ProcessExits(p) ==
    /\ proc[p].state = "running"
    /\ proc' = [proc EXCEPT ![p].state = "exited"]
    /\ UNCHANGED <<rows, owned, processes, th, mu, pmu, router, loops, doomed>>

\* Faulty variant of QuickTunnelURL: the output of a process that has been
\* stopped is still believed.
QuickTunnelURLUnchecked(p) ==
    LET s == proc[p].svc IN
    /\ proc[p].state = "running"
    /\ proc[p].kind = "quick"
    /\ ~proc[p].found
    /\ mu = None
    /\ rows' = [rows EXCEPT ![s] =
                  SetServiceRuntime(SetServiceRuntimeURL(@, p),
                                    "tunnel_running", TRUE)]
    /\ proc' = [proc EXCEPT ![p].found = TRUE]
    /\ UNCHANGED <<owned, processes, th, mu, pmu, router, loops, doomed>>

\* quickTunnelOutput.Write finds the URL line.
QuickTunnelURL(p) ==
    LET s == proc[p].svc IN
    /\ proc[p].state = "running"
    /\ proc[p].kind = "quick"
    /\ ~proc[p].found
    /\ mu = None
    /\ processes[s] = p
    /\ ~proc[p].cancelled
    /\ rows' = [rows EXCEPT ![s] =
                  SetServiceRuntime(SetServiceRuntimeURL(@, p),
                                    "tunnel_running", TRUE)]
    /\ proc' = [proc EXCEPT ![p].found = TRUE]
    /\ UNCHANGED <<owned, processes, th, mu, pmu, router, loops, doomed>>

\* Faulty variant of WaitReturns: the error is written for a process that has
\* already been taken out of the map, too.
WaitReturnsUnchecked(p) ==
    LET s == proc[p].svc IN
    /\ proc[p].state = "exited"
    /\ proc[p].wait = "waiting"
    /\ mu = None
    /\ processes' = [processes EXCEPT ![s] = IF @ = p THEN None ELSE @]
    /\ rows' = Runtime(s, "error", TRUE)
    /\ proc' = [proc EXCEPT ![p].wait = "cleanup"]
    /\ UNCHANGED <<owned, th, mu, pmu, router, loops, doomed>>

\* wait: a process that is no longer in the map was stopped by somebody else.
WaitReturns(p) ==
    LET s == proc[p].svc IN
    /\ proc[p].state = "exited"
    /\ proc[p].wait = "waiting"
    /\ mu = None
    /\ \/ /\ processes[s] = p
          /\ processes' = [processes EXCEPT ![s] = None]
          /\ rows' = IF proc[p].cancelled THEN rows ELSE Runtime(s, "error", TRUE)
          /\ proc' = [proc EXCEPT ![p].wait = "cleanup"]
       \/ /\ processes[s] # p
          /\ proc' = [proc EXCEPT ![p].wait = "done"]
          /\ UNCHANGED <<rows, processes>>
    /\ UNCHANGED <<owned, th, mu, pmu, router, loops, doomed>>

\* After the unlock: the recorded mapping is read without the lock.
WaitRemovesGateway(p) ==
    /\ proc[p].wait = "cleanup"
    /\ RemoveRecorded(p)
    /\ proc' = [proc EXCEPT ![p].wait = "done"]
    /\ UNCHANGED <<rows, owned, processes, th, mu, pmu, loops, doomed>>

-------------------------------------------------------------------------------
(* Manager.Stop, called by the api thread, and StopAll at shutdown. *)

Stop(s) ==
    LET p == processes[s] IN
    /\ At("api", "idle")
    /\ rows[s].life # "unborn"
    /\ mu = None
    /\ rows' = Runtime(s, "stopped", FALSE)
    /\ processes' = [processes EXCEPT ![s] = None]
    /\ proc' = IF p = None THEN proc
               ELSE [proc EXCEPT ![p].cancelled = TRUE]
    /\ th' = IF p = None THEN th
             ELSE [th EXCEPT !["api"] =
                     [Idle EXCEPT !.pc = "stopgw", !.svc = s, !.pid = p]]
    /\ UNCHANGED <<owned, mu, pmu, router, loops, doomed>>

\* After the unlock, and still under serviceMu.
StopRemovesGateway ==
    /\ At("api", "stopgw")
    /\ RemoveRecorded(th["api"].pid)
    /\ Return("api")
    /\ UNCHANGED <<rows, owned, processes, proc, mu, pmu, loops, doomed>>

\* StopAll empties the map under the lock and leaves the table alone, so that
\* the services are restored at the next start ...
StopAll ==
    /\ mu = None
    /\ doomed' = doomed \cup {p \in Pids : \E s \in Services : processes[s] = p}
    /\ processes' = [s \in Services |-> None]
    /\ UNCHANGED <<rows, owned, proc, th, mu, pmu, router, loops>>

\* ... and then cancels the processes and removes their mappings one by one.
StopAllCancels(p) ==
    /\ p \in doomed
    /\ doomed' = doomed \ {p}
    /\ proc' = [proc EXCEPT ![p].cancelled = TRUE]
    /\ RemoveRecorded(p)
    /\ UNCHANGED <<rows, owned, processes, th, mu, pmu, loops>>

-------------------------------------------------------------------------------
(* ApplyGatewayMapping, called by the api thread for a mapping announcement, *)
(* with the row it re-read in copy and the announcement in mapping.          *)

ApplyState == gatewayMappingState(th["api"].copy, th["api"].svc, th["api"].mapping)

\* The calls to the gateway.  A UPnP entry whose verification fails, or a lease
\* whose answer is lost or names another port, stays behind.  For fw4 this step
\* lists and prunes the rules; the insertion is another nft command.
GatewayAdd ==
    /\ At("api", "gwadd")
    /\ \/ /\ ApplyState.mode # "fw4"
          /\ router' = router \cup {GatewayEntry(ApplyState)}
          /\ Goto("api", "gwrecord")
       \/ /\ ApplyState.mode = "fw4"
          /\ router' = pruneFirewallRules(router, ApplyState)
          /\ Goto("api", "gwinsert")
       \/ /\ router' = router
          /\ Goto("api", "gwfail")
       \/ /\ RouterFaults
          /\ ApplyState.mode # "fw4"
          /\ router' = router \cup {GatewayEntry(ApplyState)}
          /\ Goto("api", "gwfail")
    /\ UNCHANGED <<rows, owned, processes, proc, mu, pmu, loops, doomed>>

GatewayInsertRule ==
    /\ At("api", "gwinsert")
    /\ \/ /\ router' = router \cup {GatewayEntry(ApplyState)}
          /\ Goto("api", "gwrecord")
       \/ /\ router' = router
          /\ Goto("api", "gwfail")
    /\ UNCHANGED <<rows, owned, processes, proc, mu, pmu, loops, doomed>>

\* Faulty variant of GatewayRecord: the mapping goes to a process of the service
\* looked up before the lock was taken.
GatewayRecordStale ==
    \E p \in Pids :
        /\ At("api", "gwrecord")
        /\ mu = None
        /\ proc[p].svc = th["api"].svc
        /\ proc' = [proc EXCEPT ![p].gw = ApplyState]
        /\ Goto("api", "gwready")
        /\ UNCHANGED <<rows, owned, processes, mu, pmu, router, loops, doomed>>

\* The mapping is recorded on whatever process is registered for the service
\* by now.
GatewayRecord ==
    LET p == processes[th["api"].svc] IN
    /\ At("api", "gwrecord")
    /\ mu = None
    /\ \/ /\ p = None
          /\ Goto("api", "gwundo")
          /\ UNCHANGED proc
       \/ /\ p # None
          /\ proc' = [proc EXCEPT ![p] =
                        [proc[p] EXCEPT !.gw = ApplyState, !.gen = @ + 1]]
          /\ th' = [th EXCEPT !["api"].pid = p,
                              !["api"].gw = proc[p].gw,
                              !["api"].pc = IF proc[p].gw = None
                                            THEN "gwready" ELSE "gwprev"]
    /\ UNCHANGED <<rows, owned, processes, mu, pmu, router, loops, doomed>>

GatewayUndo ==
    /\ At("api", "gwundo")
    /\ RemoveFromRouter(ApplyState)
    /\ Goto("api", "gwfail")
    /\ UNCHANGED <<rows, owned, processes, proc, mu, pmu, loops, doomed>>

RemovePreviousGateway ==
    LET previous == th["api"].gw IN
    /\ At("api", "gwprev")
    /\ IF ~sameGatewayMapping(previous, ApplyState)
          /\ separateGatewayEntry(previous, ApplyState)
       THEN RemoveFromRouter(previous)
       ELSE router' = router
    /\ Goto("api", "gwready")
    /\ UNCHANGED <<rows, owned, processes, proc, mu, pmu, loops, doomed>>

\* Faulty variant of GatewayReady: only leases are kept alive.
GatewayReadyLeasesOnly ==
    LET t == th["api"] IN
    /\ At("api", "gwready")
    /\ loops' = IF ApplyState.mode = "natpmp"
                THEN loops \cup {[pid |-> t.pid, gw |-> ApplyState,
                                  gen |-> proc[t.pid].gen, pc |-> "sleep"]}
                ELSE loops
    /\ CallerWrite(t.svc, "gateway_mapped", TRUE)
    /\ Return("api")
    /\ UNCHANGED <<owned, processes, proc, mu, pmu, router, doomed>>

\* Back from ApplyGatewayMapping without an error: the keep-alive goroutine
\* runs, the handler writes the row and goes on to Cloudflare.
GatewayReady ==
    LET t == th["api"] IN
    /\ At("api", "gwready")
    /\ loops' = IF ApplyState.mode \in {"natpmp", "fw4"}
                THEN loops \cup {[pid |-> t.pid, gw |-> ApplyState,
                                  gen |-> proc[t.pid].gen, pc |-> "sleep"]}
                ELSE loops
    /\ CallerWrite(t.svc, "gateway_mapped", TRUE)
    /\ IF t.copy.mode = "direct" THEN Return("api")
       ELSE th' = [th EXCEPT !["api"].pc = "sync", !["api"].pid = None,
                             !["api"].gw = None]
    /\ UNCHANGED <<owned, processes, proc, mu, pmu, router, doomed>>

GatewayFails ==
    /\ At("api", "gwfail")
    /\ CallerWrite(th["api"].svc, "gateway_error", TRUE)
    /\ Return("api")
    /\ UNCHANGED <<owned, processes, proc, mu, pmu, router, loops, doomed>>

-------------------------------------------------------------------------------
(* renewNATPMP and reassertFirewall *)

LoopEnds(l) ==
    /\ l.pc = "sleep"
    /\ proc[l.pid].cancelled
    /\ loops' = loops \ {l}
    /\ UNCHANGED <<rows, owned, processes, proc, th, mu, pmu, router, doomed>>

\* The ticker fires: the goroutine goes on only while its mapping is the one
\* recorded on the registered process.
LoopTicks(l) ==
    LET p == processes[l.gw.svc]
        current == /\ p # None
                   /\ proc[p].gen = l.gen
                   /\ proc[p].gw # None
                   /\ sameGatewayMapping(proc[p].gw, l.gw)
    IN
    /\ l.pc = "sleep"
    /\ mu = None
    /\ loops' = (loops \ {l}) \cup
                (IF current THEN {[l EXCEPT !.pc = "call"]} ELSE {})
    /\ UNCHANGED <<rows, owned, processes, proc, th, mu, pmu, router, doomed>>

\* The goroutine l moves to pc.
LoopGoto(l, pc) == loops' = (loops \ {l}) \cup {[l EXCEPT !.pc = pc]}

\* The NAT-PMP exchange does not look at the context, only at its deadline.
RenewNATPMP(l) ==
    /\ l.pc = "call"
    /\ l.gw.mode = "natpmp"
    /\ router' = router \cup {GatewayEntry(l.gw)}
    /\ LoopGoto(l, "sleep")
    /\ UNCHANGED <<rows, owned, processes, proc, th, mu, pmu, doomed>>

\* applyFirewallMapping: the nft commands are not started once the context has
\* been cancelled.
ReassertPrunes(l) ==
    /\ l.pc = "call"
    /\ l.gw.mode = "fw4"
    /\ ~proc[l.pid].cancelled
    /\ router' = pruneFirewallRules(router, l.gw)
    /\ LoopGoto(l, "insert")
    /\ UNCHANGED <<rows, owned, processes, proc, th, mu, pmu, doomed>>

ReassertInserts(l) ==
    /\ l.pc = "insert"
    /\ ~proc[l.pid].cancelled
    /\ router' = router \cup {GatewayEntry(l.gw)}
    /\ LoopGoto(l, "sleep")
    /\ UNCHANGED <<rows, owned, processes, proc, th, mu, pmu, doomed>>

\* Faulty variant of LoopFails: the goroutine ends at its first failure.
LoopFailsForGood(l) ==
    /\ l.pc = "call" \/ l.pc = "insert"
    /\ RouterFaults
    /\ rows' = Runtime(l.gw.svc, "gateway_error", TRUE)
    /\ loops' = loops \ {l}
    /\ UNCHANGED <<owned, processes, proc, th, mu, pmu, router, doomed>>

\* A failure is written to the table with enabled = 1, without another look at
\* the map.  A lost NAT-PMP answer, or an nft insertion under way when the
\* context was cancelled, may have taken effect.
LoopFails(l) ==
    /\ \/ l.pc = "call" \/ l.pc = "insert"
    /\ RouterFaults \/ (l.gw.mode = "fw4" /\ proc[l.pid].cancelled)
    /\ \/ router' = router
       \/ /\ l.gw.mode = "natpmp" \/ l.pc = "insert"
          /\ router' = router \cup {GatewayEntry(l.gw)}
    /\ rows' = Runtime(l.gw.svc, "gateway_error", TRUE)
    /\ LoopGoto(l, "sleep")
    /\ UNCHANGED <<owned, processes, proc, th, mu, pmu, doomed>>

\* `fw4 reload` on the router rebuilds the rule set without StunDeck's rules.
FirewallReload ==
    /\ \E e \in router : e.mode = "fw4"
    /\ router' = {e \in router : e.mode # "fw4"}
    /\ UNCHANGED <<rows, owned, processes, proc, th, mu, pmu, loops, doomed>>
===============================================================================

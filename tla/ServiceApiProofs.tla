--------------------------- MODULE ServiceApiProofs ---------------------------
(***************************************************************************)
(* Proofs about ServiceApi for every value of its constants.  IInv is the  *)
(* inductive invariant: with type correctness it says which process the    *)
(* map may name, who waits for it, and what Manager.mu protects while      *)
(* startTunnel waits for Cloudflare.  On top of it: the mappings recorded  *)
(* on processes, the addresses of quick tunnels (UrlInv), the goroutines   *)
(* that keep mappings alive (Renewal), the locks held across network calls *)
(* (LocksHeld), and, where no mapping has to be kept alive (NoLoops),      *)
(* stops and the entries on the gateway.                                   *)
(***************************************************************************)
EXTENDS ServiceApi, FiniteSetTheorems, TLAPS

\* What a call in progress carries in its locals, by program counter.
LocalsOK(x) ==
    /\ x.pc # "idle" => x.svc \in Services
    /\ x.pc \in {"mapping", "gwadd", "gwinsert", "gwrecord", "gwundo",
                 "gwprev", "gwready", "gwfail"}
         => x.mapping \in Mappings
    /\ x.pc \in {"discovering", "stopgw", "gwprev", "gwready"}
         => x.pid \in Pids

CallLocals == \A t \in Threads : LocalsOK(th[t])

\* startTunnel holds Manager.mu across its network calls, so the service it
\* found without a process still has none when the process is registered.
TunnelLock ==
    \A t \in Threads :
        th[t].pc \in {"token", "tokencall"} => mu = t /\ ~Running(th[t].svc)

DoomedUnregistered == \A p \in doomed : ~Registered(p)

RunningHasService ==
    \A p \in Pids : proc[p].state = "running" => proc[p].svc \in Services

\* What the map of processes, the lock and the waiters have to do with each other.
Supervised ==
    /\ TunnelLock
    /\ DoomedUnregistered
    /\ RunningHasService
    /\ EveryConnectorManaged
    /\ EveryEntryWatched

IInv ==
    /\ TypeOK
    /\ CallLocals
    /\ Supervised

-------------------------------------------------------------------------------
(* What the operations on a row, a thread and the gateway preserve. *)

\* The columns SetServiceRuntime writes keep the row a row.
LEMMA SetServiceRuntimeType ==
    ASSUME NEW row \in Row, NEW status \in Statuses, NEW enabled \in BOOLEAN
    PROVE  SetServiceRuntime(row, status, enabled) \in Row
BY DEF SetServiceRuntime, Row

\* The columns of a row that does not exist are those of the table.
LEMMA UnbornRowType == UnbornRow \in Row
BY DEF UnbornRow, Row, PublishModes, AllGatewayModes, Statuses

\* The other writes of the store keep the row a row, too.
LEMMA RowWriteTypes ==
    ASSUME NEW row \in Row, NEW input \in Row
    PROVE  /\ UpdateService(row, input) \in Row
           /\ DeleteService(row) \in Row
           /\ Config(row) \in Row
<1>1. UpdateService(row, input) \in Row
  BY DEF UpdateService, Row
<1>2. DeleteService(row) \in Row
  BY UnbornRowType DEF DeleteService, UnbornRow, Row
<1>3. Config(row) \in Row
  BY UnbornRowType DEF Config, UnbornRow, Row
<1> QED BY <1>1, <1>2, <1>3

\* SetServiceMapping writes a row of the table.
LEMMA SetServiceMappingType ==
    ASSUME NEW row \in Row, NEW m \in Mappings
    PROVE  SetServiceMapping(row, m) \in Row
BY DEF SetServiceMapping, Row, Statuses

\* SetServiceRuntimeURL writes a row of the table.
LEMMA SetServiceRuntimeURLType ==
    ASSUME NEW row \in Row, NEW p \in Pids
    PROVE  SetServiceRuntimeURL(row, p) \in Row
BY DEF SetServiceRuntimeURL, Row

\* An input of a request is a publish mode with a gateway mode.
LEMMA InputType ==
    ASSUME NEW input \in Inputs
    PROVE  CreateService(input) \in Row /\ Config(input) \in Row
<1>1. input.mode \in PublishModes /\ input.gw \in AllGatewayModes
  BY ModeAssumption DEF Inputs, ServiceFromRequest, AllGatewayModes
<1>2. CreateService(input) \in Row
  BY <1>1, UnbornRowType DEF CreateService, UnbornRow, Row
<1>3. Config(input) \in Row
  BY <1>1, UnbornRowType DEF Config, UnbornRow, Row
<1> QED BY <1>2, <1>3

\* The table after a SetServiceRuntime is a table of rows.
LEMMA RuntimeType ==
    ASSUME rows \in [Services -> Row],
           NEW s, NEW status \in Statuses, NEW enabled \in BOOLEAN
    PROVE  Runtime(s, status, enabled) \in [Services -> Row]
BY SetServiceRuntimeType DEF Runtime

\* An idle caller is a caller.
LEMMA IdleType == Idle \in Thread
BY UnbornRowType DEF Idle, Thread, PCs

\* Moving a caller to another step keeps the callers' type.
LEMMA GotoType ==
    ASSUME th \in [Threads -> Thread], NEW t, NEW pc \in PCs, Goto(t, pc)
    PROVE  th' \in [Threads -> Thread]
BY DEF Goto, Thread

\* The end of a call keeps the callers' type.
LEMMA ReturnType ==
    ASSUME th \in [Threads -> Thread], NEW t, Return(t)
    PROVE  th' \in [Threads -> Thread]
BY IdleType DEF Return

\* The beginning of a handler keeps the callers' type.
LEMMA BeginHandlerType ==
    ASSUME th \in [Threads -> Thread], NEW s \in Services, NEW pc \in PCs,
           NEW copy \in Row, BeginHandler(s, pc, copy)
    PROVE  th' \in [Threads -> Thread]
BY IdleType DEF BeginHandler, Idle, Thread

\* A process that has just been started is a process.
LEMMA SpawnedType ==
    ASSUME NEW s \in Services, NEW kind \in {"natmap", "tunnel", "quick"},
           NEW wait \in {"unspawned", "waiting", "done"}
    PROVE  /\ Spawned(s, kind, wait) \in Process
           /\ Unused \in Process
BY DEF Spawned, Unused, Process

\* The writes to one process struct.
LEMMA ProcessWriteTypes ==
    ASSUME NEW x \in Process,
           NEW wait \in {"unspawned", "waiting", "cleanup", "done"}
    PROVE  /\ [x EXCEPT !.wait = wait] \in Process
           /\ [x EXCEPT !.cancelled = TRUE] \in Process
           /\ [x EXCEPT !.state = "exited"] \in Process
           /\ [x EXCEPT !.found = TRUE] \in Process
<1>1. [x EXCEPT !.wait = wait] \in Process
  BY DEF Process
<1>2. [x EXCEPT !.cancelled = TRUE] \in Process
  BY DEF Process
<1>3. [x EXCEPT !.state = "exited"] \in Process
  BY DEF Process
<1>4. [x EXCEPT !.found = TRUE] \in Process
  BY DEF Process
<1> QED BY <1>1, <1>2, <1>3, <1>4

\* Recording a gateway mapping on a process starts its next generation.
LEMMA RecordType ==
    ASSUME NEW x \in Process, NEW g \in Gateways
    PROVE  [x EXCEPT !.gw = g, !.gen = @ + 1] \in Process
<1> DEFINE n == x.gen + 1
<1>1. n \in Nat
  BY DEF Process
<1> HIDE DEF n
<1>2. [x EXCEPT !.gw = g, !.gen = n] \in Process
  BY <1>1 DEF Process
<1> QED BY <1>2 DEF n

\* gatewayMappingState builds a gateway mapping.
LEMMA GatewayStateType ==
    ASSUME TypeOK, th["api"].svc \in Services, th["api"].mapping \in Mappings
    PROVE  ApplyState \in Gateways
BY DEF TypeOK, EngineTypeOK, ApplyState, gatewayMappingState, Gateways, Thread,
       Row, Mappings, Threads

\* The key of a gateway mapping is an entry of the gateway.
LEMMA GatewayEntryType ==
    ASSUME NEW g \in Gateways
    PROVE  GatewayEntry(g) \in Entries
BY DEF GatewayEntry, Gateways, Entries

\* removeGatewayMapping leaves entries on the gateway.
LEMMA RemoveType ==
    ASSUME router \subseteq Entries, NEW g, RemoveFromRouter(g)
    PROVE  router' \subseteq Entries
BY DEF RemoveFromRouter, removeGatewayMapping

\* Removing what a process has recorded leaves entries on the gateway.
LEMMA RemoveRecordedType ==
    ASSUME router \subseteq Entries, NEW p, RemoveRecorded(p)
    PROVE  router' \subseteq Entries
BY RemoveType DEF RemoveRecorded

-------------------------------------------------------------------------------
(* Type correctness, one lemma per group of actions. *)

\* A step of Manager.Start keeps every variable in its type.
LEMMA StartStepType ==
    ASSUME TypeOK, CallLocals, NEW t \in Threads, StartStep(t)
    PROVE  TypeOK'
<1>0. UNCHANGED <<callbacks, boot, snap, todo, up, boots>>
  BY DEF StartStep, apiVars
<1> USE <1>0 DEF TypeOK, EngineTypeOK
<1>1. CASE ValidateTarget(t)
  BY <1>1, GotoType DEF ValidateTarget, PCs
<1>2. CASE AlreadyRunning(t)
  BY <1>2, ReturnType DEF AlreadyRunning
<1>3. CASE SpawnFails(t)
  BY <1>3, GotoType DEF SpawnFails, PCs
<1>4. ASSUME NEW p \in Pids, StartNatmap(t, p)
      PROVE  TypeOK'
  <2>1. th[t].svc \in Services
    BY <1>4 DEF StartNatmap, At, CallLocals, LocalsOK
  <2>2. Spawned(th[t].svc, "natmap", "unspawned") \in Process
    BY <2>1, SpawnedType
  <2>3. th' \in [Threads -> Thread]
    <3>1. "discovering" \in PCs
      BY DEF PCs
    <3>2. [th[t] EXCEPT !.pc = "discovering", !.pid = p] \in Thread
      BY <3>1 DEF Thread
    <3>3. th' = [th EXCEPT ![t] = [@ EXCEPT !.pc = "discovering", !.pid = p]]
      BY <1>4 DEF StartNatmap
    <3> QED BY <3>2, <3>3
  <2> QED BY <1>4, <2>2, <2>3 DEF StartNatmap
<1>5. CASE StartNatmapWrite(t)
  <2>1. rows' \in [Services -> Row]
    BY <1>5, RuntimeType DEF StartNatmapWrite, Statuses
  <2>2. proc' \in [Pids -> Process]
    <3>1. th[t].pid \in Pids
      BY <1>5 DEF StartNatmapWrite, At, CallLocals, LocalsOK
    <3>2. [proc[th[t].pid] EXCEPT !.wait = "waiting"] \in Process
      BY <3>1, ProcessWriteTypes
    <3>3. proc' = [proc EXCEPT ![th[t].pid] = [@ EXCEPT !.wait = "waiting"]]
      BY <1>5 DEF StartNatmapWrite
    <3> QED BY <3>1, <3>2, <3>3
  <2> QED BY <1>5, <2>1, <2>2, ReturnType DEF StartNatmapWrite
<1>6. ASSUME NEW p \in Pids, StartQuickTunnel(t, p)
      PROVE  TypeOK'
  <2> DEFINE S == th[t].svc
  <2>1. S \in Services
    BY <1>6 DEF StartQuickTunnel, At, CallLocals, LocalsOK
  <2>2. Spawned(S, "quick", "waiting") \in Process
    BY <2>1, SpawnedType
  <2>3. [Spawned(S, "quick", "done") EXCEPT !.cancelled = TRUE] \in Process
    <3>1. Spawned(S, "quick", "done") \in Process
      BY <2>1, SpawnedType
    <3> QED BY <3>1 DEF Process
  <2>4. proc' \in [Pids -> Process]
    BY <1>6, <2>2, <2>3 DEF StartQuickTunnel
  <2>5. th' \in [Threads -> Thread]
    BY <1>6, GotoType, ReturnType DEF StartQuickTunnel, PCs
  <2>6. rows' \in [Services -> Row]
    <3>1. Runtime(S, "tunnel_starting", TRUE) \in [Services -> Row]
      BY RuntimeType DEF Statuses
    <3> QED BY <1>6, <3>1 DEF StartQuickTunnel
  <2>7. processes' \in [Services -> Pids \cup {None}]
    BY <1>6 DEF StartQuickTunnel
  <2> QED BY <1>6, <2>4, <2>5, <2>6, <2>7 DEF StartQuickTunnel
<1>7. CASE StartTunnelLock(t)
  BY <1>7, GotoType DEF StartTunnelLock, PCs
<1>8. CASE TunnelTokenCall(t)
  BY <1>8, GotoType DEF TunnelTokenCall, PCs
<1>9. CASE TunnelTokenFails(t)
  BY <1>9, GotoType DEF TunnelTokenFails, PCs
<1>10. ASSUME NEW p \in Pids, StartTunnel(t, p)
       PROVE  TypeOK'
  <2> DEFINE S == th[t].svc
  <2>1. S \in Services
    BY <1>10 DEF StartTunnel, At, CallLocals, LocalsOK
  <2>2. Spawned(S, "tunnel", "waiting") \in Process
    BY <2>1, SpawnedType
  <2>3. proc' \in [Pids -> Process]
    BY <1>10, <2>2 DEF StartTunnel
  <2>4. th' \in [Threads -> Thread]
    BY <1>10, GotoType, ReturnType DEF StartTunnel, PCs
  <2>5. rows' \in [Services -> Row]
    <3>1. Runtime(S, "tunnel_running", TRUE) \in [Services -> Row]
      BY RuntimeType DEF Statuses
    <3> QED BY <1>10, <3>1 DEF StartTunnel
  <2>6. processes' \in [Services -> Pids \cup {None}]
    BY <1>10 DEF StartTunnel
  <2> QED BY <1>10, <2>3, <2>4, <2>5, <2>6 DEF StartTunnel
<1> QED
  BY <1>1, <1>2, <1>3, <1>4, <1>5, <1>6, <1>7, <1>8, <1>9, <1>10 DEF StartStep

\* A step of ApplyGatewayMapping, or the end of Stop, keeps the types.
LEMMA GatewayStepType ==
    ASSUME TypeOK, CallLocals, GatewayStep
    PROVE  TypeOK'
<1>0. UNCHANGED <<callbacks, boot, snap, todo, up, boots>>
  BY DEF GatewayStep, apiVars
<1> USE <1>0 DEF TypeOK, EngineTypeOK
<1>a. th["api"] \in Thread /\ "api" \in Threads
  BY DEF Threads
<1>b. ASSUME th["api"].pc \in {"gwadd", "gwinsert", "gwrecord", "gwundo",
                               "gwprev", "gwready", "gwfail"}
      PROVE  /\ th["api"].svc \in Services
             /\ ApplyState \in Gateways
             /\ GatewayEntry(ApplyState) \in Entries
  <2>1. th["api"].svc \in Services /\ th["api"].mapping \in Mappings
    BY <1>a, <1>b DEF CallLocals, LocalsOK
  <2> QED BY <2>1, GatewayStateType, GatewayEntryType
<1>1. CASE StopRemovesGateway
  BY <1>1, ReturnType, RemoveRecordedType DEF StopRemovesGateway
<1>2. CASE GatewayAdd
  <2>1. router' \subseteq Entries
    BY <1>2, <1>b DEF GatewayAdd, At, pruneFirewallRules
  <2> QED BY <1>2, <2>1, GotoType DEF GatewayAdd, PCs
<1>3. CASE GatewayInsertRule
  <2>1. router' \subseteq Entries
    BY <1>3, <1>b DEF GatewayInsertRule, At
  <2> QED BY <1>3, <2>1, GotoType DEF GatewayInsertRule, PCs
<1>4. CASE GatewayRecord
  <2> DEFINE P == processes[th["api"].svc]
  <2>1. th["api"].svc \in Services /\ ApplyState \in Gateways
    BY <1>4, <1>b DEF GatewayRecord, At
  <2>2. CASE P = None
    BY <1>4, <2>2, GotoType DEF GatewayRecord, PCs
  <2>3. CASE P # None
    <3>1. P \in Pids /\ proc[P] \in Process
      BY <2>1, <2>3
    <3>2. proc' \in [Pids -> Process]
      <4> DEFINE rec == [proc[P] EXCEPT !.gw = ApplyState, !.gen = @ + 1]
      <4>1. rec \in Process
        BY <2>1, <3>1, RecordType
      <4>2. proc' = [proc EXCEPT ![P] = rec]
        BY <1>4, <2>3 DEF GatewayRecord
      <4> HIDE DEF P, rec
      <4> QED BY <3>1, <4>1, <4>2
    <3>3. th' \in [Threads -> Thread]
      <4> DEFINE next == IF proc[P].gw = None THEN "gwready" ELSE "gwprev"
      <4>1. next \in PCs /\ proc[P].gw \in Gateways \cup {None}
        BY <3>1 DEF PCs, Process
      <4>2. th' = [th EXCEPT !["api"] =
                     [@ EXCEPT !.pid = P, !.gw = proc[P].gw, !.pc = next]]
        BY <1>4, <2>3 DEF GatewayRecord
      <4> HIDE DEF next
      <4>3. [th["api"] EXCEPT !.pid = P, !.gw = proc[P].gw, !.pc = next] \in Thread
        BY <1>a, <3>1, <4>1 DEF Thread
      <4> QED BY <4>2, <4>3
    <3> QED BY <1>4, <2>3, <3>2, <3>3 DEF GatewayRecord
  <2> QED BY <2>2, <2>3
<1>5. CASE GatewayUndo
  BY <1>5, GotoType, RemoveType DEF GatewayUndo, PCs
<1>6. CASE RemovePreviousGateway
  BY <1>6, GotoType, RemoveType DEF RemovePreviousGateway, PCs
<1>7. CASE GatewayReady
  <2>1. th["api"].svc \in Services /\ ApplyState \in Gateways
    BY <1>7, <1>b DEF GatewayReady, At
  <2>2. th["api"].pid \in Pids
    BY <1>a, <1>7 DEF GatewayReady, At, CallLocals, LocalsOK
  <2>3. [pid |-> th["api"].pid, gw |-> ApplyState,
         gen |-> proc[th["api"].pid].gen, pc |-> "sleep"] \in Loop
    BY <2>1, <2>2 DEF Loop, Process
  <2>4. rows' \in [Services -> Row]
    <3>1. Runtime(th["api"].svc, "gateway_mapped", TRUE) \in [Services -> Row]
      BY RuntimeType DEF Statuses
    <3> QED BY <1>7, <3>1 DEF GatewayReady, CallerWrite
  <2>5. th' \in [Threads -> Thread]
    <3>1. CASE Return("api")
      BY <3>1, ReturnType
    <3>2. CASE ~Return("api")
      BY <1>7, <3>2, <1>a DEF GatewayReady, Thread, PCs
    <3> QED BY <3>1, <3>2
  <2> QED BY <1>7, <2>3, <2>4, <2>5 DEF GatewayReady
<1>8. CASE GatewayFails
  <2>1. rows' \in [Services -> Row]
    <3>1. Runtime(th["api"].svc, "gateway_error", TRUE) \in [Services -> Row]
      BY RuntimeType DEF Statuses
    <3> QED BY <1>8, <3>1 DEF GatewayFails, CallerWrite
  <2> QED BY <1>8, <2>1, ReturnType DEF GatewayFails
<1> QED
  BY <1>1, <1>2, <1>3, <1>4, <1>5, <1>6, <1>7, <1>8 DEF GatewayStep

\* A step in the life of a child process keeps the types.
LEMMA ProcessStepType ==
    ASSUME TypeOK, NEW p \in Pids, ProcessStep(p)
    PROVE  TypeOK'
<1>0. UNCHANGED <<callbacks, boot, snap, todo, up, boots>>
  BY DEF ProcessStep, apiVars
<1> USE <1>0 DEF TypeOK, EngineTypeOK
<1>a. proc[p] \in Process
  OBVIOUS
<1>1. CASE ProcessExits(p)
  <2>1. [proc[p] EXCEPT !.state = "exited"] \in Process
    BY <1>a, ProcessWriteTypes
  <2>2. proc' \in [Pids -> Process]
    BY <1>1, <2>1 DEF ProcessExits
  <2> QED BY <1>1, <2>2 DEF ProcessExits
<1>2. CASE QuickTunnelURL(p)
  <2> DEFINE S == proc[p].svc
  <2>1. SetServiceRuntimeURL(rows[S], p) \in Row \/ S \notin Services
    BY SetServiceRuntimeURLType
  <2>2. \/ SetServiceRuntime(SetServiceRuntimeURL(rows[S], p), "tunnel_running", TRUE) \in Row
        \/ S \notin Services
    BY <2>1, SetServiceRuntimeType DEF Statuses
  <2>3. rows' \in [Services -> Row]
    BY <1>2, <2>2 DEF QuickTunnelURL
  <2>4. [proc[p] EXCEPT !.found = TRUE] \in Process
    BY <1>a, ProcessWriteTypes
  <2>5. proc' \in [Pids -> Process]
    BY <1>2, <2>4 DEF QuickTunnelURL
  <2> QED BY <1>2, <2>3, <2>5 DEF QuickTunnelURL
<1>3. CASE WaitReturns(p)
  <2>1. Runtime(proc[p].svc, "error", TRUE) \in [Services -> Row]
    BY RuntimeType DEF Statuses
  <2>2. rows' \in [Services -> Row]
    BY <1>3, <2>1 DEF WaitReturns
  <2>3. /\ [proc[p] EXCEPT !.wait = "cleanup"] \in Process
        /\ [proc[p] EXCEPT !.wait = "done"] \in Process
    BY <1>a, ProcessWriteTypes
  <2>4. proc' \in [Pids -> Process]
    BY <1>3, <2>3 DEF WaitReturns
  <2>5. processes' \in [Services -> Pids \cup {None}]
    BY <1>3 DEF WaitReturns
  <2> QED BY <1>3, <2>2, <2>4, <2>5 DEF WaitReturns
<1>4. CASE WaitRemovesGateway(p)
  <2>1. [proc[p] EXCEPT !.wait = "done"] \in Process
    BY <1>a, ProcessWriteTypes
  <2>2. proc' \in [Pids -> Process]
    BY <1>4, <2>1 DEF WaitRemovesGateway
  <2> QED BY <1>4, <2>2, RemoveRecordedType DEF WaitRemovesGateway
<1>5. CASE StopAllCancels(p)
  <2>1. [proc[p] EXCEPT !.cancelled = TRUE] \in Process
    BY <1>a, ProcessWriteTypes
  <2>2. proc' \in [Pids -> Process]
    BY <1>5, <2>1 DEF StopAllCancels
  <2> QED BY <1>5, <2>2, RemoveRecordedType DEF StopAllCancels
<1> QED BY <1>1, <1>2, <1>3, <1>4, <1>5 DEF ProcessStep

\* A goroutine that keeps a mapping alive keeps the types.
LEMMA LoopStepType ==
    ASSUME TypeOK, NEW l \in loops, LoopStep(l)
    PROVE  TypeOK'
<1>0. UNCHANGED <<callbacks, boot, snap, todo, up, boots>>
  BY DEF LoopStep, apiVars
<1> USE <1>0 DEF TypeOK, EngineTypeOK
<1>a. l \in Loop /\ l.gw \in Gateways /\ GatewayEntry(l.gw) \in Entries
  BY GatewayEntryType DEF Loop
<1>b. ASSUME NEW pc \in {"sleep", "call", "insert"}
      PROVE  [l EXCEPT !.pc = pc] \in Loop
  BY <1>a DEF Loop
<1>c. ASSUME NEW pc \in {"sleep", "call", "insert"}, LoopGoto(l, pc)
      PROVE  loops' \subseteq Loop
  BY <1>b, <1>c DEF LoopGoto
<1>1. CASE LoopEnds(l)
  BY <1>1 DEF LoopEnds
<1>2. CASE LoopTicks(l)
  BY <1>2, <1>b DEF LoopTicks
<1>3. CASE RenewNATPMP(l)
  BY <1>3, <1>a, <1>c DEF RenewNATPMP
<1>4. CASE ReassertPrunes(l)
  BY <1>4, <1>c DEF ReassertPrunes, pruneFirewallRules
<1>5. CASE ReassertInserts(l)
  BY <1>5, <1>a, <1>c DEF ReassertInserts
<1>6. CASE LoopFails(l)
  <2>1. Runtime(l.gw.svc, "gateway_error", TRUE) \in [Services -> Row]
    BY RuntimeType DEF Statuses
  <2> QED BY <1>6, <1>a, <1>c, <2>1 DEF LoopFails
<1> QED BY <1>1, <1>2, <1>3, <1>4, <1>5, <1>6 DEF LoopStep

\* The first step of a request keeps the types.
LEMMA BeginRequestType ==
    ASSUME TypeOK, NEW s \in Services, BeginRequest(s)
    PROVE  TypeOK'
<1> USE DEF TypeOK, EngineTypeOK, apiVars
<1>a. rows[s] \in Row /\ Config(rows[s]) \in Row
  BY UnbornRowType DEF Config, UnbornRow, Row
<1>1. ASSUME NEW input \in Inputs, HandleCreate(s, input)
      PROVE  TypeOK'
  <2>1. CreateService(input) \in Row
    BY InputType
  <2> QED BY <1>1, <2>1 DEF HandleCreate
<1>2. ASSUME NEW input \in Inputs, HandleUpdate(s, input)
      PROVE  TypeOK'
  <2>1. Config(input) \in Row
    BY InputType
  <2>2. th' \in [Threads -> Thread]
    BY <1>2, <2>1, BeginHandlerType DEF HandleUpdate, PCs
  <2> QED BY <1>2, <2>2 DEF HandleUpdate
<1>3. CASE HandleDelete(s)
  BY <1>3, UnbornRowType, BeginHandlerType DEF HandleDelete, PCs
<1>4. CASE HandleStart(s)
  BY <1>4, <1>a, BeginHandlerType DEF HandleStart, PCs
<1>5. CASE HandleStop(s)
  <2> DEFINE P == processes[s]
  <2>0. Stop(s) /\ UNCHANGED <<callbacks, boot, snap, todo, up, boots>>
    BY <1>5 DEF HandleStop
  <2>1. rows' \in [Services -> Row]
    BY <2>0, RuntimeType DEF Stop, Statuses
  <2>2. processes' \in [Services -> Pids \cup {None}]
    BY <2>0 DEF Stop
  <2>3. CASE P = None
    BY <2>0, <2>1, <2>2, <2>3 DEF Stop
  <2>4. CASE P # None
    <3>1. P \in Pids /\ [proc[P] EXCEPT !.cancelled = TRUE] \in Process
      BY <2>4, ProcessWriteTypes
    <3>2. proc' \in [Pids -> Process]
      BY <2>0, <2>4, <3>1 DEF Stop
    <3>3. [Idle EXCEPT !.pc = "stopgw", !.svc = s, !.pid = P] \in Thread
      <4>1. "stopgw" \in PCs
        BY DEF PCs
      <4> QED BY <3>1, <4>1, IdleType DEF Thread, Idle
    <3>4. th' \in [Threads -> Thread]
      BY <2>0, <2>4, <3>3 DEF Stop
    <3> QED BY <2>0, <2>1, <2>2, <3>2, <3>4 DEF Stop
  <2> QED BY <2>3, <2>4
<1>6. CASE HandleSync(s)
  BY <1>6, <1>a, BeginHandlerType DEF HandleSync, PCs
<1>7. CASE HandleCleanup(s)
  BY <1>7, UnbornRowType, BeginHandlerType DEF HandleCleanup, PCs
<1> QED BY <1>1, <1>2, <1>3, <1>4, <1>5, <1>6, <1>7 DEF BeginRequest

\* The later steps of a request or of the mapping goroutine keep the types.
LEMMA HandlerStepType ==
    ASSUME TypeOK, CallLocals, HandlerStep
    PROVE  TypeOK'
<1> USE DEF TypeOK, EngineTypeOK, apiVars
<1>a. th["api"] \in Thread /\ "api" \in Threads
  BY DEF Threads
<1>b. th["api"].copy \in Row /\ th["api"].copy.status \in Statuses
      /\ th["api"].copy.enabled \in BOOLEAN
  BY <1>a DEF Thread, Row
<1>c. SyncError => th' \in [Threads -> Thread]
  BY ReturnType, GotoType DEF SyncError, PCs
<1>1. CASE UpdateWrite
  <2>1. rows' \in [Services -> Row]
    BY <1>1, <1>b, RowWriteTypes DEF UpdateWrite
  <2> QED BY <1>1, <2>1, ReturnType DEF UpdateWrite
<1>2. CASE DeleteWrite
  <2>1. rows' \in [Services -> Row]
    BY <1>2, RowWriteTypes DEF DeleteWrite
  <2> QED BY <1>2, <2>1, ReturnType DEF DeleteWrite
<1>3. CASE SyncLock
  <2>1. th' \in [Threads -> Thread]
    BY <1>3, <1>c, GotoType DEF SyncLock, PCs
  <2> QED BY <1>3, <1>a, <2>1 DEF SyncLock
<1>4. CASE SyncCall
  <2>1. th' \in [Threads -> Thread]
    BY <1>4, <1>c, GotoType DEF SyncCall, PCs
  <2> QED BY <1>4, <2>1 DEF SyncCall
<1>5. CASE SyncWrite
  <2> DEFINE C == th["api"].copy
             status == IF ~UsesConnector(C) /\ C.enabled THEN "healthy"
                       ELSE C.status
  <2>1. status \in Statuses
    BY <1>b DEF Statuses
  <2>2. Runtime(th["api"].svc, status, C.enabled) \in [Services -> Row]
    BY <1>b, <2>1, RuntimeType
  <2>3. rows' \in [Services -> Row]
    BY <1>5, <2>2 DEF SyncWrite
  <2>4. th' \in [Threads -> Thread]
    BY <1>5, <1>c, ReturnType DEF SyncWrite
  <2> QED BY <1>5, <2>3, <2>4 DEF SyncWrite
<1>6. CASE SyncErrorWrite
  <2>1. Runtime(th["api"].svc, "sync_error", TRUE) \in [Services -> Row]
    BY RuntimeType DEF Statuses
  <2> QED BY <1>6, <2>1, ReturnType DEF SyncErrorWrite, CallerWrite
<1>7. CASE CleanupLock
  BY <1>7, <1>a, GotoType DEF CleanupLock, PCs
<1>8. CASE CleanupCall
  BY <1>8, ReturnType DEF CleanupCall
<1>9. CASE SaveMapping
  <2> DEFINE S == th["api"].svc
             saved == SetServiceMapping(rows[S], th["api"].mapping)
  <2>1. S \in Services /\ th["api"].mapping \in Mappings
    BY <1>9, <1>a DEF SaveMapping, At, CallLocals, LocalsOK
  <2>2. saved \in Row
    BY <2>1, SetServiceMappingType
  <2> HIDE DEF saved
  <2>3. rows' \in [Services -> Row]
    BY <1>9, <2>2 DEF SaveMapping, saved
  <2>4. th' \in [Threads -> Thread]
    <3>1. CASE Return("api")
      BY <3>1, ReturnType
    <3>2. CASE ~Return("api")
      <4> DEFINE next == IF saved.gw = "none" THEN "sync" ELSE "gwadd"
      <4>1. next \in PCs
        BY DEF PCs
      <4>2. th' = [th EXCEPT !["api"].copy = saved, !["api"].pc = next]
        BY <1>9, <3>2 DEF SaveMapping, saved
      <4> HIDE DEF next
      <4>3. [th["api"] EXCEPT !.copy = saved, !.pc = next] \in Thread
        BY <1>a, <2>2, <4>1 DEF Thread
      <4> QED BY <4>2, <4>3
    <3> QED BY <3>1, <3>2
  <2> QED BY <1>9, <2>3, <2>4 DEF SaveMapping
<1> QED
  BY <1>1, <1>2, <1>3, <1>4, <1>5, <1>6, <1>7, <1>8, <1>9 DEF HandlerStep

\* Announcements, boot, shutdown and restart keep the types.
LEMMA SystemStepType ==
    ASSUME TypeOK, RunningHasService,
           \/ \E t \in Threads : StartFails(t)
           \/ \E s \in Services : RestoreNext(s)
           \/ \E p \in Pids, m \in Mappings : NatmapEvent(p, m)
           \/ \E c \in callbacks : HandleMapping(c)
           \/ FirewallReload /\ UNCHANGED apiVars
           \/ RestoreSnapshot
           \/ Shutdown
           \/ Restart
    PROVE  TypeOK'
<1> USE DEF TypeOK, EngineTypeOK, apiVars, engineVars
<1>1. ASSUME NEW t \in Threads, StartFails(t)
      PROVE  TypeOK'
  <2>1. /\ Runtime(th[t].svc, "error", FALSE) \in [Services -> Row]
        /\ Runtime(th[t].svc, "error", TRUE) \in [Services -> Row]
    BY RuntimeType DEF Statuses
  <2>2. rows' \in [Services -> Row]
    BY <1>1, <2>1 DEF StartFails, CallerWrite
  <2> QED BY <1>1, <2>2, ReturnType DEF StartFails
<1>2. ASSUME NEW s \in Services, RestoreNext(s)
      PROVE  TypeOK'
  <2>1. [Idle EXCEPT !.pc = "validate", !.svc = s, !.copy = snap[s]] \in Thread
    <3>1. "validate" \in PCs
      BY DEF PCs
    <3> QED BY <3>1, IdleType DEF Thread, Idle
  <2>2. th' \in [Threads -> Thread]
    BY <1>2, <2>1 DEF RestoreNext
  <2>3. snap' \in [Services -> Row]
    BY <1>2, UnbornRowType DEF RestoreNext
  <2> QED BY <1>2, <2>2, <2>3 DEF RestoreNext
<1>3. ASSUME NEW p \in Pids, NEW m \in Mappings, NatmapEvent(p, m)
      PROVE  TypeOK'
  <2>1. [svc |-> proc[p].svc, mapping |-> m] \in Callbacks
    BY <1>3 DEF NatmapEvent, RunningHasService, Callbacks
  <2> QED BY <1>3, <2>1 DEF NatmapEvent
<1>4. ASSUME NEW c \in callbacks, HandleMapping(c)
      PROVE  TypeOK'
  <2>1. c.svc \in Services /\ c.mapping \in Mappings
    BY DEF Callbacks
  <2>2. [Idle EXCEPT !.pc = "mapping", !.svc = c.svc, !.mapping = c.mapping] \in Thread
    <3>1. "mapping" \in PCs
      BY DEF PCs
    <3> QED BY <2>1, <3>1, IdleType DEF Thread, Idle
  <2>3. th' \in [Threads -> Thread]
    BY <1>4, <2>2 DEF HandleMapping
  <2> QED BY <1>4, <2>3 DEF HandleMapping
<1>5. CASE FirewallReload /\ UNCHANGED apiVars
  BY <1>5 DEF FirewallReload
<1>6. CASE RestoreSnapshot
  <2>1. snap' \in [Services -> Row]
    BY <1>6, RowWriteTypes, UnbornRowType DEF RestoreSnapshot
  <2> QED BY <1>6, <2>1 DEF RestoreSnapshot
<1>7. CASE Shutdown
  BY <1>7 DEF Shutdown, StopAll
<1>8. CASE Restart
  <2>1. Unused \in Process /\ [Unused EXCEPT !.state = "lost"] \in Process
    BY DEF Unused, Process
  <2>2. proc' \in [Pids -> Process]
    BY <1>8, <2>1 DEF Restart
  <2>3. th' \in [Threads -> Thread]
    BY <1>8, IdleType DEF Restart
  <2> QED BY <1>8, <2>2, <2>3, UnbornRowType DEF Restart
<1> QED BY <1>1, <1>2, <1>3, <1>4, <1>5, <1>6, <1>7, <1>8

-------------------------------------------------------------------------------
(* The locals of the calls in progress. *)

\* Only the thread that moves changes its locals.
LEMMA LocalsSet ==
    ASSUME th \in [Threads -> Thread], CallLocals, NEW t \in Threads, NEW x,
           LocalsOK(x), th' = [th EXCEPT ![t] = x]
    PROVE  CallLocals'
BY DEF CallLocals, LocalsOK

\* A caller that moves on keeps the locals its next step needs.
LEMMA LocalsGoto ==
    ASSUME th \in [Threads -> Thread], CallLocals, NEW t \in Threads, NEW pc,
           Goto(t, pc), LocalsOK([th[t] EXCEPT !.pc = pc])
    PROVE  CallLocals'
BY LocalsSet DEF Goto

\* A caller that returns has no locals left.
LEMMA LocalsReturn ==
    ASSUME th \in [Threads -> Thread], CallLocals, NEW t \in Threads, Return(t)
    PROVE  CallLocals'
BY LocalsSet DEF Return, LocalsOK, Idle

\* A thread that goes on in a call it has begun keeps the service; the steps of
\* ApplyGatewayMapping follow each other with the same mapping.
LEMMA LocalsNext ==
    ASSUME TypeOK, CallLocals, NEW t \in Threads, NEW pc, Goto(t, pc),
           th[t].pc # "idle",
           pc \in {"mapping", "gwadd", "gwinsert", "gwrecord", "gwundo",
                   "gwprev", "gwready", "gwfail"}
             => th[t].pc \in {"mapping", "gwadd", "gwinsert", "gwrecord",
                              "gwundo", "gwprev", "gwready", "gwfail"},
           pc \in {"discovering", "stopgw", "gwprev", "gwready"}
             => th[t].pc \in {"discovering", "stopgw", "gwprev", "gwready"}
    PROVE  CallLocals'
<1>1. th \in [Threads -> Thread] /\ th[t] \in Thread
  BY DEF TypeOK, EngineTypeOK
<1>2. [th[t] EXCEPT !.pc = pc] = [pc |-> pc, svc |-> th[t].svc,
         copy |-> th[t].copy, pid |-> th[t].pid, mapping |-> th[t].mapping,
         gw |-> th[t].gw]
  BY <1>1 DEF Thread
<1>3. LocalsOK([th[t] EXCEPT !.pc = pc])
  BY <1>2 DEF CallLocals, LocalsOK
<1> QED BY <1>1, <1>3, LocalsGoto

\* A handler begins with the locals its first step needs.
LEMMA LocalsBegin ==
    ASSUME th \in [Threads -> Thread], CallLocals, NEW s \in Services,
           NEW pc \in {"update", "delete", "validate", "sync", "cleanup"},
           NEW copy, BeginHandler(s, pc, copy)
    PROVE  CallLocals'
<1>1. LocalsOK([Idle EXCEPT !.pc = pc, !.svc = s, !.copy = copy])
  BY DEF LocalsOK, Idle
<1> QED BY <1>1, LocalsSet DEF BeginHandler, Threads

\* A step of Manager.Start keeps the locals.
LEMMA StartStepLocals ==
    ASSUME TypeOK, CallLocals, NEW t \in Threads, StartStep(t)
    PROVE  CallLocals'
<1>0. th \in [Threads -> Thread] /\ th[t] \in Thread /\ LocalsOK(th[t])
  BY DEF TypeOK, EngineTypeOK, CallLocals
<1>1. ASSUME NEW pc \in {"register", "startfail", "token", "tokencall"},
             Goto(t, pc), th[t].pc # "idle"
      PROVE  CallLocals'
  BY <1>1, LocalsNext
<1>2. ASSUME NEW p \in Pids, StartNatmap(t, p)
      PROVE  CallLocals'
  <2>1. LocalsOK([th[t] EXCEPT !.pc = "discovering", !.pid = p])
    BY <1>0, <1>2 DEF StartNatmap, At, Thread, LocalsOK
  <2> QED BY <1>0, <1>2, <2>1, LocalsSet DEF StartNatmap
<1>3. CASE ValidateTarget(t)
  BY <1>3, <1>1 DEF ValidateTarget, At
<1>4. CASE AlreadyRunning(t) \/ StartNatmapWrite(t)
  BY <1>0, <1>4, LocalsReturn DEF AlreadyRunning, StartNatmapWrite
<1>5. CASE SpawnFails(t)
  BY <1>5, <1>1 DEF SpawnFails, At
<1>6. CASE \E p \in Pids : StartQuickTunnel(t, p)
  BY <1>0, <1>6, <1>1, LocalsReturn DEF StartQuickTunnel, At
<1>7. CASE StartTunnelLock(t)
  BY <1>7, <1>1 DEF StartTunnelLock, At
<1>8. CASE TunnelTokenCall(t)
  BY <1>8, <1>1 DEF TunnelTokenCall, At
<1>9. CASE TunnelTokenFails(t)
  BY <1>9, <1>1 DEF TunnelTokenFails, At
<1>10. CASE \E p \in Pids : StartTunnel(t, p)
  BY <1>0, <1>10, <1>1, LocalsReturn DEF StartTunnel, At
<1> QED
  BY <1>2, <1>3, <1>4, <1>5, <1>6, <1>7, <1>8, <1>9, <1>10 DEF StartStep

\* ApplyGatewayMapping carries its mapping from step to step.
LEMMA GatewayStepLocals ==
    ASSUME TypeOK, CallLocals, GatewayStep
    PROVE  CallLocals'
<1>0. /\ th \in [Threads -> Thread] /\ "api" \in Threads
      /\ th["api"] \in Thread /\ LocalsOK(th["api"])
  BY DEF TypeOK, EngineTypeOK, CallLocals, Threads
<1>1. ASSUME NEW pc \in {"gwadd", "gwinsert", "gwrecord", "gwundo", "gwfail"},
             Goto("api", pc),
             th["api"].pc \in {"gwadd", "gwinsert", "gwrecord", "gwundo"}
      PROVE  CallLocals'
  BY <1>0, <1>1, LocalsNext
<1>2. CASE StopRemovesGateway \/ GatewayFails
  BY <1>0, <1>2, LocalsReturn DEF StopRemovesGateway, GatewayFails
<1>3. CASE GatewayAdd
  BY <1>1, <1>3 DEF GatewayAdd, At
<1>4. CASE GatewayInsertRule
  BY <1>1, <1>4 DEF GatewayInsertRule, At
<1>5. CASE GatewayRecord
  <2> DEFINE P == processes[th["api"].svc]
             next == IF proc[P].gw = None THEN "gwready" ELSE "gwprev"
  <2>1. th["api"].svc \in Services /\ th["api"].mapping \in Mappings
    BY <1>0, <1>5 DEF GatewayRecord, At, LocalsOK
  <2>2. CASE P = None
    BY <1>1, <1>5, <2>2 DEF GatewayRecord, At
  <2>3. CASE P # None
    <3>1. P \in Pids
      BY <2>1, <2>3 DEF TypeOK, EngineTypeOK
    <3>2. LocalsOK([th["api"] EXCEPT !.pid = P, !.gw = proc[P].gw, !.pc = next])
      BY <1>0, <2>1, <3>1 DEF LocalsOK, Thread
    <3>3. th' = [th EXCEPT !["api"] =
                   [th["api"] EXCEPT !.pid = P, !.gw = proc[P].gw, !.pc = next]]
      BY <1>5, <2>3 DEF GatewayRecord
    <3> HIDE DEF P, next
    <3> QED BY <1>0, <3>2, <3>3, LocalsSet
  <2> QED BY <2>2, <2>3
<1>6. CASE GatewayUndo
  BY <1>1, <1>6 DEF GatewayUndo, At
<1>7. CASE RemovePreviousGateway
  <2>1. Goto("api", "gwready") /\ th["api"].pc = "gwprev"
    BY <1>7 DEF RemovePreviousGateway, At
  <2> QED BY <1>0, <2>1, LocalsNext
<1>8. CASE GatewayReady
  <2>1. CASE Return("api")
    BY <1>0, <2>1, LocalsReturn
  <2>2. CASE ~Return("api")
    <3>1. th' = [th EXCEPT !["api"] =
                   [th["api"] EXCEPT !.pc = "sync", !.pid = None, !.gw = None]]
      BY <1>8, <2>2 DEF GatewayReady
    <3>2. LocalsOK([th["api"] EXCEPT !.pc = "sync", !.pid = None, !.gw = None])
      BY <1>0, <1>8 DEF GatewayReady, At, LocalsOK, Thread
    <3> QED BY <1>0, <3>1, <3>2, LocalsSet
  <2> QED BY <2>1, <2>2
<1> QED BY <1>2, <1>3, <1>4, <1>5, <1>6, <1>7, <1>8 DEF GatewayStep

\* The first and the later steps of the handlers keep the locals.
LEMMA HandlerLocals ==
    ASSUME TypeOK, CallLocals,
           HandlerStep \/ \E s \in Services : BeginRequest(s)
    PROVE  CallLocals'
<1>0. /\ th \in [Threads -> Thread] /\ "api" \in Threads
      /\ th["api"] \in Thread /\ LocalsOK(th["api"])
  BY DEF TypeOK, EngineTypeOK, CallLocals, Threads
<1>1. ASSUME NEW pc \in {"syncing", "syncwrite", "cleaning", "syncerr"},
             Goto("api", pc), th["api"].pc # "idle"
      PROVE  CallLocals'
  BY <1>0, <1>1, LocalsNext
<1>2. SyncError /\ th["api"].pc # "idle" => CallLocals'
  BY <1>0, <1>1, LocalsReturn DEF SyncError
<1>3. CASE UpdateWrite \/ DeleteWrite \/ SyncErrorWrite \/ CleanupCall
  BY <1>0, <1>3, LocalsReturn
     DEF UpdateWrite, DeleteWrite, SyncErrorWrite, CleanupCall
<1>4. CASE SyncLock
  BY <1>1, <1>2, <1>4 DEF SyncLock, At
<1>5. CASE SyncCall
  BY <1>1, <1>2, <1>5 DEF SyncCall, At
<1>6. CASE SyncWrite
  BY <1>0, <1>2, <1>6, LocalsReturn DEF SyncWrite, At
<1>7. CASE CleanupLock
  BY <1>1, <1>7 DEF CleanupLock, At
<1>8. CASE SaveMapping
  <2> DEFINE saved == SetServiceMapping(rows[th["api"].svc], th["api"].mapping)
             next == IF saved.gw = "none" THEN "sync" ELSE "gwadd"
  <2>1. CASE Return("api")
    BY <1>0, <2>1, LocalsReturn
  <2>2. CASE ~Return("api")
    <3>1. th' = [th EXCEPT !["api"] =
                   [th["api"] EXCEPT !.copy = saved, !.pc = next]]
      BY <1>8, <2>2 DEF SaveMapping
    <3>2. LocalsOK([th["api"] EXCEPT !.copy = saved, !.pc = next])
      BY <1>0, <1>8 DEF SaveMapping, At, LocalsOK, Thread
    <3> HIDE DEF saved, next
    <3> QED BY <1>0, <3>1, <3>2, LocalsSet
  <2> QED BY <2>1, <2>2
<1>9. ASSUME NEW s \in Services, BeginRequest(s)
      PROVE  CallLocals'
  <2>1. CASE \E input \in Inputs : HandleCreate(s, input)
    BY <2>1 DEF HandleCreate, CallLocals
  <2>2. CASE \E input \in Inputs : HandleUpdate(s, input)
    BY <1>0, <2>2, LocalsBegin DEF HandleUpdate
  <2>3. CASE HandleDelete(s)
    BY <1>0, <2>3, LocalsBegin DEF HandleDelete
  <2>4. CASE HandleStart(s)
    BY <1>0, <2>4, LocalsBegin DEF HandleStart
  <2>5. CASE HandleStop(s)
    <3>1. CASE processes[s] = None
      BY <2>5, <3>1 DEF HandleStop, Stop, CallLocals
    <3>2. CASE processes[s] # None
      <4>1. LocalsOK([Idle EXCEPT !.pc = "stopgw", !.svc = s, !.pid = processes[s]])
        BY <3>2 DEF LocalsOK, Idle, TypeOK, EngineTypeOK
      <4> QED BY <1>0, <2>5, <3>2, <4>1, LocalsSet DEF HandleStop, Stop
    <3> QED BY <3>1, <3>2
  <2>6. CASE HandleSync(s)
    BY <1>0, <2>6, LocalsBegin DEF HandleSync
  <2>7. CASE HandleCleanup(s)
    BY <1>0, <2>7, LocalsBegin DEF HandleCleanup
  <2> QED
    BY <1>9, <2>1, <2>2, <2>3, <2>4, <2>5, <2>6, <2>7 DEF BeginRequest
<1> QED
  BY <1>3, <1>4, <1>5, <1>6, <1>7, <1>8, <1>9 DEF HandlerStep

\* So do all the other steps of the system.
LEMMA SystemStepLocals ==
    ASSUME TypeOK, CallLocals,
           \/ \E t \in Threads : StartFails(t)
           \/ \E s \in Services : RestoreNext(s)
           \/ \E p \in Pids, m \in Mappings : NatmapEvent(p, m)
           \/ \E c \in callbacks : HandleMapping(c)
           \/ \E p \in Pids : ProcessStep(p)
           \/ \E l \in loops : LoopStep(l)
           \/ FirewallReload /\ UNCHANGED apiVars
           \/ RestoreSnapshot
           \/ Shutdown
           \/ Restart
    PROVE  CallLocals'
<1>0. th \in [Threads -> Thread] /\ {"api", "restore"} = Threads
  BY DEF TypeOK, EngineTypeOK, Threads
<1>1. th' = th => CallLocals'
  BY DEF CallLocals
<1>2. CASE \E t \in Threads : StartFails(t)
  BY <1>0, <1>2, LocalsReturn DEF StartFails
<1>3. ASSUME NEW s \in Services, RestoreNext(s)
      PROVE  CallLocals'
  <2>1. LocalsOK([Idle EXCEPT !.pc = "validate", !.svc = s, !.copy = snap[s]])
    BY DEF LocalsOK, Idle
  <2> QED BY <1>0, <1>3, <2>1, LocalsSet DEF RestoreNext
<1>4. ASSUME NEW c \in callbacks, HandleMapping(c)
      PROVE  CallLocals'
  <2>1. LocalsOK([Idle EXCEPT !.pc = "mapping", !.svc = c.svc,
                              !.mapping = c.mapping])
    BY DEF LocalsOK, Idle, TypeOK, Callbacks
  <2>2. CASE th' = th
    BY <1>1, <2>2
  <2>3. CASE th' # th
    BY <1>0, <1>4, <2>1, <2>3, LocalsSet DEF HandleMapping
  <2> QED BY <2>2, <2>3
<1>5. CASE Restart
  BY <1>5 DEF Restart, CallLocals, LocalsOK, Idle
<1>6. ASSUME NEW p \in Pids, ProcessStep(p)
      PROVE  CallLocals'
  BY <1>1, <1>6 DEF ProcessStep, ProcessExits, QuickTunnelURL, WaitReturns,
     WaitRemovesGateway, StopAllCancels
<1>7. ASSUME NEW l \in loops, LoopStep(l)
      PROVE  CallLocals'
  BY <1>1, <1>7 DEF LoopStep, LoopEnds, LoopTicks, RenewNATPMP, ReassertPrunes,
     ReassertInserts, LoopFails
<1>8. CASE \/ \E p \in Pids, m \in Mappings : NatmapEvent(p, m)
           \/ FirewallReload \/ RestoreSnapshot \/ Shutdown
  BY <1>1, <1>8 DEF NatmapEvent, FirewallReload, RestoreSnapshot, Shutdown,
     StopAll, engineVars
<1> QED BY <1>2, <1>3, <1>4, <1>5, <1>6, <1>7, <1>8

-------------------------------------------------------------------------------
(* The map of processes. *)

\* No thread enters or changes a call that holds Manager.mu, and no thread that
\* has yet to spawn a waiter forgets it.
ThreadsKeep ==
    \A t \in Threads :
        /\ th'[t].pc \in {"token", "tokencall"}
             => th[t].pc \in {"token", "tokencall"} /\ th'[t].svc = th[t].svc
        /\ th[t].pc = "discovering"
             => th'[t].pc = "discovering" /\ th'[t].pid = th[t].pid

\* Nothing Supervised speaks about changes.
ProcessesKeep ==
    /\ UNCHANGED <<processes, mu, doomed>>
    /\ \A p \in Pids : /\ proc'[p].state = proc[p].state
                       /\ proc'[p].svc = proc[p].svc
                       /\ proc'[p].cancelled = proc[p].cancelled
                       /\ proc'[p].wait = proc[p].wait

\* What supervision rests on does not change when only the table, the gateway,
\* the resources or Publisher.mu do and the callers hold on to their processes.
LEMMA SupervisedFrame ==
    ASSUME TypeOK, Supervised, ThreadsKeep, ProcessesKeep
    PROVE  Supervised'
<1> USE DEF Supervised, ProcessesKeep
<1>1. TunnelLock'
  BY DEF TunnelLock, ThreadsKeep, Running
<1>2. DoomedUnregistered'
  BY DEF DoomedUnregistered, Registered
<1>3. RunningHasService'
  BY DEF RunningHasService
<1>4. EveryConnectorManaged'
  BY DEF EveryConnectorManaged
<1>5. EveryEntryWatched'
  <2> SUFFICES ASSUME NEW s \in Services, processes[s] # None
               PROVE  EveryEntryWatched!(s)!2'
    BY DEF EveryEntryWatched, Running
  <2> QED
    BY DEF EveryEntryWatched, Running, ThreadsKeep, TypeOK, EngineTypeOK
<1> QED BY <1>1, <1>2, <1>3, <1>4, <1>5

\* A thread whose program counter leaves and enters neither a call that holds
\* the lock nor the gap before a waiter is spawned.
LEMMA ThreadMoves ==
    ASSUME th \in [Threads -> Thread], NEW t \in Threads, NEW x,
           th' = [th EXCEPT ![t] = x],
           th[t].pc # "discovering", x.pc \notin {"token", "tokencall"}
    PROVE  ThreadsKeep
BY DEF ThreadsKeep

\* A caller outside of the start of NATMap moves on: the others are as before.
LEMMA ThreadGoes ==
    ASSUME th \in [Threads -> Thread], NEW t \in Threads, NEW pc, Goto(t, pc),
           th[t].pc # "discovering", pc \notin {"token", "tokencall"}
    PROVE  ThreadsKeep
BY DEF ThreadsKeep, Goto, Thread

\* A caller outside of the start of NATMap returns: the others are as before.
LEMMA ThreadReturns ==
    ASSUME th \in [Threads -> Thread], NEW t \in Threads, Return(t),
           th[t].pc # "discovering"
    PROVE  ThreadsKeep
BY ThreadMoves DEF Return, Idle

\* A handler begins: no caller's process changes.
LEMMA ThreadBegins ==
    ASSUME th \in [Threads -> Thread], th["api"].pc = "idle", NEW s, NEW copy,
           NEW pc \in {"update", "delete", "validate", "sync", "cleanup"},
           BeginHandler(s, pc, copy)
    PROVE  ThreadsKeep
BY ThreadMoves DEF BeginHandler, Idle, Threads

\* A free process is registered under a service that has none.
LEMMA Register ==
    ASSUME TypeOK, Supervised, NEW s \in Services, NEW p \in Pids, Free(p),
           ~Running(s), NEW kind, NEW wait,
           processes' = [processes EXCEPT ![s] = p],
           proc' = [proc EXCEPT ![p] = Spawned(s, kind, wait)],
           doomed' = doomed,
           \A t \in Threads : th[t].pc = "discovering"
               => th'[t].pc = "discovering" /\ th'[t].pid = th[t].pid,
           \/ wait = "waiting"
           \/ wait = "unspawned"
              /\ \E t \in Threads : th'[t].pc = "discovering" /\ th'[t].pid = p
    PROVE  /\ DoomedUnregistered'
           /\ RunningHasService'
           /\ EveryConnectorManaged'
           /\ EveryEntryWatched'
<1> USE NoneAssumption DEF Supervised
<1>1. /\ processes \in [Services -> Pids \cup {None}]
      /\ proc \in [Pids -> Process]
  BY DEF TypeOK, EngineTypeOK
<1>2. /\ proc'[p].svc = s /\ proc'[p].state = "running"
      /\ ~proc'[p].cancelled /\ proc'[p].wait = wait
  BY <1>1 DEF Spawned, Unused
<1>3. p \notin doomed /\ \A x \in Services : processes[x] # p
  BY DEF Free
<1>4. \A q \in Pids : q # p => proc'[q] = proc[q]
  BY <1>1
<1>5. DoomedUnregistered'
  BY <1>1, <1>3 DEF DoomedUnregistered, Registered
<1>6. RunningHasService'
  BY <1>2, <1>4 DEF RunningHasService
<1>7. EveryConnectorManaged'
  <2> SUFFICES ASSUME NEW q \in Pids, proc'[q].state = "running",
                      ~proc'[q].cancelled, q \notin doomed
               PROVE  processes'[proc'[q].svc] = q
    BY DEF EveryConnectorManaged
  <2>1. CASE q = p
    BY <1>1, <1>2, <2>1
  <2>2. CASE q # p
    <3>1. processes[proc[q].svc] = q /\ proc[q].svc \in Services
      BY <1>4, <2>2 DEF EveryConnectorManaged, RunningHasService
    <3>2. proc[q].svc # s
      BY <3>1 DEF Running
    <3> QED BY <1>1, <1>4, <2>2, <3>1, <3>2
  <2> QED BY <2>1, <2>2
<1>8. EveryEntryWatched'
  <2> SUFFICES ASSUME NEW x \in Services, processes'[x] # None
               PROVE  EveryEntryWatched!(x)!2'
    BY DEF EveryEntryWatched, Running
  <2>1. CASE x = s
    BY <1>1, <1>2, <2>1
  <2>2. CASE x # s
    <3>1. processes'[x] = processes[x] /\ processes[x] \in Pids /\ processes[x] # p
      BY <1>1, <1>3, <2>2
    <3> QED BY <1>4, <3>1 DEF EveryEntryWatched, Running
  <2> QED BY <2>1, <2>2
<1> QED BY <1>5, <1>6, <1>7, <1>8

\* A process is written off: its entry, if it has one, leaves the map, and
\* nothing else about the others changes.
LEMMA Unregister ==
    ASSUME TypeOK, Supervised, NEW s \in Services, NEW p \in Pids,
           processes[s] = p,
           processes' = [processes EXCEPT ![s] = None],
           \A q \in Pids \ {p} : proc'[q] = proc[q],
           proc'[p].svc = proc[p].svc,
           proc'[p].state = "running" => proc[p].state = "running",
           proc'[p].state = "exited" \/ proc'[p].cancelled,
           doomed' = doomed, mu' = mu, ThreadsKeep
    PROVE  Supervised'
<1> USE NoneAssumption DEF Supervised
<1>1. /\ processes \in [Services -> Pids \cup {None}]
      /\ proc \in [Pids -> Process]
  BY DEF TypeOK, EngineTypeOK
<1>2. \A x \in Services : processes'[x] # None
        => x # s /\ processes'[x] = processes[x] /\ processes[x] \in Pids \ {p}
  BY <1>1 DEF EveryEntryWatched, Running
<1>3. TunnelLock'
  BY <1>1 DEF TunnelLock, Running, ThreadsKeep
<1>4. DoomedUnregistered'
  BY <1>1, <1>2 DEF DoomedUnregistered, Registered, TypeOK, EngineTypeOK
<1>5. RunningHasService'
  BY DEF RunningHasService
<1>6. EveryConnectorManaged'
  <2> SUFFICES ASSUME NEW q \in Pids, proc'[q].state = "running",
                      ~proc'[q].cancelled, q \notin doomed
               PROVE  processes'[proc'[q].svc] = q
    BY DEF EveryConnectorManaged
  <2>1. q # p /\ proc'[q] = proc[q]
    OBVIOUS
  <2>2. processes[proc[q].svc] = q /\ proc[q].svc \in Services
    BY <2>1 DEF EveryConnectorManaged, RunningHasService
  <2> QED BY <1>1, <2>1, <2>2
<1>7. EveryEntryWatched'
  <2> SUFFICES ASSUME NEW x \in Services, processes'[x] # None
               PROVE  EveryEntryWatched!(x)!2'
    BY DEF EveryEntryWatched, Running
  <2>1. processes'[x] = processes[x] /\ processes[x] \in Pids \ {p}
    BY <1>2
  <2>2. proc'[processes[x]] = proc[processes[x]]
    BY <2>1
  <2> QED BY <2>1, <2>2 DEF EveryEntryWatched, Running, ThreadsKeep
<1> QED BY <1>3, <1>4, <1>5, <1>6, <1>7

\* An unregistered process changes without coming to life.
LEMMA UnregisteredChanges ==
    ASSUME TypeOK, Supervised, NEW p \in Pids, ~Registered(p),
           processes' = processes, mu' = mu, ThreadsKeep,
           \A q \in Pids \ {p} : proc'[q] = proc[q],
           proc'[p].state = "running"
             => \/ proc'[p].cancelled /\ proc'[p].svc \in Services
                \/ p \in doomed' /\ proc'[p].svc \in Services,
           doomed' \subseteq doomed, doomed \subseteq doomed' \cup {p}
    PROVE  Supervised'
<1> USE NoneAssumption DEF Supervised
<1>1. /\ processes \in [Services -> Pids \cup {None}]
      /\ proc \in [Pids -> Process]
  BY DEF TypeOK, EngineTypeOK
<1>2. TunnelLock'
  BY DEF TunnelLock, Running, ThreadsKeep
<1>3. DoomedUnregistered'
  BY DEF DoomedUnregistered, Registered
<1>4. RunningHasService'
  BY DEF RunningHasService
<1>5. EveryConnectorManaged'
  BY <1>1 DEF EveryConnectorManaged
<1>6. EveryEntryWatched'
  <2> SUFFICES ASSUME NEW x \in Services, processes[x] # None
               PROVE  EveryEntryWatched!(x)!2'
    BY DEF EveryEntryWatched, Running
  <2>1. processes[x] \in Pids \ {p}
    BY <1>1 DEF Registered
  <2> QED BY <2>1 DEF EveryEntryWatched, Running, ThreadsKeep
<1> QED BY <1>2, <1>3, <1>4, <1>5, <1>6

\* A step of Manager.Start keeps the map supervised.
LEMMA StartStepSupervised ==
    ASSUME TypeOK, CallLocals, Supervised, NEW t \in Threads, StartStep(t)
    PROVE  Supervised'
<1>0. /\ th \in [Threads -> Thread] /\ th[t] \in Thread
      /\ proc \in [Pids -> Process]
      /\ processes \in [Services -> Pids \cup {None}]
  BY DEF TypeOK, EngineTypeOK
<1>1. None \notin Threads
  BY NoneAssumption DEF Threads
<1>2. mu = None => \A u \in Threads : th[u].pc \notin {"token", "tokencall"}
  BY <1>1 DEF Supervised, TunnelLock
<1>3. UNCHANGED <<processes, proc, mu, doomed>> => ProcessesKeep
  BY DEF ProcessesKeep
<1>4. CASE ValidateTarget(t)
  BY <1>0, <1>3, <1>4, ThreadGoes, SupervisedFrame DEF ValidateTarget, At
<1>5. CASE AlreadyRunning(t)
  BY <1>0, <1>3, <1>5, ThreadReturns, SupervisedFrame DEF AlreadyRunning, At
<1>6. CASE SpawnFails(t)
  BY <1>0, <1>3, <1>6, ThreadGoes, SupervisedFrame DEF SpawnFails, At
<1>7. ASSUME NEW p \in Pids, StartNatmap(t, p)
      PROVE  Supervised'
  <2>1. th[t].svc \in Services
    BY <1>7 DEF StartNatmap, At, CallLocals, LocalsOK
  <2>2. \A u \in Threads : u # t => th'[u] = th[u]
    BY <1>0, <1>7 DEF StartNatmap
  <2>3. th'[t].pc = "discovering" /\ th'[t].pid = p
    BY <1>0, <1>7 DEF StartNatmap, Thread
  <2>4. TunnelLock'
    BY <1>2, <1>7, <2>2, <2>3 DEF StartNatmap, TunnelLock
  <2>5. \A u \in Threads : th[u].pc = "discovering"
           => th'[u].pc = "discovering" /\ th'[u].pid = th[u].pid
    BY <1>7, <2>2 DEF StartNatmap, At
  <2>6. /\ DoomedUnregistered' /\ RunningHasService'
        /\ EveryConnectorManaged' /\ EveryEntryWatched'
    BY <1>7, <2>1, <2>3, <2>5, Register DEF StartNatmap
  <2> QED BY <2>4, <2>6 DEF Supervised
<1>8. CASE StartNatmapWrite(t)
  <2> DEFINE P == th[t].pid
  <2>1. P \in Pids
    BY <1>8 DEF StartNatmapWrite, At, CallLocals, LocalsOK
  <2>2. /\ \A q \in Pids \ {P} : proc'[q] = proc[q]
        /\ proc'[P].svc = proc[P].svc /\ proc'[P].state = proc[P].state
        /\ proc'[P].cancelled = proc[P].cancelled /\ proc'[P].wait = "waiting"
    BY <1>0, <1>8, <2>1 DEF StartNatmapWrite, Process
  <2>3. /\ \A u \in Threads \ {t} : th'[u] = th[u]
        /\ th'[t].pc = "idle"
    BY <1>0, <1>8 DEF StartNatmapWrite, Return, Idle
  <2>4. UNCHANGED <<processes, mu, doomed>>
    BY <1>8 DEF StartNatmapWrite
  <2> HIDE DEF P
  <2>5. TunnelLock'
    BY <2>3, <2>4 DEF Supervised, TunnelLock, Running
  <2>6. DoomedUnregistered'
    BY <2>4 DEF Supervised, DoomedUnregistered, Registered
  <2>7. RunningHasService'
    BY <2>1, <2>2 DEF Supervised, RunningHasService
  <2>8. EveryConnectorManaged'
    BY <2>1, <2>2, <2>4 DEF Supervised, EveryConnectorManaged
  <2>9. EveryEntryWatched'
    <3> SUFFICES ASSUME NEW x \in Services, processes[x] # None
                 PROVE  EveryEntryWatched!(x)!2'
      BY <2>4 DEF EveryEntryWatched, Running
    <3>1. processes[x] \in Pids
      BY <1>0
    <3>2. CASE processes[x] = P
      BY <2>1, <2>2, <2>4, <3>2 DEF Supervised, EveryEntryWatched, Running
    <3>3. CASE processes[x] # P
      <4>1. proc'[processes[x]] = proc[processes[x]]
        BY <2>2, <3>1, <3>3
      <4> QED
        BY <2>3, <2>4, <3>1, <3>3, <4>1
           DEF Supervised, EveryEntryWatched, Running, P
    <3> QED BY <3>2, <3>3
  <2> QED BY <2>5, <2>6, <2>7, <2>8, <2>9 DEF Supervised
<1>9. ASSUME NEW p \in Pids, StartQuickTunnel(t, p)
      PROVE  Supervised'
  <2> DEFINE S == th[t].svc
  <2>1. S \in Services /\ th[t].pc = "register"
    BY <1>9 DEF StartQuickTunnel, At, CallLocals, LocalsOK
  <2>2. ThreadsKeep
    BY <1>0, <1>9, <2>1, ThreadGoes, ThreadReturns DEF StartQuickTunnel
  <2>3. CASE Live(rows[S])
    <3>1. TunnelLock'
      BY <1>2, <1>9, <2>2 DEF StartQuickTunnel, TunnelLock, ThreadsKeep
    <3>2. /\ DoomedUnregistered' /\ RunningHasService'
          /\ EveryConnectorManaged' /\ EveryEntryWatched'
      <4>1. /\ Free(p) /\ ~Running(S) /\ doomed' = doomed
            /\ processes' = [processes EXCEPT ![S] = p]
            /\ proc' = [proc EXCEPT ![p] = Spawned(S, "quick", "waiting")]
        BY <1>9, <2>3 DEF StartQuickTunnel
      <4> HIDE DEF S
      <4> QED BY <2>1, <2>2, <4>1, Register DEF ThreadsKeep
    <3> QED BY <3>1, <3>2 DEF Supervised
  <2>4. CASE ~Live(rows[S])
    <3>1. ~Registered(p) /\ p \notin doomed
      BY <1>9 DEF StartQuickTunnel, Free, Registered
    <3>2. /\ \A q \in Pids \ {p} : proc'[q] = proc[q]
          /\ proc'[p].cancelled /\ proc'[p].svc \in Services
      BY <1>0, <1>9, <2>1, <2>4 DEF StartQuickTunnel, Spawned, Unused
    <3>3. UNCHANGED <<processes, mu, doomed>>
      BY <1>9, <2>4 DEF StartQuickTunnel
    <3> QED BY <2>2, <3>1, <3>2, <3>3, UnregisteredChanges
  <2> QED BY <2>3, <2>4
<1>10. CASE StartTunnelLock(t)
  <2>1. \A u \in Threads : u # t => th'[u] = th[u]
    BY <1>0, <1>10 DEF StartTunnelLock, Goto
  <2>2. th'[t].pc = "token" /\ th'[t].svc = th[t].svc
    BY <1>0, <1>10 DEF StartTunnelLock, Goto, Thread
  <2>3. UNCHANGED <<processes, proc, doomed>> /\ mu' = t /\ ~Running(th[t].svc)
    BY <1>10 DEF StartTunnelLock
  <2>4. TunnelLock'
    BY <1>2, <1>10, <2>1, <2>2, <2>3 DEF StartTunnelLock, TunnelLock, Running
  <2>5. th[t].pc # "discovering"
    BY <1>10 DEF StartTunnelLock, At
  <2> QED
    BY <2>1, <2>3, <2>4, <2>5
       DEF Supervised, DoomedUnregistered, Registered, RunningHasService,
           EveryConnectorManaged, EveryEntryWatched, Running
<1>11. CASE TunnelTokenCall(t)
  <2>1. ThreadsKeep
    BY <1>0, <1>11 DEF TunnelTokenCall, At, Goto, ThreadsKeep, Thread
  <2> QED BY <1>3, <1>11, <2>1, SupervisedFrame DEF TunnelTokenCall
<1>12. CASE TunnelTokenFails(t) \/ \E p \in Pids : StartTunnel(t, p)
  <2>1. th[t].pc = "tokencall" /\ mu = t /\ ~Running(th[t].svc)
    BY <1>12 DEF TunnelTokenFails, StartTunnel, At, Supervised, TunnelLock
  <2>2. th[t].svc \in Services
    BY <2>1 DEF CallLocals, LocalsOK
  <2>3. ThreadsKeep
    BY <1>0, <1>12, <2>1, ThreadGoes, ThreadReturns
       DEF TunnelTokenFails, StartTunnel
  <2>4. \A u \in Threads : th'[u].pc \notin {"token", "tokencall"}
    <3>1. \A u \in Threads \ {t} : th[u].pc \notin {"token", "tokencall"}
      BY <2>1 DEF Supervised, TunnelLock
    <3>2. th'[t].pc \in {"startfail", "idle"}
      <4>1. Goto(t, "startfail") \/ Return(t)
        BY <1>12 DEF TunnelTokenFails, StartTunnel
      <4>2. Goto(t, "startfail") => th'[t].pc = "startfail"
        BY <1>0 DEF Goto, Thread
      <4>3. Return(t) => th'[t].pc = "idle"
        BY <1>0 DEF Return, Idle
      <4> QED BY <4>1, <4>2, <4>3
    <3> QED BY <2>3, <3>1, <3>2 DEF ThreadsKeep
  <2>5. TunnelLock'
    BY <2>4 DEF TunnelLock
  <2>6. CASE UNCHANGED <<processes, proc>>
    <3>1. doomed' = doomed
      BY <1>12 DEF TunnelTokenFails, StartTunnel
    <3>2. DoomedUnregistered' /\ RunningHasService' /\ EveryConnectorManaged'
      BY <2>6, <3>1 DEF Supervised, DoomedUnregistered, Registered,
         RunningHasService, EveryConnectorManaged
    <3>3. EveryEntryWatched'
      BY <2>3, <2>6 DEF Supervised, EveryEntryWatched, Running, ThreadsKeep
    <3> QED BY <2>5, <3>2, <3>3 DEF Supervised
  <2>7. ASSUME NEW p \in Pids, StartTunnel(t, p), Live(rows[th[t].svc])
        PROVE  Supervised'
    <3>1. /\ DoomedUnregistered' /\ RunningHasService'
          /\ EveryConnectorManaged' /\ EveryEntryWatched'
      BY <2>1, <2>2, <2>3, <2>7, Register DEF StartTunnel, ThreadsKeep
    <3> QED BY <2>5, <3>1 DEF Supervised
  <2> QED BY <1>12, <2>6, <2>7 DEF TunnelTokenFails, StartTunnel
<1> QED
  BY <1>4, <1>5, <1>6, <1>7, <1>8, <1>9, <1>10, <1>11, <1>12 DEF StartStep

\* A step in the life of a child process keeps the map supervised.
LEMMA ProcessStepSupervised ==
    ASSUME TypeOK, Supervised, NEW p \in Pids, ProcessStep(p)
    PROVE  Supervised'
<1>0. /\ proc \in [Pids -> Process] /\ proc[p] \in Process
      /\ processes \in [Services -> Pids \cup {None}]
  BY DEF TypeOK, EngineTypeOK
<1>1. th' = th /\ mu' = mu
  BY DEF ProcessStep, ProcessExits, QuickTunnelURL, WaitReturns,
     WaitRemovesGateway, StopAllCancels
<1>2. ThreadsKeep
  BY <1>1 DEF ThreadsKeep
<1>3. proc[p].wait \notin {"waiting", "unspawned"} => ~Registered(p)
  BY NoneAssumption DEF Supervised, EveryEntryWatched, Registered, Running
<1>4. CASE ProcessExits(p)
  <2>1. /\ \A q \in Pids \ {p} : proc'[q] = proc[q]
        /\ proc'[p].state = "exited" /\ proc'[p].svc = proc[p].svc
        /\ proc'[p].cancelled = proc[p].cancelled
        /\ proc'[p].wait = proc[p].wait
    BY <1>0, <1>4 DEF ProcessExits, Process
  <2>2. UNCHANGED <<processes, doomed>>
    BY <1>4 DEF ProcessExits
  <2>3. TunnelLock' /\ DoomedUnregistered'
    BY <1>1, <2>2 DEF Supervised, TunnelLock, Running, DoomedUnregistered, Registered
  <2>4. RunningHasService' /\ EveryConnectorManaged'
    BY <2>1, <2>2 DEF Supervised, RunningHasService, EveryConnectorManaged
  <2>5. EveryEntryWatched'
    <3> SUFFICES ASSUME NEW x \in Services, processes[x] # None
                 PROVE  EveryEntryWatched!(x)!2'
      BY <2>2 DEF EveryEntryWatched, Running
    <3>1. processes[x] \in Pids
      BY <1>0
    <3> QED
      BY <1>1, <2>1, <2>2, <3>1 DEF Supervised, EveryEntryWatched, Running
  <2> QED BY <2>3, <2>4, <2>5 DEF Supervised
<1>5. CASE QuickTunnelURL(p)
  <2>1. ProcessesKeep
    BY <1>0, <1>1, <1>5 DEF QuickTunnelURL, ProcessesKeep, Process
  <2> QED BY <1>2, <2>1, SupervisedFrame
<1>6. CASE WaitReturns(p)
  <2> DEFINE S == proc[p].svc
  <2>1. /\ \A q \in Pids \ {p} : proc'[q] = proc[q]
        /\ proc'[p].state = "exited" /\ proc'[p].svc = proc[p].svc
    <3>1. /\ proc[p].state = "exited"
          /\ \/ proc' = [proc EXCEPT ![p].wait = "cleanup"]
             \/ proc' = [proc EXCEPT ![p].wait = "done"]
      BY <1>6 DEF WaitReturns
    <3> QED BY <1>0, <3>1 DEF Process
  <2>2. CASE Registered(p)
    <3>1. S \in Services /\ processes[S] = p
      BY <2>2, NoneAssumption
         DEF Supervised, EveryEntryWatched, Registered, Running
    <3> QED BY <1>1, <1>2, <1>6, <2>1, <3>1, Unregister DEF WaitReturns
  <2>3. CASE ~Registered(p)
    <3>1. processes' = processes
      BY <1>0, <1>6, <2>3 DEF WaitReturns, Registered
    <3> QED BY <1>1, <1>2, <1>6, <2>1, <2>3, <3>1, UnregisteredChanges
               DEF WaitReturns
  <2> QED BY <2>2, <2>3
<1>7. CASE WaitRemovesGateway(p)
  <2>1. ~Registered(p)
    BY <1>3, <1>7 DEF WaitRemovesGateway
  <2>2. /\ \A q \in Pids \ {p} : proc'[q] = proc[q]
        /\ proc'[p].state = proc[p].state /\ proc'[p].svc = proc[p].svc
        /\ proc'[p].cancelled = proc[p].cancelled
    BY <1>0, <1>7 DEF WaitRemovesGateway, Process
  <2>3. UNCHANGED <<processes, doomed>>
    BY <1>7 DEF WaitRemovesGateway
  <2>4. proc[p].state = "running" =>
          proc[p].svc \in Services /\ (proc[p].cancelled \/ p \in doomed)
    BY <2>1 DEF Supervised, RunningHasService, EveryConnectorManaged, Registered
  <2> QED BY <1>1, <1>2, <2>1, <2>2, <2>3, <2>4, UnregisteredChanges
<1>8. CASE StopAllCancels(p)
  <2>1. ~Registered(p)
    BY <1>8 DEF StopAllCancels, Supervised, DoomedUnregistered
  <2>2. /\ \A q \in Pids \ {p} : proc'[q] = proc[q]
        /\ proc'[p].state = proc[p].state /\ proc'[p].svc = proc[p].svc
        /\ proc'[p].cancelled
    BY <1>0, <1>8 DEF StopAllCancels, Process
  <2>3. processes' = processes /\ doomed' = doomed \ {p}
    BY <1>8 DEF StopAllCancels
  <2>4. proc[p].state = "running" => proc[p].svc \in Services
    BY DEF Supervised, RunningHasService
  <2> QED BY <1>1, <1>2, <2>1, <2>2, <2>3, <2>4, UnregisteredChanges
<1> QED BY <1>4, <1>5, <1>6, <1>7, <1>8 DEF ProcessStep

\* Stop takes the process out of the map and cancels it in one step.
LEMMA StopSupervised ==
    ASSUME TypeOK, Supervised, NEW s \in Services, Stop(s)
    PROVE  Supervised'
<1> DEFINE P == processes[s]
<1>0. /\ th \in [Threads -> Thread] /\ "api" \in Threads
      /\ proc \in [Pids -> Process]
      /\ processes \in [Services -> Pids \cup {None}]
  BY DEF TypeOK, EngineTypeOK, Threads
<1>1. CASE P = None
  <2>1. processes' = processes
    BY <1>0, <1>1 DEF Stop
  <2>2. ProcessesKeep /\ ThreadsKeep
    BY <1>1, <2>1 DEF Stop, ProcessesKeep, ThreadsKeep
  <2> QED BY <2>2, SupervisedFrame
<1>2. CASE P # None
  <2>1. P \in Pids /\ proc[P] \in Process
    BY <1>0, <1>2
  <2>2. /\ \A q \in Pids \ {P} : proc'[q] = proc[q]
        /\ proc'[P].state = proc[P].state /\ proc'[P].svc = proc[P].svc
        /\ proc'[P].cancelled
    BY <1>0, <1>2, <2>1 DEF Stop, Process
  <2>3. ThreadsKeep
    BY <1>0, <1>2, ThreadMoves DEF Stop, At, Idle
  <2>4. /\ processes' = [processes EXCEPT ![s] = None]
        /\ doomed' = doomed /\ mu' = mu
    BY DEF Stop
  <2> HIDE DEF P
  <2> QED BY <2>1, <2>2, <2>3, <2>4, Unregister DEF P
<1> QED BY <1>1, <1>2

\* The steps of handlers, mapping goroutine, keep-alive goroutines and boot that
\* leave the map of processes alone.
LEMMA QuietStepSupervised ==
    ASSUME TypeOK, Supervised,
           \/ GatewayStep
           \/ HandlerStep
           \/ \E t \in Threads : StartFails(t)
           \/ \E s \in Services : BeginRequest(s) \/ RestoreNext(s)
           \/ \E p \in Pids, m \in Mappings : NatmapEvent(p, m)
           \/ \E c \in callbacks : HandleMapping(c)
           \/ \E l \in loops : LoopStep(l)
           \/ FirewallReload /\ UNCHANGED apiVars
           \/ RestoreSnapshot
    PROVE  Supervised'
<1>0. /\ th \in [Threads -> Thread] /\ "api" \in Threads /\ "restore" \in Threads
      /\ proc \in [Pids -> Process]
      /\ processes \in [Services -> Pids \cup {None}]
  BY DEF TypeOK, EngineTypeOK, Threads
<1>1. UNCHANGED <<processes, proc, mu, doomed>> => ProcessesKeep
  BY DEF ProcessesKeep
<1>2. th' = th => ThreadsKeep
  BY DEF ThreadsKeep
<1>3. ASSUME NEW pc, pc \notin {"token", "tokencall"}, Goto("api", pc),
             th["api"].pc # "discovering"
      PROVE  ThreadsKeep
  BY <1>0, <1>3, ThreadGoes
<1>4. Return("api") /\ th["api"].pc # "discovering" => ThreadsKeep
  BY <1>0, ThreadReturns
<1>5. SyncError /\ th["api"].pc # "discovering" => ThreadsKeep
  BY <1>3, <1>4 DEF SyncError
<1>6. CASE GatewayStep
  <2>1. CASE StopRemovesGateway \/ GatewayFails
    <3>1. ThreadsKeep
      BY <1>4, <2>1 DEF StopRemovesGateway, GatewayFails, At
    <3> QED BY <1>1, <2>1, <3>1, SupervisedFrame
               DEF StopRemovesGateway, GatewayFails
  <2>2. CASE GatewayAdd
    <3>1. ThreadsKeep
      BY <1>3, <2>2 DEF GatewayAdd, At
    <3> QED BY <1>1, <2>2, <3>1, SupervisedFrame DEF GatewayAdd
  <2>3. CASE GatewayInsertRule \/ GatewayUndo \/ RemovePreviousGateway
    <3>1. ThreadsKeep
      BY <1>3, <2>3 DEF GatewayInsertRule, GatewayUndo, RemovePreviousGateway, At
    <3> QED BY <1>1, <2>3, <3>1, SupervisedFrame
               DEF GatewayInsertRule, GatewayUndo, RemovePreviousGateway
  <2>4. CASE GatewayRecord
    <3> DEFINE P == processes[th["api"].svc]
    <3>1. CASE P = None
      BY <1>1, <1>3, <2>4, <3>1, SupervisedFrame DEF GatewayRecord, At
    <3>2. CASE P # None
      <4>1. ThreadsKeep
        BY <1>0, <2>4, <3>2 DEF GatewayRecord, At, ThreadsKeep, Thread
      <4>2. \A q \in Pids : /\ proc'[q].state = proc[q].state
                            /\ proc'[q].svc = proc[q].svc
                            /\ proc'[q].cancelled = proc[q].cancelled
                            /\ proc'[q].wait = proc[q].wait
        <5> DEFINE rec == [proc[P] EXCEPT !.gw = ApplyState, !.gen = @ + 1]
        <5>1. proc' = [proc EXCEPT ![P] = rec]
          BY <2>4, <3>2 DEF GatewayRecord
        <5>2. P \in Pids => /\ rec.state = proc[P].state
                            /\ rec.svc = proc[P].svc
                            /\ rec.cancelled = proc[P].cancelled
                            /\ rec.wait = proc[P].wait
          BY <1>0 DEF Process
        <5> HIDE DEF P, rec
        <5> QED BY <1>0, <5>1, <5>2
      <4>3. ProcessesKeep
        BY <2>4, <4>2 DEF GatewayRecord, ProcessesKeep
      <4> QED BY <4>1, <4>3, SupervisedFrame
    <3> QED BY <3>1, <3>2
  <2>5. CASE GatewayReady
    <3>1. ThreadsKeep
      <4>1. CASE Return("api")
        BY <1>4, <2>5, <4>1 DEF GatewayReady, At
      <4>2. CASE ~Return("api")
        BY <1>0, <2>5, <4>2 DEF GatewayReady, At, ThreadsKeep, Thread
      <4> QED BY <4>1, <4>2
    <3> QED BY <1>1, <2>5, <3>1, SupervisedFrame DEF GatewayReady
  <2> QED BY <1>6, <2>1, <2>2, <2>3, <2>4, <2>5 DEF GatewayStep
<1>7. CASE HandlerStep
  <2>1. CASE UpdateWrite \/ DeleteWrite \/ SyncErrorWrite \/ CleanupCall
    <3>1. ThreadsKeep
      BY <1>4, <2>1 DEF UpdateWrite, DeleteWrite, SyncErrorWrite, CleanupCall, At
    <3> QED BY <1>1, <2>1, <3>1, SupervisedFrame
               DEF UpdateWrite, DeleteWrite, SyncErrorWrite, CleanupCall
  <2>2. CASE SyncLock \/ CleanupLock
    <3>1. ThreadsKeep
      BY <1>3, <1>5, <2>2 DEF SyncLock, CleanupLock, At
    <3> QED BY <1>1, <2>2, <3>1, SupervisedFrame DEF SyncLock, CleanupLock
  <2>3. CASE SyncCall \/ SyncWrite
    <3>1. ThreadsKeep
      BY <1>3, <1>4, <1>5, <2>3 DEF SyncCall, SyncWrite, At
    <3> QED BY <1>1, <2>3, <3>1, SupervisedFrame DEF SyncCall, SyncWrite
  <2>4. CASE SaveMapping
    <3>1. ThreadsKeep
      <4>1. CASE Return("api")
        BY <1>4, <2>4, <4>1 DEF SaveMapping, At
      <4>2. CASE ~Return("api")
        BY <1>0, <2>4, <4>2 DEF SaveMapping, At, ThreadsKeep, Thread
      <4> QED BY <4>1, <4>2
    <3> QED BY <1>1, <2>4, <3>1, SupervisedFrame DEF SaveMapping
  <2> QED BY <1>7, <2>1, <2>2, <2>3, <2>4 DEF HandlerStep
<1>8. ASSUME NEW t \in Threads, StartFails(t)
      PROVE  Supervised'
  <2>1. ThreadsKeep
    BY <1>0, <1>8, ThreadReturns DEF StartFails, At
  <2> QED BY <1>1, <1>8, <2>1, SupervisedFrame DEF StartFails
<1>9. ASSUME NEW s \in Services, BeginRequest(s)
      PROVE  Supervised'
  <2>1. ASSUME NEW pc \in {"update", "delete", "validate", "sync", "cleanup"},
               NEW copy, BeginHandler(s, pc, copy), At("api", "idle")
        PROVE  ThreadsKeep
    BY <1>0, <2>1, ThreadBegins DEF At
  <2>2. CASE HandleStop(s)
    BY <2>2, StopSupervised DEF HandleStop
  <2>3. CASE \E input \in Inputs : HandleCreate(s, input)
    BY <1>1, <1>2, <2>3, SupervisedFrame DEF HandleCreate
  <2>4. CASE \/ \E input \in Inputs : HandleUpdate(s, input)
             \/ HandleDelete(s) \/ HandleStart(s) \/ HandleSync(s)
             \/ HandleCleanup(s)
    <3>1. ThreadsKeep
      BY <2>1, <2>4 DEF HandleUpdate, HandleDelete, HandleStart, HandleSync,
         HandleCleanup
    <3> QED BY <1>1, <2>4, <3>1, SupervisedFrame
               DEF HandleUpdate, HandleDelete, HandleStart, HandleSync,
                   HandleCleanup
  <2> QED BY <1>9, <2>2, <2>3, <2>4 DEF BeginRequest
<1>10. ASSUME NEW s \in Services, RestoreNext(s)
       PROVE  Supervised'
  <2>1. ThreadsKeep
    BY <1>0, <1>10, ThreadMoves DEF RestoreNext, At, Idle
  <2> QED BY <1>1, <1>10, <2>1, SupervisedFrame DEF RestoreNext
<1>11. ASSUME NEW c \in callbacks, HandleMapping(c)
       PROVE  Supervised'
  <2>1. ThreadsKeep
    <3>1. CASE th' = th
      BY <1>2, <3>1
    <3>2. CASE th' # th
      BY <1>0, <1>11, <3>2, ThreadMoves DEF HandleMapping, At, Idle
    <3> QED BY <3>1, <3>2
  <2> QED BY <1>1, <1>11, <2>1, SupervisedFrame DEF HandleMapping
<1>12. ASSUME NEW l \in loops, LoopStep(l)
       PROVE  Supervised'
  BY <1>1, <1>2, <1>12, SupervisedFrame
     DEF LoopStep, LoopEnds, LoopTicks, RenewNATPMP, ReassertPrunes,
         ReassertInserts, LoopFails
<1>13. CASE \/ \E p \in Pids, m \in Mappings : NatmapEvent(p, m)
            \/ FirewallReload \/ RestoreSnapshot
  BY <1>1, <1>2, <1>13, SupervisedFrame
     DEF NatmapEvent, FirewallReload, RestoreSnapshot, engineVars
<1> QED
  BY <1>6, <1>7, <1>8, <1>9, <1>10, <1>11, <1>12, <1>13

\* Shutdown hands every registered process to the loop of StopAll; a restart
\* forgets them all.
LEMMA EndSupervised ==
    ASSUME TypeOK, Supervised, Shutdown \/ Restart
    PROVE  Supervised'
<1>0. /\ th \in [Threads -> Thread] /\ proc \in [Pids -> Process]
      /\ processes \in [Services -> Pids \cup {None}]
  BY DEF TypeOK, EngineTypeOK
<1>1. processes' = [s \in Services |-> None]
  BY DEF Shutdown, StopAll, Restart
<1>2. EveryEntryWatched' /\ DoomedUnregistered'
  <2>1. doomed' \subseteq Pids
    BY <1>0 DEF Shutdown, StopAll, Restart, TypeOK, EngineTypeOK
  <2> QED
    BY <1>1, <2>1, NoneAssumption
       DEF EveryEntryWatched, DoomedUnregistered, Registered, Running
<1>3. CASE Shutdown
  <2>1. TunnelLock'
    <3>1. \A t \in Threads : th[t].pc \notin {"token", "tokencall"}
      BY <1>3, NoneAssumption
         DEF Shutdown, StopAll, Supervised, TunnelLock, Threads
    <3> QED BY <1>3, <3>1 DEF Shutdown, StopAll, TunnelLock
  <2>2. RunningHasService' /\ EveryConnectorManaged'
    BY <1>3 DEF Shutdown, StopAll, Supervised, RunningHasService,
       EveryConnectorManaged
  <2> QED BY <1>2, <2>1, <2>2 DEF Supervised
<1>4. CASE Restart
  <2>1. TunnelLock'
    BY <1>4 DEF Restart, TunnelLock, Idle
  <2>2. RunningHasService' /\ EveryConnectorManaged'
    BY <1>4 DEF Restart, RunningHasService, EveryConnectorManaged, Unused
  <2> QED BY <1>2, <2>1, <2>2 DEF Supervised
<1> QED BY <1>3, <1>4

-------------------------------------------------------------------------------
(* The theorems. *)

\* Every step of the system preserves the inductive invariant.
LEMMA IInvStep ==
    ASSUME IInv, [Next]_vars
    PROVE  IInv'
<1> USE DEF IInv
<1>0. RunningHasService
  BY DEF Supervised
<1>1. CASE Next
  <2>1. TypeOK'
    BY <1>0, <1>1, StartStepType, GatewayStepType, HandlerStepType,
       BeginRequestType, ProcessStepType, LoopStepType, SystemStepType DEF Next
  <2>2. CallLocals'
    BY <1>1, StartStepLocals, GatewayStepLocals, HandlerLocals,
       SystemStepLocals DEF Next
  <2>3. Supervised'
    BY <1>1, StartStepSupervised, ProcessStepSupervised, QuietStepSupervised,
       EndSupervised DEF Next
  <2> QED BY <2>1, <2>2, <2>3
<1>2. CASE UNCHANGED vars
  <2>1. UNCHANGED <<rows, owned, processes, proc, th, mu, pmu, router, loops,
                    doomed, callbacks, boot, snap, todo, up, boots>>
    BY <1>2 DEF vars, engineVars, apiVars
  <2>2. TypeOK'
    BY <2>1 DEF TypeOK, EngineTypeOK
  <2>3. CallLocals'
    BY <2>1 DEF CallLocals
  <2>4. ThreadsKeep /\ ProcessesKeep
    BY <2>1 DEF ThreadsKeep, ProcessesKeep
  <2> QED BY <2>2, <2>3, <2>4, SupervisedFrame
<1> QED BY <1>1, <1>2

\* The inductive invariant holds in every state the program can reach.
THEOREM Invariance == Spec => []IInv
<1>1. Init => IInv
  <2> SUFFICES ASSUME Init
               PROVE  IInv
    OBVIOUS
  <2> USE NoneAssumption DEF Init, EngineInit
  <2>1. TypeOK
    BY UnbornRowType, IdleType, SpawnedType DEF TypeOK, EngineTypeOK, Unused, Process
  <2>2. CallLocals
    BY DEF CallLocals, LocalsOK, Idle
  <2>3. TunnelLock /\ DoomedUnregistered
    BY DEF TunnelLock, DoomedUnregistered, Idle
  <2>4. RunningHasService /\ EveryConnectorManaged
    BY DEF RunningHasService, EveryConnectorManaged, Unused
  <2>5. EveryEntryWatched
    BY DEF EveryEntryWatched, Running
  <2> QED BY <2>1, <2>2, <2>3, <2>4, <2>5 DEF IInv, Supervised
<1>2. IInv /\ [Next]_vars => IInv'
  BY IInvStep
<1> QED BY <1>1, <1>2, PTL DEF Spec

\* Every variable of the control plane keeps its type, for any number of
\* services, processes, ports and announcements.
THEOREM TypeCorrect == Spec => []TypeOK
<1>1. IInv => TypeOK
  BY DEF IInv
<1> QED BY <1>1, Invariance, PTL

\* No interleaving of requests, restore goroutine, exits, shutdown and restart
\* leaves a running connector that neither the map nor StopAll knows.
THEOREM ConnectorsManaged == Spec => []EveryConnectorManaged
<1>1. IInv => EveryConnectorManaged
  BY DEF IInv, Supervised
<1> QED BY <1>1, Invariance, PTL

\* No entry of the map is left without a waiter that will remove it.
THEOREM EntriesWatched == Spec => []EveryEntryWatched
<1>1. IInv => EveryEntryWatched
  BY DEF IInv, Supervised
<1> QED BY <1>1, Invariance, PTL

-------------------------------------------------------------------------------
(* The contract of the supervisor. *)

ContractStep == [Supervision!Next]_(Supervision!vars)

\* The contract does not see a step that leaves the map alone and starts, ends
\* and cancels no serving connector.
LEMMA ContractFrame ==
    ASSUME UNCHANGED processes,
           \A p \in Pids : Serving(p)' <=> Serving(p),
           \A p \in Pids : Serving(p) => proc'[p].svc = proc[p].svc
    PROVE  ContractStep
<1>1. UNCHANGED {s \in Services : Running(s)}
  BY DEF Running
<1>2. UNCHANGED [p \in Pids |-> IF Serving(p) THEN proc[p].svc ELSE None]
  OBVIOUS
<1> QED BY <1>1, <1>2 DEF ContractStep, Supervision!vars

\* The connector that serves a service is the one in the map.
LEMMA ServingIsListed ==
    ASSUME TypeOK, Supervised, NEW p \in Pids, Serving(p)
    PROVE  /\ proc[p].svc \in Services
           /\ processes[proc[p].svc] = p
           /\ p # None
BY NoneAssumption DEF Supervised, RunningHasService, EveryConnectorManaged, Serving

\* A process registered for a service that had none is a start of the contract.
LEMMA StartKeepsContract ==
    ASSUME TypeOK, Supervised, NEW s \in Services, NEW p \in Pids, NEW kind, NEW wait,
           ~Running(s), Free(p),
           proc' = [proc EXCEPT ![p] = Spawned(s, kind, wait)],
           processes' = [processes EXCEPT ![s] = p], doomed' = doomed
    PROVE  ContractStep
<1>0. /\ proc \in [Pids -> Process]
      /\ processes \in [Services -> Pids \cup {None}]
      /\ s # None /\ p # None
  BY NoneAssumption DEF TypeOK, EngineTypeOK
<1> DEFINE serves == [q \in Pids |-> IF Serving(q) THEN proc[q].svc ELSE None]
<1>1. ~Serving(p) /\ Serving(p)' /\ proc'[p].svc = s
  BY <1>0 DEF Free, Serving, Spawned, Unused
<1>2. \A q \in Pids \ {p} : proc'[q] = proc[q]
  BY <1>0
<1>3. \A q \in Pids : serves[q] # s
  <2> SUFFICES ASSUME NEW q \in Pids, Serving(q), proc[q].svc = s
               PROVE  FALSE
    BY <1>0
  <2> QED BY ServingIsListed DEF Running
<1>4. serves[p] = None
  BY <1>1
<1>5. {r \in Services : Running(r)}' = {r \in Services : Running(r)} \cup {s}
  BY <1>0 DEF Running
<1>6. serves' = [serves EXCEPT ![p] = s]
  <2>1. serves'[p] = s
    BY <1>0, <1>1
  <2>2. \A q \in Pids \ {p} : serves'[q] = serves[q]
    BY <1>2 DEF Serving
  <2> QED BY <2>1, <2>2
<1> HIDE DEF serves
<1>7. s \notin {r \in Services : Running(r)}
  OBVIOUS
<1>8. Supervision!Start(s, p)
  BY <1>3, <1>4, <1>5, <1>6, <1>7 DEF Supervision!Start, serves
<1> QED BY <1>8 DEF ContractStep, Supervision!Next

\* A process that leaves the map together with its cancellation, or after its end,
\* is a stop of the contract, whatever number of them it is.
LEMMA StopKeepsContract ==
    ASSUME TypeOK, Supervised, NEW S \in SUBSET Services,
           \A s \in S : Running(s) /\ ~Running(s)',
           \A s \in Services \ S : Running(s)' <=> Running(s),
           \A p \in Pids : Serving(p)' <=> Serving(p) /\ proc[p].svc \notin S,
           \A p \in Pids : Serving(p)' => proc'[p].svc = proc[p].svc
    PROVE  ContractStep
<1> DEFINE serves == [q \in Pids |-> IF Serving(q) THEN proc[q].svc ELSE None]
<1>1. None \notin S
  BY NoneAssumption
<1>2. S \subseteq {r \in Services : Running(r)}
  OBVIOUS
<1>3. {r \in Services : Running(r)}' = {r \in Services : Running(r)} \ S
  OBVIOUS
<1>4. serves' = [q \in Pids |-> IF serves[q] \in S THEN None ELSE serves[q]]
  BY <1>1
<1> HIDE DEF serves
<1>5. Supervision!Stop(S)
  BY <1>2, <1>3, <1>4 DEF Supervision!Stop, serves
<1> QED BY <1>5 DEF ContractStep, Supervision!Next

\* A start lists the service and spawns its connector in one step; every other
\* step of a start is none of the contract's business.
LEMMA StartStepKeepsContract ==
    ASSUME IInv, NEW t \in Threads, StartStep(t)
    PROVE  ContractStep
<1>0. /\ TypeOK /\ Supervised
      /\ proc \in [Pids -> Process]
      /\ processes \in [Services -> Pids \cup {None}]
      /\ th[t].pc # "idle" => th[t].svc \in Services
  BY DEF IInv, TypeOK, EngineTypeOK, CallLocals, LocalsOK
<1>1. CASE UNCHANGED <<processes, proc, doomed>>
  BY <1>1, ContractFrame DEF Serving
<1>2. ASSUME NEW p \in Pids, StartNatmap(t, p)
      PROVE  ContractStep
  <2>1. th[t].svc \in Services
    BY <1>0, <1>2 DEF StartNatmap, At
  <2> QED BY <1>0, <1>2, <2>1, StartKeepsContract DEF StartNatmap
<1>3. CASE StartNatmapWrite(t)
  <2>1. \A p \in Pids : /\ proc'[p].state = proc[p].state
                        /\ proc'[p].svc = proc[p].svc
                        /\ proc'[p].cancelled = proc[p].cancelled
    BY <1>0, <1>3 DEF StartNatmapWrite, Process
  <2>2. UNCHANGED <<processes, doomed>>
    BY <1>3 DEF StartNatmapWrite
  <2> QED BY <2>1, <2>2, ContractFrame DEF Serving
<1>4. ASSUME NEW p \in Pids, StartQuickTunnel(t, p)
      PROVE  ContractStep
  <2>1. th[t].svc \in Services
    BY <1>0, <1>4 DEF StartQuickTunnel, At
  <2>2. CASE Live(rows[th[t].svc])
    BY <1>0, <1>4, <2>1, <2>2, StartKeepsContract DEF StartQuickTunnel
  <2>3. CASE ~Live(rows[th[t].svc])
    <3>1. /\ UNCHANGED <<processes, doomed>>
          /\ \A q \in Pids \ {p} : proc'[q] = proc[q]
          /\ proc'[p].cancelled
      BY <1>0, <1>4, <2>3 DEF StartQuickTunnel, Spawned, Unused
    <3>2. ~Serving(p)
      BY <1>4 DEF StartQuickTunnel, Free, Serving
    <3> QED BY <3>1, <3>2, ContractFrame DEF Serving
  <2> QED BY <2>2, <2>3
<1>5. ASSUME NEW p \in Pids, StartTunnel(t, p)
      PROVE  ContractStep
  <2>1. th[t].svc \in Services /\ ~Running(th[t].svc)
    BY <1>0, <1>5 DEF StartTunnel, At, Supervised, TunnelLock
  <2>2. CASE Live(rows[th[t].svc])
    BY <1>0, <1>5, <2>1, <2>2, StartKeepsContract DEF StartTunnel
  <2>3. CASE ~Live(rows[th[t].svc])
    BY <1>1, <1>5, <2>3 DEF StartTunnel
  <2> QED BY <2>2, <2>3
<1> QED
  BY <1>1, <1>2, <1>3, <1>4, <1>5
     DEF StartStep, ValidateTarget, AlreadyRunning, SpawnFails, StartTunnelLock,
         TunnelTokenCall, TunnelTokenFails

\* A connector ends, its waiter notices, or StopAll gets round to it.
LEMMA ProcessStepKeepsContract ==
    ASSUME IInv, NEW p \in Pids, ProcessStep(p)
    PROVE  ContractStep
<1>0. /\ TypeOK /\ Supervised
      /\ proc \in [Pids -> Process]
      /\ processes \in [Services -> Pids \cup {None}]
  BY DEF IInv, TypeOK, EngineTypeOK
<1> DEFINE serves == [q \in Pids |-> IF Serving(q) THEN proc[q].svc ELSE None]
           listed == {r \in Services : Running(r)}
<1>1. CASE ProcessExits(p)
  <2>1. /\ UNCHANGED <<processes, doomed>>
        /\ \A q \in Pids \ {p} : proc'[q] = proc[q]
        /\ ~Serving(p)'
    BY <1>0, <1>1 DEF ProcessExits, Serving
  <2>2. CASE Serving(p)
    <3>1. serves[p] # None
      BY <1>0, <2>2, ServingIsListed, NoneAssumption
    <3>2. serves' = [serves EXCEPT ![p] = None]
      <4>1. serves'[p] = None
        BY <2>1
      <4>2. \A q \in Pids \ {p} : serves'[q] = serves[q]
        BY <2>1 DEF Serving
      <4> QED BY <4>1, <4>2
    <3>3. listed' = listed
      BY <2>1 DEF Running
    <3> HIDE DEF serves, listed
    <3>4. Supervision!Exit(p)
      BY <3>1, <3>2, <3>3 DEF Supervision!Exit, serves, listed
    <3> QED BY <3>4 DEF ContractStep, Supervision!Next
  <2>3. CASE ~Serving(p)
    BY <2>1, <2>3, ContractFrame DEF Serving
  <2> QED BY <2>2, <2>3
<1>2. CASE QuickTunnelURL(p) \/ WaitRemovesGateway(p)
  <2>1. /\ UNCHANGED <<processes, doomed>>
        /\ \A q \in Pids \ {p} : proc'[q] = proc[q]
        /\ proc'[p].state = proc[p].state /\ proc'[p].svc = proc[p].svc
        /\ proc'[p].cancelled = proc[p].cancelled
    BY <1>0, <1>2 DEF QuickTunnelURL, WaitRemovesGateway, Process
  <2> QED BY <2>1, ContractFrame DEF Serving
<1>3. CASE WaitReturns(p)
  <2> DEFINE s == proc[p].svc
  <2>1. /\ doomed' = doomed
        /\ \A q \in Pids \ {p} : proc'[q] = proc[q]
        /\ proc'[p].state = proc[p].state /\ proc'[p].svc = s
        /\ proc'[p].cancelled = proc[p].cancelled
    BY <1>0, <1>3 DEF WaitReturns, Process
  <2>2. \A q \in Pids : /\ Serving(q)' <=> Serving(q)
                        /\ proc'[q].svc = proc[q].svc
    BY <2>1 DEF Serving
  <2>3. CASE processes[s] = p /\ s \in Services
    <3>1. s \notin {serves[q] : q \in Pids}
      <4> SUFFICES ASSUME NEW q \in Pids, Serving(q), proc[q].svc = s
                   PROVE  FALSE
        BY <2>3, NoneAssumption
      <4>1. q = p
        BY <1>0, <2>3, ServingIsListed
      <4> QED BY <1>3, <4>1 DEF WaitReturns, Serving
    <3>2. s \in listed /\ listed' = listed \ {s}
      BY <1>0, <1>3, <2>3, NoneAssumption DEF WaitReturns, Running
    <3>3. serves' = serves
      BY <2>2
    <3> HIDE DEF serves, listed
    <3>4. Supervision!Notice(s)
      BY <3>1, <3>2, <3>3 DEF Supervision!Notice, serves, listed
    <3> QED BY <2>3, <3>4 DEF ContractStep, Supervision!Next
  <2>4. CASE processes' = processes
    BY <2>2, <2>4, ContractFrame
  <2>5. \/ processes' = processes
        \/ processes[s] = p /\ processes' = [processes EXCEPT ![s] = None]
    BY <1>3 DEF WaitReturns
  <2>6. s \notin Services => [processes EXCEPT ![s] = None] = processes
    BY <1>0
  <2> QED BY <2>3, <2>4, <2>5, <2>6
<1>4. CASE StopAllCancels(p)
  <2>1. /\ UNCHANGED processes /\ doomed' = doomed \ {p} /\ p \in doomed
        /\ \A q \in Pids \ {p} : proc'[q] = proc[q]
        /\ proc'[p].cancelled
    BY <1>0, <1>4 DEF StopAllCancels, Process
  <2> QED BY <2>1, ContractFrame DEF Serving
<1> QED BY <1>1, <1>2, <1>3, <1>4 DEF ProcessStep

\* Stop and StopAll take services off the list with their connectors, and a
\* restart begins with none.
LEMMA StopsKeepContract ==
    ASSUME IInv, \/ \E s \in Services : Stop(s)
                 \/ Shutdown
                 \/ Restart
    PROVE  ContractStep
<1>0. /\ TypeOK /\ Supervised
      /\ proc \in [Pids -> Process]
      /\ processes \in [Services -> Pids \cup {None}]
  BY DEF IInv, TypeOK, EngineTypeOK
<1>1. ASSUME NEW s \in Services, Stop(s)
      PROVE  ContractStep
  <2> DEFINE P == processes[s]
  <2>1. CASE P = None
    <3>1. UNCHANGED <<processes, proc, doomed>>
      BY <1>0, <1>1, <2>1 DEF Stop
    <3> QED BY <3>1, ContractFrame DEF Serving
  <2>2. CASE P # None
    <3>1. /\ processes' = [processes EXCEPT ![s] = None]
          /\ doomed' = doomed
          /\ P \in Pids
          /\ \A q \in Pids \ {P} : proc'[q] = proc[q]
          /\ proc'[P].cancelled
      BY <1>0, <1>1, <2>2 DEF Stop, Process
    <3>2. \A q \in Pids : Serving(q) => (proc[q].svc = s <=> q = P)
      <4>1. proc[P].svc = s
        BY <1>0, <2>2 DEF Supervised, EveryEntryWatched, Running
      <4> QED BY <1>0, <4>1, ServingIsListed
    <3>3. \A q \in Pids : Serving(q)' <=> Serving(q) /\ proc[q].svc \notin {s}
      BY <3>1, <3>2 DEF Serving
    <3>4. \A q \in Pids : Serving(q)' => proc'[q].svc = proc[q].svc
      BY <3>1 DEF Serving
    <3>5. /\ Running(s) /\ ~Running(s)'
          /\ \A r \in Services \ {s} : Running(r)' <=> Running(r)
      BY <1>0, <2>2, <3>1 DEF Running
    <3> QED BY <1>0, <3>3, <3>4, <3>5, StopKeepsContract
  <2> QED BY <2>1, <2>2
<1>2. CASE Shutdown \/ Restart
  <2> DEFINE S == {s \in Services : Running(s)}
  <2>1. \A s \in Services : ~Running(s)'
    BY <1>2 DEF Shutdown, StopAll, Restart, Running
  <2>2. \A q \in Pids : Serving(q) => proc[q].svc \in S
    BY <1>0, ServingIsListed DEF Running
  <2>3. \A q \in Pids : ~Serving(q)'
    <3> SUFFICES ASSUME NEW q \in Pids
                 PROVE  ~Serving(q)'
      OBVIOUS
    <3>1. CASE Shutdown
      <4>1. Serving(q)' => Serving(q)
        BY <3>1 DEF Shutdown, StopAll, Serving
      <4>2. Serving(q) => q \in doomed'
        BY <1>0, <3>1, ServingIsListed DEF Shutdown, StopAll
      <4> QED BY <4>1, <4>2 DEF Serving
    <3>2. CASE Restart
      BY <3>2 DEF Restart, Serving, Unused
    <3> QED BY <1>2, <3>1, <3>2
  <2> QED BY <1>0, <2>1, <2>2, <2>3, StopKeepsContract
<1> QED BY <1>1, <1>2

\* The steps of requests, announcements, keep-alive goroutines and boot do not
\* touch what the contract is about, except that a request may be a stop.
LEMMA QuietStepKeepsContract ==
    ASSUME IInv,
           \/ GatewayStep
           \/ HandlerStep
           \/ \E t \in Threads : StartFails(t)
           \/ \E s \in Services : BeginRequest(s) \/ RestoreNext(s)
           \/ \E p \in Pids, m \in Mappings : NatmapEvent(p, m)
           \/ \E c \in callbacks : HandleMapping(c)
           \/ \E l \in loops : LoopStep(l)
           \/ FirewallReload /\ UNCHANGED apiVars
           \/ RestoreSnapshot
    PROVE  ContractStep
<1>0. /\ proc \in [Pids -> Process]
      /\ processes \in [Services -> Pids \cup {None}]
  BY DEF IInv, TypeOK, EngineTypeOK
<1>1. UNCHANGED <<processes, proc, doomed>> => ContractStep
  BY ContractFrame DEF Serving
<1>2. CASE GatewayStep
  <2>1. CASE GatewayRecord
    <3> DEFINE P == processes[th["api"].svc]
               rec == [proc[P] EXCEPT !.gw = ApplyState, !.gen = @ + 1]
    <3>1. UNCHANGED <<processes, doomed>>
      BY <2>1 DEF GatewayRecord
    <3>2. UNCHANGED proc \/ proc' = [proc EXCEPT ![P] = rec]
      BY <2>1 DEF GatewayRecord
    <3>3. P \in Pids => /\ rec.state = proc[P].state
                        /\ rec.svc = proc[P].svc
                        /\ rec.cancelled = proc[P].cancelled
      BY <1>0 DEF Process
    <3> HIDE DEF P, rec
    <3>4. \A q \in Pids : /\ proc'[q].state = proc[q].state
                          /\ proc'[q].svc = proc[q].svc
                          /\ proc'[q].cancelled = proc[q].cancelled
      BY <1>0, <3>2, <3>3
    <3> QED BY <3>1, <3>4, ContractFrame DEF Serving
  <2>2. CASE ~GatewayRecord
    BY <1>1, <1>2, <2>2
       DEF GatewayStep, StopRemovesGateway, GatewayAdd, GatewayInsertRule,
           GatewayUndo, RemovePreviousGateway, GatewayReady, GatewayFails
  <2> QED BY <2>1, <2>2
<1>3. CASE HandlerStep
  BY <1>1, <1>3
     DEF HandlerStep, UpdateWrite, DeleteWrite, SyncLock, SyncCall, SyncWrite,
         SyncErrorWrite, CleanupLock, CleanupCall, SaveMapping
<1>4. ASSUME NEW s \in Services, BeginRequest(s)
      PROVE  ContractStep
  <2>1. CASE HandleStop(s)
    BY <2>1, StopsKeepContract DEF HandleStop
  <2>2. CASE ~HandleStop(s)
    BY <1>1, <1>4, <2>2
       DEF BeginRequest, HandleCreate, HandleUpdate, HandleDelete, HandleStart,
           HandleSync, HandleCleanup
  <2> QED BY <2>1, <2>2
<1>5. CASE \/ \E t \in Threads : StartFails(t)
           \/ \E s \in Services : RestoreNext(s)
           \/ \E c \in callbacks : HandleMapping(c)
           \/ FirewallReload
  BY <1>1, <1>5 DEF StartFails, RestoreNext, HandleMapping, FirewallReload
<1>6. CASE \/ \E p \in Pids, m \in Mappings : NatmapEvent(p, m)
           \/ RestoreSnapshot
  BY <1>1, <1>6 DEF NatmapEvent, RestoreSnapshot, engineVars
<1>7. ASSUME NEW l \in loops, LoopStep(l)
      PROVE  ContractStep
  BY <1>1, <1>7
     DEF LoopStep, LoopEnds, LoopTicks, RenewNATPMP, ReassertPrunes,
         ReassertInserts, LoopFails
<1> QED BY <1>2, <1>3, <1>4, <1>5, <1>6, <1>7

\* The supervisor implements its contract: no interleaving starts a second
\* connector for a service, lists a service without one, or takes one off the
\* list that goes on serving.
THEOREM SupervisorKeepsContract == Spec => KeepsConnectorContract
<1>1. Init => Supervision!Init
  BY DEF Init, EngineInit, Supervision!Init, Running, Serving, Unused
<1>2. IInv /\ [Next]_vars => ContractStep
  <2> SUFFICES ASSUME IInv, [Next]_vars
               PROVE  ContractStep
    OBVIOUS
  <2>1. CASE Next
    BY <2>1, StartStepKeepsContract, ProcessStepKeepsContract,
       StopsKeepContract, QuietStepKeepsContract DEF Next
  <2>2. CASE UNCHANGED vars
    BY <2>2, ContractFrame DEF vars, engineVars, Serving
  <2> QED BY <2>1, <2>2
<1> QED
  BY <1>1, <1>2, Invariance, PTL
     DEF Spec, KeepsConnectorContract, Supervision!Spec, ContractStep

\* A service has at most one serving connector, and is listed while it has one:
\* what the check of Manager.processes at the top of every start is for.
THEOREM OneConnectorPerService == Spec => []Supervision!OneConnectorListed
<1>1. IInv => Supervision!OneConnectorListed
  <2> SUFFICES ASSUME IInv
               PROVE  Supervision!OneConnectorListed
    OBVIOUS
  <2>1. \A p \in Pids : Serving(p) => /\ proc[p].svc \in Services
                                     /\ Running(proc[p].svc)
                                     /\ processes[proc[p].svc] = p
    BY ServingIsListed DEF IInv, Running
  <2> QED BY <2>1 DEF Supervision!OneConnectorListed
<1> QED BY <1>1, Invariance, PTL

-------------------------------------------------------------------------------
(* The mapping recorded on a process. *)

\* A step of Manager.Start writes the struct of a fresh process, or of one that
\* keeps its record.
LEMMA StartStepRecords ==
    ASSUME TypeOK, NEW t \in Threads, StartStep(t), NEW p \in Pids,
           proc[p].gw # proc'[p].gw
    PROVE  Free(p)
<1>0. proc \in [Pids -> Process]
  BY DEF TypeOK, EngineTypeOK
<1>1. CASE UNCHANGED proc
  BY <1>1
<1>2. ASSUME NEW q \in Pids, StartNatmap(t, q)
      PROVE  Free(p)
  <2>1. p # q => proc'[p] = proc[p]
    BY <1>0, <1>2 DEF StartNatmap
  <2> QED BY <1>2, <2>1 DEF StartNatmap
<1>3. CASE StartNatmapWrite(t)
  BY <1>0, <1>3 DEF StartNatmapWrite, Process
<1>4. ASSUME NEW q \in Pids, StartQuickTunnel(t, q)
      PROVE  Free(p)
  <2>1. p # q => proc'[p] = proc[p]
    BY <1>0, <1>4 DEF StartQuickTunnel
  <2> QED BY <1>4, <2>1 DEF StartQuickTunnel
<1>5. ASSUME NEW q \in Pids, StartTunnel(t, q)
      PROVE  Free(p)
  <2>1. p # q => proc'[p] = proc[p]
    BY <1>0, <1>5 DEF StartTunnel
  <2> QED BY <1>5, <2>1 DEF StartTunnel
<1> QED
  BY <1>1, <1>2, <1>3, <1>4, <1>5
     DEF StartStep, ValidateTarget, AlreadyRunning, SpawnFails, StartTunnelLock,
         TunnelTokenCall, TunnelTokenFails

\* The record of a process that has left the map is frozen: whoever cleans up
\* after it reads, without the lock, the last mapping recorded.
THEOREM RecordsFrozen == Spec => RecordFrozenAfterRemoval
<1> DEFINE Frozen == \A p \in Pids : proc[p].gw # proc'[p].gw /\ boots' = boots
                       => Registered(p) \/ Free(p)
<1>1. IInv /\ [Next]_vars => [Frozen]_vars
  <2> SUFFICES ASSUME IInv, Next, NEW p \in Pids,
                      proc[p].gw # proc'[p].gw, boots' = boots
               PROVE  Registered(p) \/ Free(p)
    OBVIOUS
  <2>0. /\ th \in [Threads -> Thread] /\ proc \in [Pids -> Process]
        /\ processes \in [Services -> Pids \cup {None}] /\ boots \in Nat
    BY DEF IInv, TypeOK, EngineTypeOK
  <2>1. CASE UNCHANGED proc
    BY <2>1
  <2>2. CASE \E t \in Threads : StartStep(t)
    BY <2>2, StartStepRecords DEF IInv
  <2>3. CASE GatewayRecord
    <3> DEFINE P == processes[th["api"].svc]
    <3>1. th["api"].svc \in Services
      BY <2>3 DEF GatewayRecord, At, IInv, CallLocals, LocalsOK, Threads
    <3>2. CASE p = P
      BY <3>1, <3>2 DEF Registered
    <3>3. CASE p # P
      <4>1. proc'[p] = proc[p]
        BY <2>0, <2>3, <3>3 DEF GatewayRecord
      <4> QED BY <4>1
    <3> QED BY <3>2, <3>3
  <2>4. ASSUME NEW q \in Pids, ProcessStep(q)
        PROVE  Registered(p) \/ Free(p)
    <3>1. \/ proc' = proc
          \/ proc' = [proc EXCEPT ![q].state = "exited"]
          \/ proc' = [proc EXCEPT ![q].found = TRUE]
          \/ proc' = [proc EXCEPT ![q].wait = "cleanup"]
          \/ proc' = [proc EXCEPT ![q].wait = "done"]
          \/ proc' = [proc EXCEPT ![q].cancelled = TRUE]
      BY <2>4 DEF ProcessStep, ProcessExits, QuickTunnelURL, WaitReturns,
         WaitRemovesGateway, StopAllCancels
    <3> QED BY <2>0, <3>1 DEF Process
  <2>5. CASE \E s \in Services : HandleStop(s)
    BY <2>0, <2>5 DEF HandleStop, Stop, Process
  <2>6. CASE Restart
    BY <2>0, <2>6 DEF Restart
  <2>7. CASE GatewayStep /\ ~GatewayRecord
    BY <2>1, <2>7 DEF GatewayStep, StopRemovesGateway, GatewayAdd,
       GatewayInsertRule, GatewayUndo, RemovePreviousGateway, GatewayReady,
       GatewayFails
  <2>8. CASE HandlerStep \/ \E t \in Threads : StartFails(t)
    BY <2>1, <2>8 DEF HandlerStep, UpdateWrite, DeleteWrite, SyncLock, SyncCall,
       SyncWrite, SyncErrorWrite, CleanupLock, CleanupCall, SaveMapping, StartFails
  <2>9. CASE \E s \in Services :
               (BeginRequest(s) /\ ~HandleStop(s)) \/ RestoreNext(s)
    BY <2>1, <2>9 DEF BeginRequest, HandleCreate, HandleUpdate, HandleDelete,
       HandleStart, HandleSync, HandleCleanup, RestoreNext
  <2>10. CASE \E l \in loops : LoopStep(l)
    BY <2>1, <2>10 DEF LoopStep, LoopEnds, LoopTicks, RenewNATPMP,
       ReassertPrunes, ReassertInserts, LoopFails
  <2>11. CASE \E q \in Pids, m \in Mappings : NatmapEvent(q, m)
    BY <2>1, <2>11 DEF NatmapEvent, engineVars
  <2>12. CASE \/ \E c \in callbacks : HandleMapping(c)
              \/ FirewallReload \/ Shutdown
    BY <2>1, <2>12 DEF HandleMapping, FirewallReload, Shutdown, StopAll
  <2>13. CASE RestoreSnapshot
    BY <2>1, <2>13 DEF RestoreSnapshot, engineVars
  <2> QED
    BY <2>2, <2>3, <2>4, <2>5, <2>6, <2>7, <2>8, <2>9, <2>10, <2>11,
       <2>12, <2>13 DEF Next
<1> QED BY <1>1, Invariance, PTL DEF Spec, RecordFrozenAfterRemoval

-------------------------------------------------------------------------------
(* The addresses of quick tunnels. *)

\* An address names a process this or an earlier run of the program has started,
\* and only a live row shows one.
UrlInv ==
    /\ UrlIsOfRegisteredProcess
    /\ \A s \in Services :
        rows[s].url # None => proc[rows[s].url].state # "unused" /\ Live(rows[s])

\* A write to a row that takes its address away, or leaves it to the same row.
KeepsUrl(new, old) == new.url = None \/ (new.url = old.url /\ new.life = old.life)

UrlsKept == \A s \in Services : KeepsUrl(rows'[s], rows[s])

\* No process a row names is started or forgotten.
NamedProcessesKept ==
    \A s \in Services :
        LET p == rows[s].url IN
        p # None => \/ proc'[p].state = proc[p].state
                    \/ proc[p].state = "running" /\ proc'[p].state = "exited"

\* An address stays right as long as the process it names does not leave the map
\* without taking the address along.
LEMMA UrlFrame ==
    ASSUME TypeOK, UrlInv, up' = up, UrlsKept, NamedProcessesKept,
           \A s \in Services : \/ processes'[s] = processes[s]
                               \/ processes[s] = None
                               \/ rows'[s].url = None
    PROVE  UrlInv'
<1> USE DEF UrlInv
<1>1. ASSUME NEW s \in Services, rows'[s].url # None
      PROVE  /\ rows'[s].url = rows[s].url
             /\ rows'[s].life = rows[s].life
             /\ rows[s].url # None
             /\ rows[s].url \in Pids
  BY <1>1 DEF UrlsKept, KeepsUrl, TypeOK, EngineTypeOK, Row
<1>2. ASSUME NEW s \in Services, rows'[s].url # None
      PROVE  proc'[rows'[s].url].state # "unused" /\ Live(rows'[s])
  BY <1>1, <1>2 DEF NamedProcessesKept, Live
<1>3. ASSUME up' = "up", NEW s \in Services, rows'[s].url # None,
             proc'[rows'[s].url].state # "lost"
      PROVE  processes'[s] = rows'[s].url
  <2>1. proc[rows[s].url].state # "lost"
    BY <1>1, <1>3 DEF NamedProcessesKept
  <2>2. processes[s] = rows[s].url
    BY <1>1, <1>3, <2>1 DEF UrlIsOfRegisteredProcess
  <2> QED BY <1>1, <1>3, <2>2
<1>4. UrlIsOfRegisteredProcess'
  BY <1>3 DEF UrlIsOfRegisteredProcess
<1> QED BY <1>2, <1>4

\* SetServiceRuntime keeps or clears the address, and clears it when the service
\* has stopped or failed.
LEMMA SetServiceRuntimeUrl ==
    ASSUME NEW row \in Row, NEW status, NEW enabled
    PROVE  /\ KeepsUrl(SetServiceRuntime(row, status, enabled), row)
           /\ Live(row) /\ status \in {"stopped", "error", "tunnel_starting"}
                => SetServiceRuntime(row, status, enabled).url = None
BY DEF SetServiceRuntime, KeepsUrl, Row

\* So does the write of it to the table.
LEMMA RuntimeUrl ==
    ASSUME rows \in [Services -> Row], NEW s, NEW status, NEW enabled,
           rows' = Runtime(s, status, enabled)
    PROVE  UrlsKept
<1> SUFFICES ASSUME NEW x \in Services
             PROVE  KeepsUrl(rows'[x], rows[x])
  BY DEF UrlsKept
<1>1. CASE x = s
  <2>1. rows'[x] = SetServiceRuntime(rows[x], status, enabled)
    BY <1>1 DEF Runtime
  <2> QED BY <2>1, SetServiceRuntimeUrl
<1>2. CASE x # s
  <2>1. rows'[x] = rows[x]
    BY <1>2 DEF Runtime
  <2> QED BY <2>1 DEF KeepsUrl
<1> QED BY <1>1, <1>2

\* A table nobody has written to shows the same addresses.
LEMMA SameRowsUrl ==
    ASSUME rows' = rows
    PROVE  UrlsKept
BY DEF UrlsKept, KeepsUrl

\* A row that is written with the columns of the store's other operations.
LEMMA RowWriteUrls ==
    ASSUME TypeOK, UrlInv, NEW s \in Services, NEW row,
           rows' = [rows EXCEPT ![s] = row], KeepsUrl(row, rows[s])
    PROVE  UrlsKept
BY DEF UrlsKept, KeepsUrl, TypeOK, EngineTypeOK

\* The step changes neither the map nor any process, and keeps the addresses.
LEMMA UrlQuiet ==
    ASSUME TypeOK, UrlInv, up' = up, UrlsKept, processes' = processes,
           proc' = proc
    PROVE  UrlInv'
BY UrlFrame DEF NamedProcessesKept

\* A process nothing refers to is started.
LEMMA UrlRegister ==
    ASSUME TypeOK, UrlInv, up' = up, UrlsKept, NEW p \in Pids, Free(p), NEW x,
           proc' = [proc EXCEPT ![p] = x], NEW s \in Services, ~Running(s),
           processes' \in {processes, [processes EXCEPT ![s] = p]}
    PROVE  UrlInv'
<1>1. NamedProcessesKept
  BY DEF NamedProcessesKept, Free, TypeOK, EngineTypeOK
<1>2. \A y \in Services : processes'[y] = processes[y] \/ processes[y] = None
  BY DEF Running, TypeOK, EngineTypeOK
<1> QED BY <1>1, <1>2, UrlFrame

\* A step of Manager.Start keeps the addresses right.
LEMMA StartStepUrls ==
    ASSUME IInv, UrlInv, NEW t \in Threads, StartStep(t)
    PROVE  UrlInv'
<1>0. /\ TypeOK /\ rows \in [Services -> Row] /\ up' = up
      /\ th[t].pc # "idle" => th[t].svc \in Services
  BY DEF IInv, TypeOK, EngineTypeOK, StartStep, apiVars, CallLocals, LocalsOK
<1>1. CASE \/ ValidateTarget(t) \/ AlreadyRunning(t) \/ SpawnFails(t)
           \/ StartTunnelLock(t) \/ TunnelTokenCall(t) \/ TunnelTokenFails(t)
  <2>1. UNCHANGED <<rows, processes, proc>>
    BY <1>1 DEF ValidateTarget, AlreadyRunning, SpawnFails, StartTunnelLock,
       TunnelTokenCall, TunnelTokenFails
  <2> QED BY <1>0, <2>1, SameRowsUrl, UrlQuiet
<1>2. ASSUME NEW p \in Pids, StartNatmap(t, p)
      PROVE  UrlInv'
  <2>1. th[t].svc \in Services
    BY <1>0, <1>2 DEF StartNatmap, At
  <2> QED BY <1>0, <1>2, <2>1, SameRowsUrl, UrlRegister DEF StartNatmap
<1>3. CASE StartNatmapWrite(t)
  <2>1. UrlsKept
    BY <1>0, <1>3, RuntimeUrl DEF StartNatmapWrite
  <2>2. \A p \in Pids : proc'[p].state = proc[p].state
    BY <1>0, <1>3 DEF StartNatmapWrite, TypeOK, EngineTypeOK, Process
  <2>3. NamedProcessesKept
    BY <1>0, <2>2 DEF NamedProcessesKept, TypeOK, EngineTypeOK, Row
  <2>4. processes' = processes
    BY <1>3 DEF StartNatmapWrite
  <2> QED BY <1>0, <2>1, <2>3, <2>4, UrlFrame
<1>4. ASSUME NEW p \in Pids, StartQuickTunnel(t, p)
      PROVE  UrlInv'
  <2>1. th[t].svc \in Services
    BY <1>0, <1>4 DEF StartQuickTunnel, At
  <2>2. UrlsKept
    BY <1>0, <1>4, RuntimeUrl, SameRowsUrl DEF StartQuickTunnel
  <2>3. \E x : proc' = [proc EXCEPT ![p] = x]
    BY <1>4 DEF StartQuickTunnel
  <2>4. /\ processes' \in {processes, [processes EXCEPT ![th[t].svc] = p]}
        /\ Free(p) /\ ~Running(th[t].svc)
    BY <1>4 DEF StartQuickTunnel
  <2> QED BY <1>0, <2>1, <2>2, <2>3, <2>4, UrlRegister
<1>5. ASSUME NEW p \in Pids, StartTunnel(t, p)
      PROVE  UrlInv'
  <2>1. th[t].svc \in Services
    BY <1>0, <1>5 DEF StartTunnel, At
  <2>2. UrlsKept
    BY <1>0, <1>5, RuntimeUrl, SameRowsUrl DEF StartTunnel
  <2>3. CASE UNCHANGED <<processes, proc>>
    BY <1>0, <2>2, <2>3, UrlQuiet
  <2>4. CASE Live(rows[th[t].svc])
    <3>1. \E x : proc' = [proc EXCEPT ![p] = x]
      BY <1>5, <2>4 DEF StartTunnel
    <3>2. /\ processes' \in {processes, [processes EXCEPT ![th[t].svc] = p]}
          /\ Free(p)
      BY <1>5, <2>4 DEF StartTunnel
    <3>3. ~Running(th[t].svc)
      BY <1>5 DEF StartTunnel, At, IInv, Supervised, TunnelLock
    <3> QED BY <1>0, <2>1, <2>2, <3>1, <3>2, <3>3, UrlRegister
  <2> QED BY <1>5, <2>3, <2>4 DEF StartTunnel
<1> QED BY <1>1, <1>2, <1>3, <1>4, <1>5 DEF StartStep

\* A step in the life of a child keeps the addresses right: wait clears the
\* address when it takes the process out of the map, and the output of a process
\* is believed only while the process is registered.
LEMMA ProcessStepUrls ==
    ASSUME IInv, UrlInv, NEW p \in Pids, ProcessStep(p)
    PROVE  UrlInv'
<1>0. /\ TypeOK /\ rows \in [Services -> Row] /\ up' = up
      /\ proc \in [Pids -> Process]
      /\ processes \in [Services -> Pids \cup {None}]
      /\ \A s \in Services : rows[s].url # None => rows[s].url \in Pids
  BY DEF IInv, TypeOK, EngineTypeOK, ProcessStep, apiVars, Row
<1>1. ASSUME \/ proc' = [proc EXCEPT ![p].wait = "cleanup"]
             \/ proc' = [proc EXCEPT ![p].wait = "done"]
             \/ proc' = [proc EXCEPT ![p].cancelled = TRUE]
             \/ proc' = [proc EXCEPT ![p].found = TRUE]
             \/ /\ proc[p].state = "running"
                /\ proc' = [proc EXCEPT ![p].state = "exited"]
      PROVE  /\ NamedProcessesKept
             /\ \A q \in Pids : proc[q].state = "running" /\ proc' # proc
                  => proc'[q].state \in {"running", "exited"}
  <2>1. \A q \in Pids : \/ proc'[q].state = proc[q].state
                        \/ proc[q].state = "running" /\ proc'[q].state = "exited"
    BY <1>0, <1>1 DEF Process
  <2> QED BY <1>0, <2>1 DEF NamedProcessesKept
<1>2. CASE ProcessExits(p) \/ WaitRemovesGateway(p) \/ StopAllCancels(p)
  <2>1. NamedProcessesKept
    BY <1>1, <1>2 DEF ProcessExits, WaitRemovesGateway, StopAllCancels
  <2>2. rows' = rows /\ processes' = processes
    BY <1>2 DEF ProcessExits, WaitRemovesGateway, StopAllCancels
  <2> QED BY <1>0, <2>1, <2>2, SameRowsUrl, UrlFrame
<1>3. CASE WaitReturns(p)
  <2> DEFINE S == proc[p].svc
  <2>1. NamedProcessesKept
    <3>1. \/ proc' = [proc EXCEPT ![p].wait = "cleanup"]
          \/ proc' = [proc EXCEPT ![p].wait = "done"]
      BY <1>3 DEF WaitReturns
    <3> QED BY <1>1, <3>1
  <2>2. CASE UNCHANGED <<rows, processes>>
    BY <1>0, <2>1, <2>2, SameRowsUrl, UrlFrame
  <2>3. CASE /\ processes[S] = p
             /\ processes' = [processes EXCEPT ![S] = None]
             /\ rows' = IF proc[p].cancelled THEN rows ELSE Runtime(S, "error", TRUE)
    <3>1. UrlsKept
      BY <1>0, <2>3, RuntimeUrl, SameRowsUrl
    <3>2. ASSUME S \in Services
          PROVE  rows'[S].url = None
      <4>1. ~proc[p].cancelled
        BY <2>3, <3>2, NoneAssumption
           DEF IInv, Supervised, EveryEntryWatched, Running
      <4>2. rows'[S] = SetServiceRuntime(rows[S], "error", TRUE)
        BY <1>0, <2>3, <3>2, <4>1 DEF Runtime
      <4>3. CASE Live(rows[S])
        <5>1. rows[S] \in Row
          BY <1>0, <3>2
        <5> HIDE DEF S
        <5> QED BY <4>2, <4>3, <5>1, SetServiceRuntimeUrl
      <4>4. CASE ~Live(rows[S])
        BY <3>2, <4>2, <4>4 DEF SetServiceRuntime, UrlInv
      <4> QED BY <4>3, <4>4
    <3>3. \A x \in Services : processes'[x] = processes[x] \/ rows'[x].url = None
      BY <1>0, <2>3, <3>2
    <3> QED BY <1>0, <2>1, <3>1, <3>3, UrlFrame
  <2> QED BY <1>3, <2>2, <2>3 DEF WaitReturns
<1>4. CASE QuickTunnelURL(p)
  <2> DEFINE S == proc[p].svc
             announced == SetServiceRuntime(SetServiceRuntimeURL(rows[S], p),
                                            "tunnel_running", TRUE)
  <2>1. S \in Services /\ processes[S] = p /\ processes' = processes
    BY <1>4 DEF QuickTunnelURL, IInv, Supervised, RunningHasService
  <2>2. rows' = [rows EXCEPT ![S] = announced]
    BY <1>4 DEF QuickTunnelURL
  <2>3. \A q \in Pids : proc'[q].state = proc[q].state
    BY <1>0, <1>4 DEF QuickTunnelURL, Process
  <2>4. announced.url # None => Live(announced) /\ announced.url = p
    <3>1. rows[S] \in Row
      BY <1>0, <2>1
    <3>2. CASE ~Live(rows[S])
      BY <2>1, <3>2 DEF SetServiceRuntimeURL, SetServiceRuntime, UrlInv
    <3>3. CASE Live(rows[S])
      BY <3>1, <3>3 DEF SetServiceRuntimeURL, SetServiceRuntime, Live, Row
    <3> QED BY <3>2, <3>3
  <2>5. proc[p].state = "running"
    BY <1>4 DEF QuickTunnelURL
  <2> HIDE DEF S, announced
  <2>6. \A x \in Services : rows'[x].url # None =>
          /\ Live(rows'[x])
          /\ proc[rows'[x].url].state # "unused" /\ rows'[x].url \in Pids
          /\ up = "up" /\ proc[rows'[x].url].state # "lost"
               => processes[x] = rows'[x].url
    <3> SUFFICES ASSUME NEW x \in Services, rows'[x].url # None
                 PROVE  /\ Live(rows'[x])
                        /\ proc[rows'[x].url].state # "unused"
                        /\ rows'[x].url \in Pids
                        /\ up = "up" /\ proc[rows'[x].url].state # "lost"
                             => processes[x] = rows'[x].url
      OBVIOUS
    <3>1. CASE x = S
      BY <1>0, <2>1, <2>2, <2>4, <2>5, <3>1
    <3>2. CASE x # S
      <4>1. rows'[x] = rows[x]
        BY <1>0, <2>2, <3>2
      <4> QED BY <1>0, <4>1 DEF UrlInv, UrlIsOfRegisteredProcess
    <3> QED BY <3>1, <3>2
  <2> QED
    BY <1>0, <2>1, <2>3, <2>6 DEF UrlInv, UrlIsOfRegisteredProcess
<1> QED BY <1>2, <1>3, <1>4 DEF ProcessStep

\* Stop clears the address in the step that takes the process out of the map.
LEMMA StopUrls ==
    ASSUME IInv, UrlInv, NEW s \in Services, HandleStop(s)
    PROVE  UrlInv'
<1>0. /\ TypeOK /\ rows \in [Services -> Row] /\ up' = up
      /\ proc \in [Pids -> Process]
      /\ processes \in [Services -> Pids \cup {None}]
      /\ \A x \in Services : rows[x].url # None => rows[x].url \in Pids
  BY DEF IInv, TypeOK, EngineTypeOK, HandleStop, apiVars, Row
<1>1. /\ rows' = Runtime(s, "stopped", FALSE)
      /\ processes' = [processes EXCEPT ![s] = None]
      /\ proc' = proc \/ proc' = [proc EXCEPT ![processes[s]].cancelled = TRUE]
  BY DEF HandleStop, Stop
<1>2. UrlsKept
  BY <1>0, <1>1, RuntimeUrl
<1>3. NamedProcessesKept
  <2>1. \A p \in Pids : proc'[p].state = proc[p].state
    BY <1>0, <1>1 DEF Process
  <2> QED BY <1>0, <2>1 DEF NamedProcessesKept
<1>4. rows'[s].url = None
  <2>1. rows'[s] = SetServiceRuntime(rows[s], "stopped", FALSE)
    BY <1>0, <1>1 DEF Runtime
  <2>2. CASE Live(rows[s])
    BY <1>0, <2>1, <2>2, SetServiceRuntimeUrl
  <2>3. CASE ~Live(rows[s])
    BY <2>1, <2>3 DEF SetServiceRuntime, UrlInv
  <2> QED BY <2>2, <2>3
<1> QED BY <1>0, <1>1, <1>2, <1>3, <1>4, UrlFrame

\* The other operations of the store keep or clear the address of a row.
LEMMA StoreKeepsUrl ==
    ASSUME NEW row \in Row, NEW input, NEW m
    PROVE  /\ KeepsUrl(UpdateService(row, input), row)
           /\ KeepsUrl(DeleteService(row), row)
           /\ KeepsUrl(CreateService(input), row)
           /\ KeepsUrl(SetServiceMapping(row, m), row)
<1>1. KeepsUrl(UpdateService(row, input), row)
  BY DEF UpdateService, KeepsUrl, Row
<1>2. KeepsUrl(DeleteService(row), row)
  BY DEF DeleteService, UnbornRow, KeepsUrl
<1>3. KeepsUrl(CreateService(input), row)
  BY DEF CreateService, UnbornRow, KeepsUrl
<1>4. KeepsUrl(SetServiceMapping(row, m), row)
  BY DEF SetServiceMapping, KeepsUrl, Row
<1> QED BY <1>1, <1>2, <1>3, <1>4

\* The handlers, the mapping goroutine, the keep-alive goroutines and boot write
\* rows without touching the map.
LEMMA QuietStepUrls ==
    ASSUME IInv, UrlInv,
           \/ GatewayStep
           \/ HandlerStep
           \/ \E t \in Threads : StartFails(t)
           \/ \E s \in Services : (BeginRequest(s) /\ ~HandleStop(s)) \/ RestoreNext(s)
           \/ \E p \in Pids, m \in Mappings : NatmapEvent(p, m)
           \/ \E c \in callbacks : HandleMapping(c)
           \/ \E l \in loops : LoopStep(l)
           \/ FirewallReload /\ UNCHANGED apiVars
           \/ RestoreSnapshot
    PROVE  UrlInv'
<1>0. /\ TypeOK /\ rows \in [Services -> Row] /\ proc \in [Pids -> Process]
      /\ processes \in [Services -> Pids \cup {None}]
      /\ th["api"].pc # "idle" => th["api"].svc \in Services
  BY DEF IInv, TypeOK, EngineTypeOK, CallLocals, LocalsOK, Threads
<1>a. \A s, status, enabled : CallerWrite(s, status, enabled) => UrlsKept
  <2> SUFFICES ASSUME NEW s, NEW status, NEW enabled, CallerWrite(s, status, enabled)
               PROVE  UrlsKept
    OBVIOUS
  <2> QED BY <1>0, RuntimeUrl, SameRowsUrl DEF CallerWrite
<1>b. \A s, status, enabled : rows' = Runtime(s, status, enabled) => UrlsKept
  BY <1>0, RuntimeUrl
<1>c. ASSUME NEW s \in Services, NEW row, rows' = [rows EXCEPT ![s] = row],
             KeepsUrl(row, rows[s])
      PROVE  UrlsKept
  BY <1>0, <1>c, RowWriteUrls
<1>1. CASE GatewayStep
  <2>0. up' = up
    BY <1>1 DEF GatewayStep, apiVars
  <2>1. CASE GatewayRecord
    <3> DEFINE P == processes[th["api"].svc]
               rec == [proc[P] EXCEPT !.gw = ApplyState, !.gen = @ + 1]
    <3>1. UNCHANGED <<rows, processes>>
      BY <2>1 DEF GatewayRecord
    <3>2. CASE proc' = proc
      BY <1>0, <2>0, <3>1, <3>2, SameRowsUrl, UrlQuiet
    <3>3. CASE proc' # proc
      <4>1. P # None /\ proc' = [proc EXCEPT ![P] = rec]
        BY <2>1, <3>3 DEF GatewayRecord
      <4>2. P \in Pids
        BY <1>0, <2>1, <4>1 DEF GatewayRecord, At
      <4>3. rec.state = proc[P].state
        BY <1>0, <4>2 DEF Process
      <4> HIDE DEF P, rec
      <4>4. \A q \in Pids : proc'[q].state = proc[q].state
        BY <1>0, <4>1, <4>2, <4>3
      <4>5. NamedProcessesKept
        BY <1>0, <4>4 DEF NamedProcessesKept, Row
      <4> QED BY <1>0, <2>0, <3>1, <4>5, SameRowsUrl, UrlFrame
    <3> QED BY <3>2, <3>3
  <2>2. CASE GatewayReady \/ GatewayFails
    <3>1. UrlsKept
      BY <1>a, <2>2 DEF GatewayReady, GatewayFails
    <3> QED BY <1>0, <2>0, <2>2, <3>1, UrlQuiet DEF GatewayReady, GatewayFails
  <2>3. CASE \/ StopRemovesGateway \/ GatewayAdd \/ GatewayInsertRule
             \/ GatewayUndo \/ RemovePreviousGateway
    <3>1. UNCHANGED <<rows, processes, proc>>
      BY <2>3 DEF StopRemovesGateway, GatewayAdd, GatewayInsertRule,
         GatewayUndo, RemovePreviousGateway
    <3> QED BY <1>0, <2>0, <3>1, SameRowsUrl, UrlQuiet
  <2> QED BY <1>1, <2>1, <2>2, <2>3 DEF GatewayStep
<1>2. CASE HandlerStep
  <2> DEFINE S == th["api"].svc
  <2>1. UNCHANGED <<processes, proc, up>>
    BY <1>2 DEF HandlerStep, UpdateWrite, DeleteWrite, SyncLock, SyncCall,
       SyncWrite, SyncErrorWrite, CleanupLock, CleanupCall, SaveMapping, apiVars
  <2>2. CASE SyncLock \/ SyncCall \/ CleanupLock \/ CleanupCall
    <3>1. rows' = rows
      BY <2>2 DEF SyncLock, SyncCall, CleanupLock, CleanupCall
    <3> QED BY <1>0, <2>1, <3>1, SameRowsUrl, UrlQuiet
  <2>3. CASE SyncWrite \/ SyncErrorWrite
    <3>1. UrlsKept
      BY <1>a, <1>b, <2>3, SameRowsUrl DEF SyncWrite, SyncErrorWrite
    <3> QED BY <1>0, <2>1, <3>1, UrlQuiet
  <2>4. CASE UpdateWrite \/ DeleteWrite \/ SaveMapping
    <3>1. S \in Services /\ rows[S] \in Row
      BY <1>0, <2>4 DEF UpdateWrite, DeleteWrite, SaveMapping, At
    <3>2. \/ rows' = rows
          \/ rows' = [rows EXCEPT ![S] = UpdateService(rows[S], th["api"].copy)]
          \/ rows' = [rows EXCEPT ![S] = DeleteService(rows[S])]
          \/ rows' = [rows EXCEPT ![S] = SetServiceMapping(rows[S], th["api"].mapping)]
      BY <2>4 DEF UpdateWrite, DeleteWrite, SaveMapping
    <3>3. UrlsKept
      BY <1>c, <3>1, <3>2, StoreKeepsUrl, SameRowsUrl
    <3> QED BY <1>0, <2>1, <3>3, UrlQuiet
  <2> QED BY <1>2, <2>2, <2>3, <2>4 DEF HandlerStep
<1>3. ASSUME NEW t \in Threads, StartFails(t)
      PROVE  UrlInv'
  <2>1. UrlsKept
    BY <1>a, <1>b, <1>3 DEF StartFails
  <2> QED BY <1>0, <1>3, <2>1, UrlQuiet DEF StartFails, apiVars
<1>4. ASSUME NEW s \in Services, NEW input, HandleCreate(s, input)
      PROVE  UrlInv'
  <2>1. rows' = [rows EXCEPT ![s] = CreateService(input)] /\ rows[s] \in Row
    BY <1>0, <1>4 DEF HandleCreate
  <2>2. UrlsKept
    BY <1>c, <2>1, StoreKeepsUrl
  <2> QED BY <1>0, <1>4, <2>2, UrlQuiet DEF HandleCreate, apiVars
<1>5. ASSUME NEW s \in Services,
             \/ \E input \in Inputs : HandleUpdate(s, input)
             \/ HandleDelete(s) \/ HandleStart(s) \/ HandleSync(s)
             \/ HandleCleanup(s) \/ RestoreNext(s)
      PROVE  UrlInv'
  <2>1. UNCHANGED <<rows, processes, proc, up>>
    BY <1>5 DEF HandleUpdate, HandleDelete, HandleStart, HandleSync,
       HandleCleanup, RestoreNext, apiVars
  <2> QED BY <1>0, <2>1, SameRowsUrl, UrlQuiet
<1>6. ASSUME NEW l \in loops, LoopStep(l)
      PROVE  UrlInv'
  <2>1. UNCHANGED <<processes, proc, up>>
    BY <1>6 DEF LoopStep, LoopEnds, LoopTicks, RenewNATPMP, ReassertPrunes,
       ReassertInserts, LoopFails, apiVars
  <2>2. rows' = rows \/ rows' = Runtime(l.gw.svc, "gateway_error", TRUE)
    BY <1>6 DEF LoopStep, LoopEnds, LoopTicks, RenewNATPMP, ReassertPrunes,
       ReassertInserts, LoopFails
  <2>3. UrlsKept
    BY <1>b, <2>2, SameRowsUrl
  <2> QED BY <1>0, <2>1, <2>3, UrlQuiet
<1>7. CASE \E p \in Pids, m \in Mappings : NatmapEvent(p, m)
  <2>1. UNCHANGED <<rows, processes, proc, up>>
    BY <1>7 DEF NatmapEvent, engineVars
  <2> QED BY <1>0, <2>1, SameRowsUrl, UrlQuiet
<1>8. CASE \/ \E c \in callbacks : HandleMapping(c)
           \/ FirewallReload /\ UNCHANGED apiVars
  <2>1. UNCHANGED <<rows, processes, proc, up>>
    BY <1>8 DEF HandleMapping, FirewallReload, apiVars
  <2> QED BY <1>0, <2>1, SameRowsUrl, UrlQuiet
<1>9. CASE RestoreSnapshot
  <2>1. UNCHANGED <<rows, processes, proc, up>>
    BY <1>9 DEF RestoreSnapshot, engineVars
  <2> QED BY <1>0, <2>1, SameRowsUrl, UrlQuiet
<1> QED
  BY <1>1, <1>2, <1>3, <1>4, <1>5, <1>6, <1>7, <1>8, <1>9 DEF BeginRequest

\* At shutdown the addresses stay on purpose; after a restart every process they
\* name is one of an earlier run.
LEMMA EndUrls ==
    ASSUME IInv, UrlInv, Shutdown \/ Restart
    PROVE  UrlInv'
<1>0. /\ rows \in [Services -> Row] /\ rows' = rows
      /\ \A s \in Services : rows[s].url # None => rows[s].url \in Pids
  BY DEF IInv, TypeOK, EngineTypeOK, Row, Shutdown, StopAll, Restart
<1>1. CASE Shutdown
  BY <1>0, <1>1 DEF Shutdown, StopAll, UrlInv, UrlIsOfRegisteredProcess
<1>2. CASE Restart
  <2>1. \A p \in Pids : proc[p].state # "unused" => proc'[p].state = "lost"
    BY <1>2 DEF Restart, Unused
  <2> QED BY <1>0, <2>1 DEF UrlInv, UrlIsOfRegisteredProcess
<1> QED BY <1>1, <1>2

\* The address a service shows is that of the process registered for it, or of a
\* child of an earlier run of the program: no order of stops, exits, restarts
\* and late output leaves the address of a dead quick tunnel on a service.
THEOREM UrlsOfRegisteredProcesses == Spec => []UrlIsOfRegisteredProcess
<1>1. Init => UrlInv
  BY DEF Init, EngineInit, UrlInv, UrlIsOfRegisteredProcess, UnbornRow
<1>2. IInv /\ UrlInv /\ [Next]_vars => UrlInv'
  <2> SUFFICES ASSUME IInv, UrlInv, [Next]_vars
               PROVE  UrlInv'
    OBVIOUS
  <2>1. CASE Next
    BY <2>1, StartStepUrls, ProcessStepUrls, StopUrls, QuietStepUrls, EndUrls
       DEF Next, BeginRequest
  <2>2. CASE UNCHANGED vars
    <3>1. UNCHANGED <<rows, processes, proc, up>>
      BY <2>2 DEF vars, engineVars, apiVars
    <3> QED BY <3>1, SameRowsUrl, UrlQuiet DEF IInv
  <2> QED BY <2>1, <2>2
<1>3. UrlInv => UrlIsOfRegisteredProcess
  BY DEF UrlInv
<1> QED BY <1>1, <1>2, <1>3, Invariance, PTL DEF Spec

-------------------------------------------------------------------------------
(* Stops, where no mapping has to be kept alive. *)

\* Gateway modes whose entries stay without being renewed or put back.
Unattended == {"none", "upnp"}

\* No goroutine keeps a mapping alive, and no row, copy or call asks for one.
NoLoops ==
    /\ loops = {}
    /\ \A s \in Services : rows[s].gw \in Unattended /\ snap[s].gw \in Unattended
    /\ \A t \in Threads : th[t].copy.gw \in Unattended

\* The operations of the store write the gateway mode of the row or the input.
LEMMA StoreKeepsMode ==
    ASSUME NEW row \in Row, row.gw \in Unattended,
           NEW input, input.gw \in Unattended, NEW m, NEW status, NEW enabled
    PROVE  /\ UpdateService(row, input).gw \in Unattended
           /\ DeleteService(row).gw \in Unattended
           /\ CreateService(input).gw \in Unattended
           /\ Config(input).gw \in Unattended
           /\ SetServiceMapping(row, m).gw \in Unattended
           /\ SetServiceRuntimeURL(row, m).gw \in Unattended
           /\ SetServiceRuntime(row, status, enabled).gw \in Unattended
           /\ UnbornRow.gw \in Unattended
           /\ Idle.copy.gw \in Unattended
<1> USE DEF Unattended
<1>1. UpdateService(row, input).gw \in Unattended
  BY DEF UpdateService, Row
<1>2. DeleteService(row).gw \in Unattended /\ CreateService(input).gw \in Unattended
  BY DEF DeleteService, CreateService, UnbornRow
<1>3. Config(input).gw \in Unattended /\ UnbornRow.gw \in Unattended
  BY DEF Config, UnbornRow
<1>4. /\ SetServiceMapping(row, m).gw \in Unattended
      /\ SetServiceRuntimeURL(row, m).gw \in Unattended
      /\ SetServiceRuntime(row, status, enabled).gw \in Unattended
  BY DEF SetServiceMapping, SetServiceRuntimeURL, SetServiceRuntime, Row
<1>5. Idle.copy.gw \in Unattended
  BY <1>3 DEF Idle
<1> QED BY <1>1, <1>2, <1>3, <1>4, <1>5

\* A row is switched on only by a call in progress for its service, or for a
\* process that is registered, or by a goroutine that keeps a mapping alive.
LEMMA SwitchedOn ==
    ASSUME IInv, Next, loops = {}, NEW s \in Services,
           ~rows[s].enabled, ~Running(s), rows'[s].enabled
    PROVE  \E t \in Threads : th[t].svc = s
<1>0. /\ rows \in [Services -> Row] /\ "api" \in Threads
  BY DEF IInv, TypeOK, EngineTypeOK, Threads
<1>1. rows'[s] # rows[s]
  OBVIOUS
<1>2. ASSUME NEW x, NEW status, NEW enabled, rows' = Runtime(x, status, enabled)
      PROVE  x = s
  BY <1>0, <1>1, <1>2 DEF Runtime
<1>3. ASSUME NEW x, NEW status, NEW enabled, CallerWrite(x, status, enabled)
      PROVE  x = s
  BY <1>1, <1>2, <1>3 DEF CallerWrite
<1>4. ASSUME NEW x, NEW row, rows' = [rows EXCEPT ![x] = row]
      PROVE  x = s
  BY <1>0, <1>1, <1>4
<1>5. ASSUME NEW t \in Threads, StartStep(t) \/ StartFails(t)
      PROVE  th[t].svc = s
  BY <1>1, <1>2, <1>3, <1>5
     DEF StartStep, StartFails, ValidateTarget, AlreadyRunning, SpawnFails,
         StartNatmap, StartNatmapWrite, StartQuickTunnel, StartTunnelLock,
         TunnelTokenCall, TunnelTokenFails, StartTunnel
<1>6. CASE GatewayStep
  <2>1. th["api"].svc = s
    BY <1>1, <1>3, <1>6
       DEF GatewayStep, StopRemovesGateway, GatewayAdd, GatewayInsertRule,
           GatewayRecord, GatewayUndo, RemovePreviousGateway, GatewayReady,
           GatewayFails
  <2> QED BY <1>0, <2>1
<1>7. CASE HandlerStep
  <2>1. th["api"].svc = s
    BY <1>1, <1>2, <1>3, <1>4, <1>7
       DEF HandlerStep, UpdateWrite, DeleteWrite, SyncLock, SyncCall, SyncWrite,
           SyncErrorWrite, CleanupLock, CleanupCall, SaveMapping
  <2> QED BY <1>0, <2>1
<1>8. ASSUME NEW x \in Services, BeginRequest(x) \/ RestoreNext(x)
      PROVE  FALSE
  <2>1. CASE \E input \in Inputs : HandleCreate(x, input)
    <3>1. PICK input \in Inputs : HandleCreate(x, input)
      BY <2>1
    <3>2. rows' = [rows EXCEPT ![x] = CreateService(input)] /\ x = s
      BY <1>4, <3>1 DEF HandleCreate
    <3>3. ~CreateService(input).enabled
      BY DEF CreateService, UnbornRow
    <3> QED BY <1>0, <3>2, <3>3
  <2>2. CASE HandleStop(x)
    <3>1. rows' = Runtime(x, "stopped", FALSE) /\ x = s
      BY <1>2, <2>2 DEF HandleStop, Stop
    <3>2. rows'[s] = SetServiceRuntime(rows[s], "stopped", FALSE)
      BY <1>0, <3>1 DEF Runtime
    <3>3. ~SetServiceRuntime(rows[s], "stopped", FALSE).enabled
      BY <1>0 DEF SetServiceRuntime, Row
    <3> QED BY <3>2, <3>3
  <2>3. CASE \/ \E input \in Inputs : HandleUpdate(x, input)
             \/ HandleDelete(x) \/ HandleStart(x) \/ HandleSync(x)
             \/ HandleCleanup(x) \/ RestoreNext(x)
    BY <1>1, <2>3 DEF HandleUpdate, HandleDelete, HandleStart, HandleSync,
       HandleCleanup, RestoreNext
  <2> QED BY <1>8, <2>1, <2>2, <2>3 DEF BeginRequest
<1>9. ASSUME NEW p \in Pids, ProcessStep(p)
      PROVE  FALSE
  <2>1. \/ rows' = rows
        \/ /\ processes[proc[p].svc] = p
           /\ \/ rows' = Runtime(proc[p].svc, "error", TRUE)
              \/ \E row : rows' = [rows EXCEPT ![proc[p].svc] = row]
    BY <1>9 DEF ProcessStep, ProcessExits, QuickTunnelURL, WaitReturns,
       WaitRemovesGateway, StopAllCancels
  <2>2. processes[s] = p
    BY <1>1, <1>2, <1>4, <2>1
  <2> QED BY <2>2, NoneAssumption DEF Running
<1>10. ASSUME NEW p \in Pids, NEW m \in Mappings, NatmapEvent(p, m)
       PROVE  FALSE
  BY <1>1, <1>10 DEF NatmapEvent, engineVars
<1>11. CASE \/ \E c \in callbacks : HandleMapping(c)
            \/ FirewallReload \/ Shutdown \/ Restart
  BY <1>1, <1>11 DEF HandleMapping, FirewallReload, Shutdown, StopAll, Restart
<1>12. CASE RestoreSnapshot
  BY <1>1, <1>12 DEF RestoreSnapshot, engineVars
<1> QED
  BY <1>5, <1>6, <1>7, <1>8, <1>9, <1>10, <1>11, <1>12 DEF Next

\* Every step leaves rows that ask for no mapping that has to be kept alive.
LEMMA RowsUnattended ==
    ASSUME IInv, NoLoops, GatewayModes \subseteq Unattended, Next
    PROVE  \A s \in Services : rows'[s].gw \in Unattended
<1> SUFFICES ASSUME NEW s \in Services, rows' # rows
             PROVE  rows'[s].gw \in Unattended
  BY DEF NoLoops
<1>0. /\ rows \in [Services -> Row] /\ rows[s] \in Row
      /\ rows[s].gw \in Unattended /\ "api" \in Threads
      /\ th["api"].copy.gw \in Unattended
  BY DEF IInv, TypeOK, EngineTypeOK, NoLoops, Threads
<1>1. ASSUME NEW x, NEW row, rows' = [rows EXCEPT ![x] = row],
             x = s => row.gw \in Unattended
      PROVE  rows'[s].gw \in Unattended
  BY <1>0, <1>1
<1>2. ASSUME NEW x, NEW status, NEW enabled, rows' = Runtime(x, status, enabled)
      PROVE  rows'[s].gw \in Unattended
  <2>1. rows'[s] \in {rows[s], SetServiceRuntime(rows[s], status, enabled)}
    BY <1>0, <1>2 DEF Runtime
  <2> QED BY <1>0, <2>1, StoreKeepsMode
<1>3. ASSUME NEW x, NEW status, NEW enabled, CallerWrite(x, status, enabled)
      PROVE  rows'[s].gw \in Unattended
  BY <1>2, <1>3 DEF CallerWrite
<1>4. ASSUME NEW t \in Threads, StartStep(t) \/ StartFails(t)
      PROVE  rows'[s].gw \in Unattended
  BY <1>2, <1>3, <1>4
     DEF StartStep, StartFails, ValidateTarget, AlreadyRunning, SpawnFails,
         StartNatmap, StartNatmapWrite, StartQuickTunnel, StartTunnelLock,
         TunnelTokenCall, TunnelTokenFails, StartTunnel
<1>5. CASE GatewayStep
  BY <1>3, <1>5
     DEF GatewayStep, StopRemovesGateway, GatewayAdd, GatewayInsertRule,
         GatewayRecord, GatewayUndo, RemovePreviousGateway, GatewayReady,
         GatewayFails
<1>6. CASE HandlerStep
  <2> DEFINE S == th["api"].svc
             copy == th["api"].copy
             m == th["api"].mapping
  <2>1. CASE SyncLock \/ SyncCall \/ SyncWrite \/ SyncErrorWrite
             \/ CleanupLock \/ CleanupCall
    BY <1>2, <1>3, <2>1 DEF SyncLock, SyncCall, SyncWrite, SyncErrorWrite,
       CleanupLock, CleanupCall
  <2>2. CASE UpdateWrite \/ DeleteWrite \/ SaveMapping
    <3>1. \/ rows' = [rows EXCEPT ![S] = UpdateService(rows[S], copy)]
          \/ rows' = [rows EXCEPT ![S] = DeleteService(rows[S])]
          \/ rows' = [rows EXCEPT ![S] = SetServiceMapping(rows[S], m)]
      BY <2>2 DEF UpdateWrite, DeleteWrite, SaveMapping
    <3>2. S = s => /\ UpdateService(rows[S], copy).gw \in Unattended
                   /\ DeleteService(rows[S]).gw \in Unattended
                   /\ SetServiceMapping(rows[S], m).gw \in Unattended
      BY <1>0, StoreKeepsMode
    <3> QED BY <1>1, <3>1, <3>2
  <2> QED BY <1>6, <2>1, <2>2 DEF HandlerStep
<1>7. ASSUME NEW x \in Services, BeginRequest(x) \/ RestoreNext(x)
      PROVE  rows'[s].gw \in Unattended
  <2>1. CASE \E input \in Inputs : HandleCreate(x, input)
    <3>1. PICK input \in Inputs : HandleCreate(x, input)
      BY <2>1
    <3>2. input.gw \in Unattended
      BY DEF Inputs, ServiceFromRequest, Unattended
    <3>3. CreateService(input).gw \in Unattended
      BY <1>0, <3>2, StoreKeepsMode
    <3> QED BY <1>1, <3>1, <3>3 DEF HandleCreate
  <2>2. CASE HandleStop(x)
    BY <1>2, <2>2 DEF HandleStop, Stop
  <2>3. CASE \/ \E input \in Inputs : HandleUpdate(x, input)
             \/ HandleDelete(x) \/ HandleStart(x) \/ HandleSync(x)
             \/ HandleCleanup(x) \/ RestoreNext(x)
    BY <2>3 DEF HandleUpdate, HandleDelete, HandleStart, HandleSync,
       HandleCleanup, RestoreNext
  <2> QED BY <1>7, <2>1, <2>2, <2>3 DEF BeginRequest
<1>8. ASSUME NEW p \in Pids, ProcessStep(p)
      PROVE  rows'[s].gw \in Unattended
  <2>1. CASE QuickTunnelURL(p)
    <3> DEFINE S == proc[p].svc
               announced == SetServiceRuntimeURL(rows[S], p)
    <3>1. rows' = [rows EXCEPT
             ![S] = SetServiceRuntime(announced, "tunnel_running", TRUE)]
      BY <2>1 DEF QuickTunnelURL
    <3>2. S = s => announced \in Row /\ announced.gw \in Unattended
      BY <1>0, SetServiceRuntimeURLType, StoreKeepsMode
    <3> HIDE DEF announced
    <3>3. S = s => SetServiceRuntime(announced, "tunnel_running", TRUE).gw
                     \in Unattended
      BY <1>0, <3>2, StoreKeepsMode
    <3> QED BY <1>1, <3>1, <3>3
  <2>2. CASE ~QuickTunnelURL(p)
    BY <1>2, <1>8, <2>2 DEF ProcessStep, ProcessExits, WaitReturns,
       WaitRemovesGateway, StopAllCancels
  <2> QED BY <2>1, <2>2
<1>9. ASSUME NEW p \in Pids, NEW m \in Mappings, NatmapEvent(p, m)
      PROVE  FALSE
  BY <1>9 DEF NatmapEvent, engineVars
<1>10. CASE \/ \E c \in callbacks : HandleMapping(c)
            \/ FirewallReload \/ Shutdown \/ Restart
  BY <1>10 DEF HandleMapping, FirewallReload, Shutdown, StopAll, Restart
<1>11. CASE RestoreSnapshot
  BY <1>11 DEF RestoreSnapshot, engineVars
<1>12. ~\E l \in loops : LoopStep(l)
  BY DEF NoLoops
<1> QED
  BY <1>4, <1>5, <1>6, <1>7, <1>8, <1>9, <1>10, <1>11, <1>12 DEF Next

\* So does every copy of a row in the hands of a caller.
LEMMA CopiesUnattended ==
    ASSUME IInv, NoLoops, GatewayModes \subseteq Unattended, Next
    PROVE  \A t \in Threads : th'[t].copy.gw \in Unattended
<1> SUFFICES ASSUME NEW u \in Threads, th' # th
             PROVE  th'[u].copy.gw \in Unattended
  BY DEF NoLoops
<1>0. /\ th \in [Threads -> Thread] /\ th[u] \in Thread /\ "api" \in Threads
      /\ \A t \in Threads : th[t] \in Thread
      /\ th[u].copy.gw \in Unattended /\ rows \in [Services -> Row]
      /\ \A s \in Services : rows[s].gw \in Unattended
  BY DEF IInv, TypeOK, EngineTypeOK, NoLoops, Threads
<1>1. UnbornRow.gw \in Unattended /\ Idle.copy.gw \in Unattended
  BY DEF UnbornRow, Idle, Unattended
<1>2. ASSUME NEW t, NEW x, th' = [th EXCEPT ![t] = x],
             t = u => x.copy.gw \in Unattended
      PROVE  th'[u].copy.gw \in Unattended
  BY <1>0, <1>2
<1>3. ASSUME NEW t, NEW pc, Goto(t, pc)
      PROVE  th'[u].copy.gw \in Unattended
  BY <1>0, <1>3 DEF Goto, Thread
<1>4. ASSUME NEW t, Return(t)
      PROVE  th'[u].copy.gw \in Unattended
  BY <1>0, <1>1, <1>4 DEF Return
<1>5. ASSUME NEW s, NEW pc, NEW copy, BeginHandler(s, pc, copy),
             copy.gw \in Unattended
      PROVE  th'[u].copy.gw \in Unattended
  <2>1. [Idle EXCEPT !.pc = pc, !.svc = s, !.copy = copy].copy = copy
    BY DEF Idle
  <2> QED BY <1>2, <1>5, <2>1 DEF BeginHandler
<1>6. ASSUME NEW t \in Threads, StartStep(t) \/ StartFails(t)
      PROVE  th'[u].copy.gw \in Unattended
  <2>1. ASSUME NEW p \in Pids, StartNatmap(t, p)
        PROVE  th'[u].copy.gw \in Unattended
    <3>1. th' = [th EXCEPT ![t] = [th[t] EXCEPT !.pc = "discovering", !.pid = p]]
      BY <2>1 DEF StartNatmap
    <3>2. [th[t] EXCEPT !.pc = "discovering", !.pid = p].copy = th[t].copy
      BY <1>0 DEF Thread
    <3> QED BY <1>0, <1>2, <3>1, <3>2
  <2> QED
    BY <1>3, <1>4, <1>6, <2>1
       DEF StartStep, StartFails, ValidateTarget, AlreadyRunning, SpawnFails,
           StartNatmapWrite, StartQuickTunnel, StartTunnelLock,
           TunnelTokenCall, TunnelTokenFails, StartTunnel
<1>7. CASE GatewayStep
  <2>1. CASE GatewayRecord
    <3> DEFINE P == processes[th["api"].svc]
               next == IF proc[P].gw = None THEN "gwready" ELSE "gwprev"
               call == [th["api"] EXCEPT !.pid = P, !.gw = proc[P].gw, !.pc = next]
    <3>1. Goto("api", "gwundo") \/ th' = [th EXCEPT !["api"] = call]
      BY <2>1 DEF GatewayRecord
    <3>2. call.copy = th["api"].copy
      BY <1>0 DEF Thread
    <3> HIDE DEF call
    <3> QED BY <1>0, <1>2, <1>3, <3>1, <3>2
  <2>2. CASE GatewayReady
    <3> DEFINE call == [th["api"] EXCEPT !.pc = "sync", !.pid = None, !.gw = None]
    <3>1. Return("api") \/ th' = [th EXCEPT !["api"] = call]
      BY <2>2 DEF GatewayReady
    <3>2. call.copy = th["api"].copy
      BY <1>0 DEF Thread
    <3> HIDE DEF call
    <3> QED BY <1>0, <1>2, <1>4, <3>1, <3>2
  <2>3. CASE \/ StopRemovesGateway \/ GatewayAdd \/ GatewayInsertRule
             \/ GatewayUndo \/ RemovePreviousGateway \/ GatewayFails
    BY <1>3, <1>4, <2>3 DEF StopRemovesGateway, GatewayAdd, GatewayInsertRule,
       GatewayUndo, RemovePreviousGateway, GatewayFails
  <2> QED BY <1>7, <2>1, <2>2, <2>3 DEF GatewayStep
<1>8. CASE HandlerStep
  <2>1. CASE SaveMapping
    <3> DEFINE S == th["api"].svc
               saved == SetServiceMapping(rows[S], th["api"].mapping)
               next == IF saved.gw = "none" THEN "sync" ELSE "gwadd"
               call == [th["api"] EXCEPT !.copy = saved, !.pc = next]
    <3>1. Return("api") \/ th' = [th EXCEPT !["api"] = call]
      BY <2>1 DEF SaveMapping
    <3>2. S \in Services
      BY <1>0, <2>1 DEF SaveMapping, At, IInv, CallLocals, LocalsOK
    <3>3. saved.gw \in Unattended
      BY <1>0, <3>2, StoreKeepsMode
    <3> HIDE DEF saved
    <3>4. call.copy = saved
      BY <1>0 DEF Thread
    <3> HIDE DEF call
    <3> QED BY <1>2, <1>4, <3>1, <3>3, <3>4
  <2>2. CASE \/ UpdateWrite \/ DeleteWrite \/ SyncLock \/ SyncCall \/ SyncWrite
             \/ SyncErrorWrite \/ CleanupLock \/ CleanupCall
    BY <1>3, <1>4, <2>2 DEF UpdateWrite, DeleteWrite, SyncLock, SyncCall,
       SyncWrite, SyncErrorWrite, CleanupLock, CleanupCall, SyncError
  <2> QED BY <1>8, <2>1, <2>2 DEF HandlerStep
<1>9. ASSUME NEW s \in Services, BeginRequest(s) \/ RestoreNext(s)
      PROVE  th'[u].copy.gw \in Unattended
  <2>0. rows[s] \in Row /\ rows[s].gw \in Unattended
    BY <1>0
  <2>1. CASE \E input \in Inputs : HandleCreate(s, input)
    BY <2>1 DEF HandleCreate
  <2>2. CASE \E input \in Inputs : HandleUpdate(s, input)
    <3>1. PICK input \in Inputs : HandleUpdate(s, input)
      BY <2>2
    <3>2. input.gw \in Unattended
      BY DEF Inputs, ServiceFromRequest, Unattended
    <3>3. Config(input).gw \in Unattended
      BY <2>0, <3>2, StoreKeepsMode
    <3> QED BY <1>5, <3>1, <3>3 DEF HandleUpdate
  <2>3. CASE HandleDelete(s) \/ HandleCleanup(s)
    BY <1>1, <1>5, <2>3 DEF HandleDelete, HandleCleanup
  <2>4. CASE HandleStart(s)
    <3>1. Config(rows[s]).gw \in Unattended
      BY <2>0, StoreKeepsMode
    <3> QED BY <1>5, <2>4, <3>1 DEF HandleStart
  <2>5. CASE HandleStop(s)
    <3> DEFINE call == [Idle EXCEPT !.pc = "stopgw", !.svc = s, !.pid = processes[s]]
    <3>1. th' = [th EXCEPT !["api"] = call]
      BY <2>5 DEF HandleStop, Stop
    <3>2. call.copy = Idle.copy
      BY DEF Idle
    <3> HIDE DEF call
    <3> QED BY <1>1, <1>2, <3>1, <3>2
  <2>6. CASE HandleSync(s)
    BY <1>5, <2>0, <2>6 DEF HandleSync
  <2>7. CASE RestoreNext(s)
    <3> DEFINE call == [Idle EXCEPT !.pc = "validate", !.svc = s, !.copy = snap[s]]
    <3>1. th' = [th EXCEPT !["restore"] = call]
      BY <2>7 DEF RestoreNext
    <3>2. call.copy = snap[s]
      BY DEF Idle
    <3> HIDE DEF call
    <3> QED BY <1>2, <3>1, <3>2 DEF NoLoops
  <2> QED
    BY <1>9, <2>1, <2>2, <2>3, <2>4, <2>5, <2>6, <2>7 DEF BeginRequest
<1>10. ASSUME NEW c \in callbacks, HandleMapping(c)
       PROVE  th'[u].copy.gw \in Unattended
  <2> DEFINE call == [Idle EXCEPT !.pc = "mapping", !.svc = c.svc,
                                  !.mapping = c.mapping]
  <2>1. th' = [th EXCEPT !["api"] = call]
    BY <1>10 DEF HandleMapping
  <2>2. call.copy = Idle.copy
    BY DEF Idle
  <2> HIDE DEF call
  <2> QED BY <1>1, <1>2, <2>1, <2>2
<1>11. CASE Restart
  BY <1>1, <1>11 DEF Restart
<1>12. ASSUME NEW p \in Pids, ProcessStep(p)
       PROVE  FALSE
  BY <1>12 DEF ProcessStep, ProcessExits, QuickTunnelURL, WaitReturns,
     WaitRemovesGateway, StopAllCancels
<1>13. ASSUME NEW p \in Pids, NEW m \in Mappings, NatmapEvent(p, m)
       PROVE  FALSE
  BY <1>13 DEF NatmapEvent, engineVars
<1>14. CASE FirewallReload \/ Shutdown
  BY <1>14 DEF FirewallReload, Shutdown, StopAll
<1>15. CASE RestoreSnapshot
  BY <1>15 DEF RestoreSnapshot, engineVars
<1>16. ~\E l \in loops : LoopStep(l)
  BY DEF NoLoops
<1> QED
  BY <1>6, <1>7, <1>8, <1>9, <1>10, <1>11, <1>12, <1>13, <1>14, <1>15, <1>16
     DEF Next

\* Boot copies rows, and a mapping that lasts starts no goroutine.
LEMMA NoLoopsStep ==
    ASSUME IInv, NoLoops, GatewayModes \subseteq Unattended, [Next]_vars
    PROVE  NoLoops'
<1>1. CASE Next
  <2>1. \A s \in Services : snap'[s].gw \in Unattended
    <3>0. /\ rows \in [Services -> Row] /\ snap \in [Services -> Row]
          /\ \A s \in Services : rows[s].gw \in Unattended
          /\ UnbornRow.gw \in Unattended
      BY DEF IInv, TypeOK, EngineTypeOK, NoLoops, UnbornRow, Unattended
    <3>1. CASE snap' = snap
      BY <3>1 DEF NoLoops
    <3>2. CASE RestoreSnapshot
      <4>1. \A s \in Services : Config(rows[s]).gw \in Unattended
        BY <3>0, StoreKeepsMode
      <4> QED BY <3>0, <3>2, <4>1 DEF RestoreSnapshot
    <3>3. CASE \E s \in Services : RestoreNext(s)
      BY <3>0, <3>3 DEF RestoreNext, NoLoops
    <3>4. CASE Restart
      BY <3>0, <3>4 DEF Restart
    <3>5. CASE \/ \E t \in Threads : StartStep(t) \/ StartFails(t)
               \/ GatewayStep \/ HandlerStep
               \/ \E p \in Pids : ProcessStep(p)
               \/ \E l \in loops : LoopStep(l)
               \/ FirewallReload /\ UNCHANGED apiVars
      <4>1. snap' = snap
        BY <3>5 DEF StartStep, StartFails, GatewayStep, HandlerStep, UpdateWrite,
           DeleteWrite, SyncLock, SyncCall, SyncWrite, SyncErrorWrite,
           CleanupLock, CleanupCall, SaveMapping, ProcessStep, LoopStep, apiVars
      <4> QED BY <3>1, <4>1
    <3>6. CASE \E s \in Services : BeginRequest(s)
      <4>1. snap' = snap
        BY <3>6 DEF BeginRequest, HandleCreate, HandleUpdate, HandleDelete,
           HandleStart, HandleStop, HandleSync, HandleCleanup, apiVars
      <4> QED BY <3>1, <4>1
    <3>7. CASE \E p \in Pids, m \in Mappings : NatmapEvent(p, m)
      BY <3>1, <3>7 DEF NatmapEvent
    <3>8. CASE \/ \E c \in callbacks : HandleMapping(c)
               \/ Shutdown
      BY <3>1, <3>8 DEF HandleMapping, Shutdown
    <3> QED
      BY <1>1, <3>2, <3>3, <3>4, <3>5, <3>6, <3>7, <3>8 DEF Next
  <2>2. loops' = {}
    <3>0. loops = {} /\ th["api"].copy.gw \in Unattended
      BY DEF NoLoops, Threads
    <3>1. CASE loops' = loops
      BY <3>0, <3>1
    <3>2. CASE GatewayReady
      <4>1. ApplyState.mode \notin {"natpmp", "fw4"}
        BY <3>0 DEF ApplyState, gatewayMappingState, Unattended
      <4> QED BY <3>0, <3>2, <4>1 DEF GatewayReady
    <3>3. CASE Restart
      BY <3>3 DEF Restart
    <3>4. CASE \E t \in Threads : StartStep(t) \/ StartFails(t)
      BY <3>1, <3>4
         DEF StartStep, StartFails, ValidateTarget, AlreadyRunning, SpawnFails,
             StartNatmap, StartNatmapWrite, StartQuickTunnel, StartTunnelLock,
             TunnelTokenCall, TunnelTokenFails, StartTunnel
    <3>5. CASE GatewayStep /\ ~GatewayReady
      BY <3>1, <3>5 DEF GatewayStep, StopRemovesGateway, GatewayAdd,
         GatewayInsertRule, GatewayRecord, GatewayUndo, RemovePreviousGateway,
         GatewayFails
    <3>6. CASE HandlerStep
      BY <3>1, <3>6 DEF HandlerStep, UpdateWrite, DeleteWrite, SyncLock,
         SyncCall, SyncWrite, SyncErrorWrite, CleanupLock, CleanupCall,
         SaveMapping
    <3>7. CASE \E s \in Services : BeginRequest(s) \/ RestoreNext(s)
      BY <3>1, <3>7 DEF BeginRequest, HandleCreate, HandleUpdate, HandleDelete,
         HandleStart, HandleStop, Stop, HandleSync, HandleCleanup, RestoreNext
    <3>8. CASE \E p \in Pids : ProcessStep(p)
      BY <3>1, <3>8 DEF ProcessStep, ProcessExits, QuickTunnelURL, WaitReturns,
         WaitRemovesGateway, StopAllCancels
    <3>9. CASE \E p \in Pids, m \in Mappings : NatmapEvent(p, m)
      BY <3>1, <3>9 DEF NatmapEvent, engineVars
    <3>10. CASE \/ \E c \in callbacks : HandleMapping(c)
                \/ FirewallReload \/ Shutdown
      BY <3>1, <3>10 DEF HandleMapping, FirewallReload, Shutdown, StopAll
    <3>11. CASE RestoreSnapshot
      BY <3>1, <3>11 DEF RestoreSnapshot, engineVars
    <3>12. ~\E l \in loops : LoopStep(l)
      BY <3>0
    <3> QED
      BY <1>1, <3>2, <3>3, <3>4, <3>5, <3>6, <3>7, <3>8, <3>9, <3>10, <3>11,
         <3>12 DEF Next
  <2> QED BY <1>1, <2>1, <2>2, RowsUnattended, CopiesUnattended DEF NoLoops
<1>2. CASE UNCHANGED vars
  BY <1>2 DEF vars, engineVars, apiVars, NoLoops
<1> QED BY <1>1, <1>2

\* Where no mapping has to be kept alive, a stop lasts: a service that is off and
\* has no process is switched on only by a start.  (A renewal or a reassertion
\* that fails late is what the hypothesis excludes: it writes enabled without
\* another look at the map.)
THEOREM StopsLast ==
    ASSUME GatewayModes \subseteq Unattended
    PROVE  Spec => StoppedStaysOff
<1> DEFINE StaysOff ==
             \A s \in Services : ~rows[s].enabled /\ ~Running(s) /\ rows'[s].enabled
                                   => \E t \in Threads : th[t].svc = s
<1>1. Init => NoLoops
  BY DEF Init, EngineInit, NoLoops, UnbornRow, Idle, Unattended
<1>2. IInv /\ NoLoops /\ [Next]_vars => NoLoops'
  BY NoLoopsStep
<1>3. IInv /\ NoLoops /\ [Next]_vars => [StaysOff]_vars
  <2> SUFFICES ASSUME IInv, NoLoops, Next
               PROVE  StaysOff
    OBVIOUS
  <2> QED BY SwitchedOn DEF NoLoops
<1> QED BY <1>1, <1>2, <1>3, Invariance, PTL DEF Spec, StoppedStaysOff

-------------------------------------------------------------------------------
(* Goroutines that keep a recorded mapping alive. *)

\* A goroutine belongs to an announcement recorded on its process ...
LoopsOfPast == \A l \in loops : l.gen <= proc[l.pid].gen

\* ... and an announcement has one goroutine at most.
OneLoopEach ==
    \A l, m \in loops : l.pid = m.pid /\ l.gen = m.gen => l = m

\* ApplyGatewayMapping has recorded the mapping and has yet to return.
Recorded(x) == x.pc \in {"gwprev", "gwready"}

\* What it recorded is still there, and has no goroutine yet.
JustRecorded ==
    Recorded(th["api"]) =>
        /\ proc[th["api"].pid].gw = ApplyState
        /\ \A l \in loops :
             l.pid = th["api"].pid => l.gen < proc[l.pid].gen

Keeps(l, p) == l.pid = p /\ l.gw = proc[p].gw /\ l.gen = proc[p].gen

\* A record is of the service its process runs for; a lease or rule recorded on a
\* registered process has its goroutine, or gets it when the call in progress
\* returns.
RecordKept(s, p) ==
    /\ proc[p].gw.svc = s
    /\ proc[p].gw.mode \in {"natpmp", "fw4"}
         => \/ Recorded(th["api"]) /\ th["api"].pid = p
            \/ \E l \in loops : Keeps(l, p)

RecordsKept ==
    \A s \in Services :
        Running(s) /\ proc[processes[s]].gw # None => RecordKept(s, processes[s])

Renewal == LoopsOfPast /\ OneLoopEach /\ JustRecorded /\ RecordsKept

\* The api thread's part in it does not change.
SameApply ==
    \/ th'["api"] = th["api"]
    \/ ~Recorded(th["api"]) /\ ~Recorded(th'["api"])

\* The records, and the announcements they count, do not change.
SameRecords ==
    \A p \in Pids : proc'[p].gw = proc[p].gw /\ proc'[p].gen = proc[p].gen

\* No entry of the map is new.
NoneRegistered == \A s \in Services : processes'[s] \in {processes[s], None}

\* Keeping mappings alive concerns records, goroutines and registered processes.
LEMMA RenewalFrame ==
    ASSUME TypeOK, CallLocals, Renewal, SameApply, SameRecords, NoneRegistered,
           loops' = loops
    PROVE  Renewal'
<1> USE DEF Renewal
<1>0. /\ loops \subseteq Loop /\ \A l \in loops : l.pid \in Pids
      /\ processes \in [Services -> Pids \cup {None}]
  BY DEF TypeOK, EngineTypeOK, Loop
<1>1. LoopsOfPast'
  BY <1>0 DEF LoopsOfPast, SameRecords
<1>2. OneLoopEach'
  BY DEF OneLoopEach
<1>3. JustRecorded'
  <2> SUFFICES ASSUME Recorded(th'["api"])
               PROVE  JustRecorded'
    BY DEF JustRecorded
  <2>1. th'["api"] = th["api"] /\ Recorded(th["api"])
    BY DEF SameApply
  <2>2. th["api"].pid \in Pids
    BY <2>1 DEF CallLocals, LocalsOK, Threads, Recorded
  <2> QED
    BY <1>0, <2>1, <2>2 DEF JustRecorded, SameRecords, ApplyState
<1>4. RecordsKept'
  <2> SUFFICES ASSUME NEW s \in Services, processes'[s] # None,
                      proc'[processes'[s]].gw # None
               PROVE  RecordKept(s, processes[s])' /\ processes'[s] = processes[s]
    BY DEF RecordsKept, Running
  <2> DEFINE p == processes[s]
  <2>1. processes'[s] = processes[s] /\ p \in Pids
    BY <1>0 DEF NoneRegistered
  <2>2. proc'[p].gw = proc[p].gw /\ proc'[p].gen = proc[p].gen
    BY <2>1 DEF SameRecords
  <2>3. RecordKept(s, p)
    BY <2>1, <2>2 DEF RecordsKept, Running
  <2> HIDE DEF p
  <2>4. Recorded(th["api"]) => th'["api"] = th["api"]
    BY DEF SameApply
  <2>5. p = processes'[s]
    BY <2>1 DEF p
  <2>6. RecordKept(s, p)'
    BY <2>1, <2>2, <2>3, <2>4, <2>5 DEF RecordKept, Keeps, p
  <2> QED BY <2>1, <2>6 DEF p
<1> QED BY <1>1, <1>2, <1>3, <1>4

\* A thread that moves on outside of ApplyGatewayMapping's last steps.
LEMMA ApplyElsewhere ==
    ASSUME th \in [Threads -> Thread], NEW t \in Threads, ~Recorded(th[t]), NEW x,
           th' = [th EXCEPT ![t] = x], ~Recorded(x)
    PROVE  SameApply
BY DEF SameApply, Threads

\* The same for a step that moves the program counter only.
LEMMA ApplyGoes ==
    ASSUME th \in [Threads -> Thread], NEW t \in Threads, ~Recorded(th[t]), NEW pc,
           Goto(t, pc), pc \notin {"gwprev", "gwready"}
    PROVE  SameApply
<1>1. th[t] \in Thread
  OBVIOUS
<1>2. [th[t] EXCEPT !.pc = pc].pc = pc
  BY <1>1 DEF Thread
<1> DEFINE x == [th[t] EXCEPT !.pc = pc]
<1>3. th' = [th EXCEPT ![t] = x] /\ ~Recorded(x)
  BY <1>2 DEF Goto, Recorded
<1> HIDE DEF x
<1> QED BY <1>3, ApplyElsewhere

\* The same for a call that ends.
LEMMA ApplyReturns ==
    ASSUME th \in [Threads -> Thread], NEW t \in Threads, ~Recorded(th[t]),
           Return(t)
    PROVE  SameApply
BY ApplyElsewhere DEF Return, Idle, Recorded

\* A free process is used for a new connector: no goroutine and no call knows it.
LEMMA RenewalSpawn ==
    ASSUME TypeOK, CallLocals, Renewal, SameApply, NEW p \in Pids, Free(p),
           NEW x, x.gw = None, proc' = [proc EXCEPT ![p] = x], loops' = loops,
           \A s \in Services : processes'[s] \in {processes[s], p}
    PROVE  Renewal'
<1> USE DEF Renewal
<1>0. /\ loops \subseteq Loop /\ \A l \in loops : l.pid \in Pids \ {p}
      /\ processes \in [Services -> Pids \cup {None}]
      /\ proc'[p].gw = None /\ \A q \in Pids \ {p} : proc'[q] = proc[q]
      /\ th["api"].pid # p
  BY DEF TypeOK, EngineTypeOK, Loop, Free, Threads
<1>1. LoopsOfPast'
  BY <1>0 DEF LoopsOfPast
<1>2. OneLoopEach'
  BY DEF OneLoopEach
<1>3. JustRecorded'
  <2> SUFFICES ASSUME Recorded(th'["api"])
               PROVE  JustRecorded'
    BY DEF JustRecorded
  <2>1. th'["api"] = th["api"] /\ Recorded(th["api"])
    BY DEF SameApply
  <2>2. th["api"].pid \in Pids \ {p}
    BY <1>0, <2>1 DEF CallLocals, LocalsOK, Threads, Recorded
  <2> QED
    BY <1>0, <2>1, <2>2 DEF JustRecorded, ApplyState
<1>4. RecordsKept'
  <2> SUFFICES ASSUME NEW s \in Services, processes'[s] # None,
                      proc'[processes'[s]].gw # None
               PROVE  RecordKept(s, processes[s])' /\ processes'[s] = processes[s]
    BY DEF RecordsKept, Running
  <2> DEFINE q == processes[s]
  <2>1. processes'[s] = processes[s] /\ q \in Pids \ {p}
    BY <1>0
  <2>2. proc'[q] = proc[q]
    BY <1>0, <2>1
  <2>3. RecordKept(s, q)
    BY <2>1, <2>2 DEF RecordsKept, Running
  <2> HIDE DEF q
  <2>4. Recorded(th["api"]) => th'["api"] = th["api"]
    BY DEF SameApply
  <2>5. q = processes'[s]
    BY <2>1 DEF q
  <2>6. RecordKept(s, q)'
    BY <2>1, <2>2, <2>3, <2>4, <2>5 DEF RecordKept, Keeps, q
  <2> QED BY <2>1, <2>6 DEF q
<1> QED BY <1>1, <1>2, <1>3, <1>4

\* A step of Manager.Start keeps mappings alive.
LEMMA StartStepRenewal ==
    ASSUME IInv, Renewal, NEW t \in Threads, StartStep(t)
    PROVE  Renewal'
<1>0. /\ TypeOK /\ CallLocals /\ th \in [Threads -> Thread] /\ th[t] \in Thread
      /\ proc \in [Pids -> Process]
  BY DEF IInv, TypeOK, EngineTypeOK
<1>1. loops' = loops /\ ~Recorded(th[t])
  BY DEF StartStep, ValidateTarget, AlreadyRunning, SpawnFails, StartNatmap,
     StartNatmapWrite, StartQuickTunnel, StartTunnelLock, TunnelTokenCall,
     TunnelTokenFails, StartTunnel, At, Recorded
<1>2. CASE \/ ValidateTarget(t) \/ AlreadyRunning(t) \/ SpawnFails(t)
           \/ StartTunnelLock(t) \/ TunnelTokenCall(t) \/ TunnelTokenFails(t)
  <2>1. SameRecords /\ NoneRegistered
    BY <1>2 DEF ValidateTarget, AlreadyRunning, SpawnFails, StartTunnelLock,
       TunnelTokenCall, TunnelTokenFails, SameRecords, NoneRegistered
  <2>2. SameApply
    BY <1>0, <1>1, <1>2, ApplyGoes, ApplyReturns
       DEF ValidateTarget, AlreadyRunning, SpawnFails, StartTunnelLock,
           TunnelTokenCall, TunnelTokenFails
  <2> QED BY <1>0, <1>1, <2>1, <2>2, RenewalFrame
<1>3. ASSUME NEW p \in Pids, StartNatmap(t, p)
      PROVE  Renewal'
  <2> DEFINE x == [th[t] EXCEPT !.pc = "discovering", !.pid = p]
  <2>1. th' = [th EXCEPT ![t] = x]
    BY <1>3, <1>0 DEF StartNatmap
  <2>2. ~Recorded(x)
    BY <1>0 DEF Recorded, Thread
  <2> HIDE DEF x
  <2>3. SameApply
    BY <1>0, <1>1, <2>1, <2>2, ApplyElsewhere
  <2>4. Spawned(th[t].svc, "natmap", "unspawned").gw = None
    BY DEF Spawned, Unused
  <2>5. \A s \in Services : processes'[s] \in {processes[s], p}
    BY <1>0, <1>3 DEF StartNatmap, TypeOK, EngineTypeOK
  <2> QED BY <1>0, <1>1, <1>3, <2>3, <2>4, <2>5, RenewalSpawn DEF StartNatmap
<1>4. CASE StartNatmapWrite(t)
  <2>1. SameRecords /\ NoneRegistered
    BY <1>0, <1>4 DEF StartNatmapWrite, SameRecords, NoneRegistered, Process
  <2> QED
    BY <1>0, <1>1, <1>4, <2>1, ApplyReturns, RenewalFrame DEF StartNatmapWrite
<1>5. ASSUME NEW p \in Pids, StartQuickTunnel(t, p)
      PROVE  Renewal'
  <2>1. SameApply
    BY <1>0, <1>1, <1>5, ApplyGoes, ApplyReturns DEF StartQuickTunnel
  <2>2. \E x : x.gw = None /\ proc' = [proc EXCEPT ![p] = x]
    BY <1>5 DEF StartQuickTunnel, Spawned, Unused
  <2>3. \A s \in Services : processes'[s] \in {processes[s], p}
    BY <1>0, <1>5 DEF StartQuickTunnel, TypeOK, EngineTypeOK
  <2>4. Free(p)
    BY <1>5 DEF StartQuickTunnel
  <2> QED BY <1>0, <1>1, <2>1, <2>2, <2>3, <2>4, RenewalSpawn
<1>6. ASSUME NEW p \in Pids, StartTunnel(t, p)
      PROVE  Renewal'
  <2>1. SameApply
    BY <1>0, <1>1, <1>6, ApplyGoes, ApplyReturns DEF StartTunnel
  <2>2. CASE UNCHANGED <<processes, proc>>
    <3>1. SameRecords /\ NoneRegistered
      BY <2>2 DEF SameRecords, NoneRegistered
    <3> QED BY <1>0, <1>1, <2>1, <3>1, RenewalFrame
  <2>3. CASE Live(rows[th[t].svc])
    <3>1. \E x : x.gw = None /\ proc' = [proc EXCEPT ![p] = x]
      BY <1>6, <2>3 DEF StartTunnel, Spawned, Unused
    <3>2. \A s \in Services : processes'[s] \in {processes[s], p}
      BY <1>0, <1>6, <2>3 DEF StartTunnel, TypeOK, EngineTypeOK
    <3>3. Free(p)
      BY <1>6 DEF StartTunnel
    <3> QED BY <1>0, <1>1, <2>1, <3>1, <3>2, <3>3, RenewalSpawn
  <2> QED BY <1>6, <2>2, <2>3 DEF StartTunnel
<1> QED BY <1>2, <1>3, <1>4, <1>5, <1>6 DEF StartStep

\* The life of a child process leaves its record alone.
LEMMA ProcessStepRenewal ==
    ASSUME IInv, Renewal, NEW p \in Pids, ProcessStep(p)
    PROVE  Renewal'
<1>0. /\ TypeOK /\ CallLocals /\ proc \in [Pids -> Process]
      /\ processes \in [Services -> Pids \cup {None}]
  BY DEF IInv, TypeOK, EngineTypeOK
<1>1. loops' = loops /\ th' = th
  BY DEF ProcessStep, ProcessExits, QuickTunnelURL, WaitReturns,
     WaitRemovesGateway, StopAllCancels
<1>2. SameRecords
  <2>1. \/ proc' = [proc EXCEPT ![p].wait = "cleanup"]
        \/ proc' = [proc EXCEPT ![p].wait = "done"]
        \/ proc' = [proc EXCEPT ![p].cancelled = TRUE]
        \/ proc' = [proc EXCEPT ![p].found = TRUE]
        \/ proc' = [proc EXCEPT ![p].state = "exited"]
    BY DEF ProcessStep, ProcessExits, QuickTunnelURL, WaitReturns,
       WaitRemovesGateway, StopAllCancels
  <2> QED BY <1>0, <2>1 DEF SameRecords, Process
<1>3. NoneRegistered
  BY <1>0 DEF NoneRegistered, ProcessStep, ProcessExits, QuickTunnelURL,
     WaitReturns, WaitRemovesGateway, StopAllCancels
<1> QED BY <1>0, <1>1, <1>2, <1>3, RenewalFrame DEF SameApply

\* A goroutine that keeps a mapping alive moves, and stays the one it is.
LEMMA LoopMoves ==
    ASSUME TypeOK, Renewal, NEW l \in loops, NEW pc,
           loops' = (loops \ {l}) \cup {[l EXCEPT !.pc = pc]},
           UNCHANGED <<th, proc, processes>>
    PROVE  Renewal'
<1> USE DEF Renewal
<1> DEFINE n == [l EXCEPT !.pc = pc]
<1>0. /\ loops \subseteq Loop /\ l \in Loop
  BY DEF TypeOK, EngineTypeOK
<1>1. n.pid = l.pid /\ n.gw = l.gw /\ n.gen = l.gen
  BY <1>0 DEF Loop
<1>2. loops' = (loops \ {l}) \cup {n}
  OBVIOUS
<1> HIDE DEF n
<1>3. LoopsOfPast' /\ OneLoopEach'
  BY <1>1, <1>2 DEF LoopsOfPast, OneLoopEach
<1>4. JustRecorded'
  BY <1>1, <1>2 DEF JustRecorded, ApplyState
<1>5. RecordsKept'
  <2>1. \A s \in Services : RecordKept(s, processes[s])
          => RecordKept(s, processes[s])'
    BY <1>1, <1>2 DEF RecordKept, Keeps
  <2> QED BY <2>1 DEF RecordsKept, Running
<1> QED BY <1>3, <1>4, <1>5

\* A goroutine ends that keeps no record of a registered process alive.
LEMMA LoopGone ==
    ASSUME TypeOK, Renewal, NEW l \in loops, loops' = loops \ {l},
           UNCHANGED <<th, proc, processes>>,
           \A s \in Services : Running(s) /\ Keeps(l, processes[s])
                                 /\ proc[processes[s]].gw # None
                                 /\ proc[processes[s]].gw.svc = s => FALSE
    PROVE  Renewal'
<1> USE DEF Renewal
<1>1. LoopsOfPast' /\ OneLoopEach'
  BY DEF LoopsOfPast, OneLoopEach
<1>2. JustRecorded'
  BY DEF JustRecorded, ApplyState
<1>3. RecordsKept'
  <2> SUFFICES ASSUME NEW s \in Services, Running(s),
                      proc[processes[s]].gw # None
               PROVE  RecordKept(s, processes[s])'
    BY DEF RecordsKept, Running
  <2>1. RecordKept(s, processes[s])
    BY DEF RecordsKept
  <2>2. ~Keeps(l, processes[s])
    BY <2>1 DEF RecordKept
  <2> QED BY <2>1, <2>2 DEF RecordKept, Keeps
<1> QED BY <1>1, <1>2, <1>3

\* The goroutines end only when their process is cancelled, or when their
\* announcement no longer counts.
LEMMA LoopStepRenewal ==
    ASSUME IInv, Renewal, NEW l \in loops, LoopStep(l)
    PROVE  Renewal'
<1>0. TypeOK /\ UNCHANGED <<th, proc, processes>>
  BY DEF IInv, LoopStep, LoopEnds, LoopTicks, RenewNATPMP, ReassertPrunes,
     ReassertInserts, LoopFails
<1>1. CASE LoopEnds(l)
  <2>1. \A s \in Services : Running(s) => ~proc[processes[s]].cancelled
    BY DEF IInv, Supervised, EveryEntryWatched
  <2>2. \A s \in Services : Keeps(l, processes[s]) => ~Running(s)
    BY <1>1, <2>1 DEF LoopEnds, Keeps
  <2> QED BY <1>0, <1>1, <2>2, LoopGone DEF LoopEnds
<1>2. CASE LoopTicks(l)
  <2> DEFINE p == processes[l.gw.svc]
             current == /\ p # None
                        /\ proc[p].gen = l.gen
                        /\ proc[p].gw # None
                        /\ sameGatewayMapping(proc[p].gw, l.gw)
  <2>1. CASE current
    BY <1>0, <1>2, <2>1, LoopMoves DEF LoopTicks
  <2>2. CASE ~current
    <3>1. loops' = loops \ {l}
      BY <1>2, <2>2 DEF LoopTicks
    <3>2. ASSUME NEW s \in Services, Running(s), Keeps(l, processes[s]),
                 proc[processes[s]].gw # None, proc[processes[s]].gw.svc = s
          PROVE  FALSE
      BY <2>2, <3>2 DEF Keeps, Running, sameGatewayMapping
    <3> QED BY <1>0, <3>1, <3>2, LoopGone
  <2> QED BY <2>1, <2>2
<1>3. CASE RenewNATPMP(l) \/ ReassertPrunes(l) \/ ReassertInserts(l) \/ LoopFails(l)
  BY <1>0, <1>3, LoopMoves
     DEF RenewNATPMP, ReassertPrunes, ReassertInserts, LoopFails, LoopGoto
<1> QED BY <1>1, <1>2, <1>3 DEF LoopStep

\* The mapping is recorded under the lock on the registered process: an
\* announcement nobody keeps alive yet.
LEMMA RecordRenewal ==
    ASSUME IInv, Renewal, GatewayRecord
    PROVE  Renewal'
<1> USE DEF Renewal
<1> DEFINE s0 == th["api"].svc
           p0 == processes[s0]
<1>0. /\ TypeOK /\ CallLocals /\ th \in [Threads -> Thread] /\ "api" \in Threads
      /\ th["api"] \in Thread /\ proc \in [Pids -> Process]
      /\ loops \subseteq Loop /\ \A l \in loops : l.pid \in Pids /\ l.gen \in Nat
      /\ processes \in [Services -> Pids \cup {None}]
      /\ loops' = loops /\ processes' = processes
  BY DEF IInv, TypeOK, EngineTypeOK, Threads, Loop, GatewayRecord
<1>1. CASE p0 = None
  <2>1. SameRecords /\ NoneRegistered
    BY <1>0, <1>1, NoneAssumption DEF GatewayRecord, SameRecords, NoneRegistered
  <2>2. Goto("api", "gwundo") /\ ~Recorded(th["api"])
    BY <1>1 DEF GatewayRecord, At, Recorded
  <2>3. SameApply
    BY <1>0, <2>2, ApplyGoes
  <2> QED BY <1>0, <2>1, <2>3, RenewalFrame
<1>2. CASE p0 # None
  <2>1. s0 \in Services /\ p0 \in Pids /\ Running(s0)
    BY <1>0, <1>2 DEF GatewayRecord, At, CallLocals, LocalsOK, Running
  <2> DEFINE rec == [proc[p0] EXCEPT !.gw = ApplyState, !.gen = @ + 1]
  <2>2. rec.gw = ApplyState /\ rec.gen = proc[p0].gen + 1 /\ proc[p0].gen \in Nat
    BY <1>0, <2>1 DEF Process
  <2>3. proc' = [proc EXCEPT ![p0] = rec]
    BY <1>2 DEF GatewayRecord
  <2> HIDE DEF rec
  <2>4. /\ proc'[p0].gw = ApplyState /\ proc'[p0].gen = proc[p0].gen + 1
        /\ \A q \in Pids \ {p0} : proc'[q] = proc[q]
    BY <1>0, <2>1, <2>2, <2>3
  <2>5. /\ th'["api"].pid = p0 /\ Recorded(th'["api"])
        /\ th'["api"].svc = s0 /\ th'["api"].copy = th["api"].copy
        /\ th'["api"].mapping = th["api"].mapping
    BY <1>0, <1>2 DEF GatewayRecord, Thread, Recorded
  <2>6. ApplyState' = ApplyState
    BY <2>5 DEF ApplyState
  <2>7. ApplyState.svc = s0
    BY DEF ApplyState, gatewayMappingState
  <2>8. ~Recorded(th["api"])
    BY DEF GatewayRecord, At, Recorded
  <2> HIDE DEF p0, s0
  <2>9. LoopsOfPast'
    BY <1>0, <2>1, <2>2, <2>4 DEF LoopsOfPast
  <2>10. OneLoopEach'
    BY <1>0 DEF OneLoopEach
  <2>11. JustRecorded'
    <3>1. \A l \in loops : l.pid = p0 => l.gen < proc'[p0].gen
      BY <1>0, <2>1, <2>2, <2>4 DEF LoopsOfPast
    <3> QED BY <1>0, <2>4, <2>5, <2>6, <3>1 DEF JustRecorded
  <2>12. RecordsKept'
    <3> SUFFICES ASSUME NEW s \in Services, processes[s] # None,
                        proc'[processes[s]].gw # None
                 PROVE  RecordKept(s, processes[s])'
      BY <1>0 DEF RecordsKept, Running
    <3>1. processes[s] \in Pids /\ proc[processes[s]].svc = s
      BY <1>0 DEF IInv, Supervised, EveryEntryWatched, Running
    <3>2. CASE processes[s] = p0
      <4>1. proc[p0].svc = s0
        BY <1>0, <2>1 DEF IInv, Supervised, EveryEntryWatched, Running, p0
      <4>2. s = s0
        BY <3>1, <3>2, <4>1
      <4> QED BY <1>0, <2>4, <2>5, <2>7, <3>2, <4>2 DEF RecordKept
    <3>3. CASE processes[s] # p0
      <4>1. proc'[processes[s]] = proc[processes[s]]
        BY <2>4, <3>1, <3>3
      <4>2. RecordKept(s, processes[s])
        BY <4>1 DEF RecordsKept, Running
      <4> QED BY <1>0, <2>8, <4>1, <4>2 DEF RecordKept, Keeps
    <3> QED BY <3>2, <3>3
  <2> QED BY <2>9, <2>10, <2>11, <2>12
<1> QED BY <1>1, <1>2

\* The handler returns from ApplyGatewayMapping: the goroutine that keeps the
\* mapping alive has been spawned.
LEMMA ReadyRenewal ==
    ASSUME IInv, Renewal, GatewayReady
    PROVE  Renewal'
<1> USE DEF Renewal
<1> DEFINE p0 == th["api"].pid
           n == [pid |-> p0, gw |-> ApplyState, gen |-> proc[p0].gen, pc |-> "sleep"]
<1>0. /\ TypeOK /\ CallLocals /\ th \in [Threads -> Thread] /\ "api" \in Threads
      /\ th["api"] \in Thread /\ proc \in [Pids -> Process]
      /\ \A l \in loops : l.gen \in Nat
      /\ proc' = proc /\ processes' = processes
  BY DEF IInv, TypeOK, EngineTypeOK, Threads, Loop, GatewayReady
<1>1. /\ Recorded(th["api"]) /\ p0 \in Pids /\ proc[p0].gen \in Nat
      /\ proc[p0].gw = ApplyState
      /\ \A l \in loops : l.pid = p0 => l.gen < proc[p0].gen
  <2>1. Recorded(th["api"]) /\ p0 \in Pids
    BY <1>0 DEF GatewayReady, At, Recorded, CallLocals, LocalsOK
  <2> QED BY <1>0, <2>1 DEF JustRecorded, Process
<1>2. ~Recorded(th'["api"])
  <2>1. [th["api"] EXCEPT !.pc = "sync", !.pid = None, !.gw = None].pc = "sync"
    BY <1>0 DEF Thread
  <2>2. \/ th'["api"] = Idle
        \/ th'["api"] = [th["api"] EXCEPT !.pc = "sync", !.pid = None, !.gw = None]
    BY <1>0 DEF GatewayReady, Return
  <2>3. Idle.pc = "idle"
    BY DEF Idle
  <2>4. th'["api"].pc \in {"idle", "sync"}
    BY <2>1, <2>2, <2>3, Zenon
  <2> QED BY <2>4 DEF Recorded
<1>3. loops' = IF ApplyState.mode \in {"natpmp", "fw4"} THEN loops \cup {n}
               ELSE loops
  BY DEF GatewayReady
<1>4. n.pid = p0 /\ n.gen = proc[p0].gen /\ n.gw = proc[p0].gw
  BY <1>1
<1> HIDE DEF n, p0
<1>5. LoopsOfPast'
  BY <1>0, <1>1, <1>3, <1>4 DEF LoopsOfPast
<1>6. OneLoopEach'
  <2>1. \A l \in loops : l.pid = n.pid => l.gen # n.gen
    BY <1>0, <1>1, <1>4
  <2> QED BY <1>3, <2>1 DEF OneLoopEach
<1>7. JustRecorded'
  BY <1>2 DEF JustRecorded
<1>8. RecordsKept'
  <2> SUFFICES ASSUME NEW s \in Services, Running(s),
                      proc[processes[s]].gw # None
               PROVE  RecordKept(s, processes[s])'
    BY <1>0 DEF RecordsKept, Running
  <2>1. RecordKept(s, processes[s])
    BY DEF RecordsKept
  <2>2. CASE processes[s] = p0
    BY <1>0, <1>1, <1>3, <1>4, <2>1, <2>2 DEF RecordKept, Keeps
  <2>3. CASE processes[s] # p0
    <3>1. ~(Recorded(th["api"]) /\ th["api"].pid = processes[s])
      BY <2>3 DEF p0
    <3>2. loops \subseteq loops'
      BY <1>3
    <3> QED BY <1>0, <2>1, <3>1, <3>2 DEF RecordKept, Keeps
  <2> QED BY <2>2, <2>3
<1> QED BY <1>5, <1>6, <1>7, <1>8

\* The previous entry is removed from the gateway: the record stays as it is.
LEMMA PreviousRenewal ==
    ASSUME IInv, Renewal, RemovePreviousGateway
    PROVE  Renewal'
<1> USE DEF Renewal
<1>0. /\ th \in [Threads -> Thread] /\ "api" \in Threads /\ th["api"] \in Thread
      /\ UNCHANGED <<proc, processes, loops>>
      /\ th["api"].pc = "gwprev" /\ Goto("api", "gwready")
  BY DEF IInv, TypeOK, EngineTypeOK, Threads, RemovePreviousGateway, At
<1>1. /\ Recorded(th["api"]) /\ Recorded(th'["api"])
      /\ th'["api"].pid = th["api"].pid /\ th'["api"].svc = th["api"].svc
      /\ th'["api"].copy = th["api"].copy
      /\ th'["api"].mapping = th["api"].mapping
  BY <1>0 DEF Goto, Thread, Recorded
<1>2. LoopsOfPast' /\ OneLoopEach'
  BY <1>0 DEF LoopsOfPast, OneLoopEach
<1>3. JustRecorded'
  BY <1>0, <1>1 DEF JustRecorded, ApplyState
<1>4. RecordsKept'
  BY <1>0, <1>1 DEF RecordsKept, RecordKept, Running, Keeps
<1> QED BY <1>2, <1>3, <1>4

\* The handlers, the other steps of ApplyGatewayMapping and boot touch neither
\* records nor goroutines.
LEMMA QuietStepRenewal ==
    ASSUME IInv, Renewal,
           \/ GatewayStep /\ ~GatewayRecord /\ ~GatewayReady /\ ~RemovePreviousGateway
           \/ HandlerStep
           \/ \E t \in Threads : StartFails(t)
           \/ \E s \in Services : BeginRequest(s) \/ RestoreNext(s)
           \/ \E p \in Pids, m \in Mappings : NatmapEvent(p, m)
           \/ \E c \in callbacks : HandleMapping(c)
           \/ FirewallReload
           \/ RestoreSnapshot
           \/ Shutdown
    PROVE  Renewal'
<1>0. /\ TypeOK /\ CallLocals /\ th \in [Threads -> Thread]
      /\ "api" \in Threads /\ "restore" \in Threads
      /\ processes \in [Services -> Pids \cup {None}]
      /\ proc \in [Pids -> Process] /\ th["api"] \in Thread
  BY DEF IInv, TypeOK, EngineTypeOK, Threads
<1>1. th' = th => SameApply
  BY DEF SameApply
<1>2. proc' = proc => SameRecords
  BY DEF SameRecords
<1>3. processes' = processes => NoneRegistered
  BY DEF NoneRegistered
<1>4. ASSUME NEW pc, pc \notin {"gwprev", "gwready"}, ~Recorded(th["api"]),
             Goto("api", pc)
      PROVE  SameApply
  BY <1>0, <1>4, ApplyGoes
<1>5. CASE GatewayStep /\ ~GatewayRecord /\ ~GatewayReady /\ ~RemovePreviousGateway
  <2>1. UNCHANGED <<proc, processes, loops>>
    BY <1>5 DEF GatewayStep, StopRemovesGateway, GatewayAdd, GatewayInsertRule,
       GatewayUndo, GatewayFails
  <2>2. ~Recorded(th["api"])
    BY <1>5 DEF GatewayStep, StopRemovesGateway, GatewayAdd, GatewayInsertRule,
       GatewayUndo, GatewayFails, At, Recorded
  <2>3. SameApply
    BY <1>0, <1>4, <1>5, <2>2, ApplyReturns
       DEF GatewayStep, StopRemovesGateway, GatewayAdd, GatewayInsertRule,
           GatewayUndo, GatewayFails
  <2> QED BY <1>0, <1>2, <1>3, <2>1, <2>3, RenewalFrame
<1>6. CASE HandlerStep
  <2>1. UNCHANGED <<proc, processes, loops>>
    BY <1>6 DEF HandlerStep, UpdateWrite, DeleteWrite, SyncLock, SyncCall,
       SyncWrite, SyncErrorWrite, CleanupLock, CleanupCall, SaveMapping
  <2>2. ~Recorded(th["api"])
    BY <1>6 DEF HandlerStep, UpdateWrite, DeleteWrite, SyncLock, SyncCall,
       SyncWrite, SyncErrorWrite, CleanupLock, CleanupCall, SaveMapping, At,
       Recorded
  <2>3. CASE SaveMapping
    <3> DEFINE row == SetServiceMapping(rows[th["api"].svc], th["api"].mapping)
               next == IF row.gw = "none" THEN "sync" ELSE "gwadd"
               rec == [th["api"] EXCEPT !.copy = row, !.pc = next]
    <3>1. CASE Return("api")
      BY <1>0, <2>1, <2>2, <3>1, <1>2, <1>3, ApplyReturns, RenewalFrame
    <3>2. CASE th' = [th EXCEPT !["api"].copy = row, !["api"].pc = next]
      <4>1. th' = [th EXCEPT !["api"] = rec]
        BY <1>0, <3>2
      <4>2. ~Recorded(rec)
        BY <1>0 DEF Thread, Recorded
      <4> HIDE DEF rec
      <4>3. SameApply
        BY <1>0, <2>2, <4>1, <4>2, ApplyElsewhere
      <4> QED BY <1>0, <1>2, <1>3, <2>1, <4>3, RenewalFrame
    <3> QED BY <2>3, <3>1, <3>2 DEF SaveMapping
  <2>4. CASE ~SaveMapping
    <3>1. SameApply
      BY <1>0, <1>4, <1>6, <2>2, <2>4, ApplyReturns
         DEF HandlerStep, UpdateWrite, DeleteWrite, SyncLock, SyncCall,
             SyncWrite, SyncErrorWrite, SyncError, CleanupLock, CleanupCall
    <3> QED BY <1>0, <1>2, <1>3, <2>1, <3>1, RenewalFrame
  <2> QED BY <2>3, <2>4
<1>7. ASSUME NEW t \in Threads, StartFails(t)
      PROVE  Renewal'
  <2>1. UNCHANGED <<proc, processes, loops>> /\ ~Recorded(th[t]) /\ Return(t)
    BY <1>7 DEF StartFails, At, Recorded
  <2> QED BY <1>0, <1>2, <1>3, <2>1, ApplyReturns, RenewalFrame
<1>8. ASSUME NEW pc \in {"update", "delete", "validate", "sync", "cleanup"}, NEW s,
             NEW copy, At("api", "idle"), BeginHandler(s, pc, copy)
      PROVE  SameApply
  BY <1>0, <1>8, ApplyElsewhere DEF BeginHandler, Recorded, Idle, At
<1>9. ASSUME NEW s \in Services, BeginRequest(s)
      PROVE  Renewal'
  <2>1. CASE HandleStop(s)
    <3>1. loops' = loops /\ ~Recorded(th["api"])
      BY <2>1 DEF HandleStop, Stop, At, Recorded
    <3>2. SameRecords /\ NoneRegistered
      BY <1>0, <2>1 DEF HandleStop, Stop, SameRecords, NoneRegistered, Process
    <3>3. SameApply
      BY <1>0, <2>1, <3>1, <1>1, ApplyElsewhere
         DEF HandleStop, Stop, Idle, Recorded
    <3> QED BY <1>0, <3>1, <3>2, <3>3, RenewalFrame
  <2>2. CASE ~HandleStop(s)
    <3>1. UNCHANGED <<proc, processes, loops>>
      BY <1>9, <2>2 DEF BeginRequest, HandleCreate, HandleUpdate, HandleDelete,
         HandleStart, HandleSync, HandleCleanup
    <3>2. SameApply
      BY <1>1, <1>8, <1>9, <2>2 DEF BeginRequest, HandleCreate, HandleUpdate,
         HandleDelete, HandleStart, HandleSync, HandleCleanup
    <3> QED BY <1>0, <1>2, <1>3, <3>1, <3>2, RenewalFrame
  <2> QED BY <2>1, <2>2
<1>10. ASSUME NEW s \in Services, RestoreNext(s)
       PROVE  Renewal'
  <2>1. SameApply
    BY <1>0, <1>10 DEF RestoreNext, SameApply
  <2> QED BY <1>0, <1>2, <1>3, <1>10, <2>1, RenewalFrame DEF RestoreNext
<1>11. ASSUME NEW c \in callbacks, HandleMapping(c)
       PROVE  Renewal'
  <2>1. SameApply
    BY <1>0, <1>1, <1>11, ApplyElsewhere DEF HandleMapping, At, Idle, Recorded
  <2> QED BY <1>0, <1>2, <1>3, <1>11, <2>1, RenewalFrame DEF HandleMapping
<1>12. CASE FirewallReload
  BY <1>0, <1>1, <1>2, <1>3, <1>12, RenewalFrame DEF FirewallReload
<1>13. CASE Shutdown
  <2>1. NoneRegistered
    BY <1>13 DEF Shutdown, StopAll, NoneRegistered
  <2> QED BY <1>0, <1>1, <1>2, <1>13, <2>1, RenewalFrame DEF Shutdown, StopAll
<1>14. ASSUME NEW p \in Pids, NEW m \in Mappings, NatmapEvent(p, m)
       PROVE  Renewal'
  BY <1>0, <1>1, <1>2, <1>3, <1>14, RenewalFrame DEF NatmapEvent, engineVars
<1>15. CASE RestoreSnapshot
  BY <1>0, <1>1, <1>2, <1>3, <1>15, RenewalFrame DEF RestoreSnapshot, engineVars
<1> QED
  BY <1>5, <1>6, <1>7, <1>9, <1>10, <1>11, <1>12, <1>13, <1>14, <1>15

\* A lease or rule recorded on a registered process is kept alive by exactly one
\* goroutine, whatever the order of announcements, stops, restarts of the
\* service, ticks and failures.
THEOREM RecordsKeptAlive == Spec => []RecordKeptAlive
<1>1. Init => Renewal
  BY NoneAssumption DEF Init, EngineInit, Renewal, LoopsOfPast, OneLoopEach,
     JustRecorded, Recorded, Threads, Idle, RecordsKept, Running
<1>2. IInv /\ Renewal /\ [Next]_vars => Renewal'
  <2> SUFFICES ASSUME IInv, Renewal, [Next]_vars
               PROVE  Renewal'
    OBVIOUS
  <2>1. CASE Restart
    <3>1. /\ loops' = {} /\ th'["api"] = Idle
          /\ processes' = [s \in Services |-> None]
      BY <2>1 DEF Restart, Threads
    <3> QED
      BY <3>1 DEF Renewal, LoopsOfPast, OneLoopEach, JustRecorded, Recorded, Idle,
         RecordsKept, Running
  <2>2. CASE GatewayStep
    BY <2>2, RecordRenewal, ReadyRenewal, PreviousRenewal, QuietStepRenewal
  <2>3. CASE UNCHANGED vars
    <3>1. TypeOK /\ CallLocals
      BY DEF IInv
    <3>2. SameApply /\ SameRecords /\ NoneRegistered /\ loops' = loops
      BY <2>3 DEF vars, engineVars, SameApply, SameRecords, NoneRegistered
    <3> QED BY <3>1, <3>2, RenewalFrame
  <2> QED
    BY <2>1, <2>2, <2>3, StartStepRenewal, ProcessStepRenewal, LoopStepRenewal,
       QuietStepRenewal DEF Next
<1>3. IInv /\ Renewal => RecordKeptAlive
  <2> SUFFICES ASSUME IInv, Renewal, NEW s \in Services, Running(s),
                      proc[processes[s]].gw # None,
                      proc[processes[s]].gw.mode \in {"natpmp", "fw4"},
                      th["api"].svc = s => At("api", "mapping")
               PROVE  Cardinality({l \in loops :
                                     /\ l.pid = processes[s]
                                     /\ l.gw = proc[processes[s]].gw
                                     /\ l.gen = proc[processes[s]].gen}) = 1
    BY DEF RecordKeptAlive
  <2> DEFINE p == processes[s]
             kept == {l \in loops : Keeps(l, p)}
  <2>1. RecordKept(s, p)
    BY DEF Renewal, RecordsKept
  <2>2. ~(Recorded(th["api"]) /\ th["api"].pid = p)
    <3> SUFFICES ASSUME Recorded(th["api"]), th["api"].pid = p
                 PROVE  FALSE
      OBVIOUS
    <3>1. ApplyState.svc = s
      BY <2>1 DEF Renewal, JustRecorded, RecordKept
    <3>2. th["api"].svc = s
      BY <3>1 DEF ApplyState, gatewayMappingState
    <3> QED BY <3>2 DEF At, Recorded
  <2>3. PICK l \in loops : Keeps(l, p)
    BY <2>1, <2>2 DEF RecordKept
  <2>4. kept = {l}
    BY <2>3 DEF Renewal, OneLoopEach, Keeps
  <2>5. Cardinality(kept) = 1
    BY <2>4, FS_Singleton
  <2> QED BY <2>5 DEF Keeps
<1> QED BY <1>1, <1>2, <1>3, Invariance, PTL DEF Spec

-------------------------------------------------------------------------------
(* Entries of the gateway, where no mapping has to be kept alive. *)

\* A process identity that is not in use has no waiter, and the waiter a start
\* has yet to spawn is of a process no other start has.
WaitersKnown ==
    /\ \A p \in Pids : proc[p].state \in {"unused", "lost"} => proc[p].wait = "done"
    /\ \A t \in Threads : th[t].pc = "discovering" =>
         /\ proc[th[t].pid].wait = "unspawned"
         /\ \A u \in Threads \ {t} :
              th[u].pc = "discovering" => th[u].pid # th[t].pid

\* Somebody will remove the entry of the mapping recorded on p.
Responsible(p) ==
    \/ Registered(p)
    \/ proc[p].wait = "cleanup"
    \/ At("api", "stopgw") /\ th["api"].pid = p
    \/ p \in doomed

\* EntryAnsweredFor, but the handler that removes the previous entry does not
\* answer for the entry it has just recorded.
Answered(e) ==
    \/ \E p \in Pids :
         proc[p].gw # None /\ GatewayEntry(proc[p].gw) = e /\ Responsible(p)
    \/ th["api"].pc \in {"gwrecord", "gwundo"} /\ GatewayEntry(ApplyState) = e
    \/ /\ At("api", "gwprev")
       /\ GatewayEntry(th["api"].gw) = e /\ e # GatewayEntry(ApplyState)

AllAnswered == \A e \in router : Answered(e)

\* No start gets to the gap before it spawns its waiter.
NoneDiscovers ==
    \A t \in Threads : th'[t].pc = "discovering" =>
        th[t].pc = "discovering" /\ th'[t].pid = th[t].pid

\* Waiters change only at processes in use, and at none a start holds on to.
LEMMA WaitersFrame ==
    ASSUME TypeOK, CallLocals, WaitersKnown, NoneDiscovers, NEW p \in Pids,
           \A q \in Pids \ {p} : proc'[q] = proc[q],
           proc'[p].state \in {"unused", "lost"} => proc'[p].wait = "done",
           proc'[p].wait = proc[p].wait \/ proc[p].wait # "unspawned"
    PROVE  WaitersKnown'
<1>1. \A q \in Pids : proc'[q].state \in {"unused", "lost"} => proc'[q].wait = "done"
  BY DEF WaitersKnown
<1>2. ASSUME NEW t \in Threads, th'[t].pc = "discovering"
      PROVE  /\ proc'[th'[t].pid].wait = "unspawned"
             /\ \A u \in Threads \ {t} :
                  th'[u].pc = "discovering" => th'[u].pid # th'[t].pid
  <2>1. th[t].pc = "discovering" /\ th'[t].pid = th[t].pid /\ th[t].pid \in Pids
    BY <1>2 DEF NoneDiscovers, CallLocals, LocalsOK
  <2>2. proc'[th[t].pid].wait = "unspawned"
    BY <2>1 DEF WaitersKnown
  <2> QED BY <2>1, <2>2 DEF NoneDiscovers, WaitersKnown
<1> QED BY <1>1, <1>2 DEF WaitersKnown

\* The same when no process changes.
LEMMA WaitersQuiet ==
    ASSUME TypeOK, CallLocals, WaitersKnown, NoneDiscovers,
           \A q \in Pids : /\ proc'[q].wait = proc[q].wait
                           /\ proc'[q].state = proc[q].state
    PROVE  WaitersKnown'
<1>1. \A t \in Threads : th[t].pc = "discovering" => th[t].pid \in Pids
  BY DEF CallLocals, LocalsOK
<1> QED BY <1>1 DEF NoneDiscovers, WaitersKnown

\* What answers for an entry goes on to answer for it when the gateway gains no
\* entry, the calls in ApplyGatewayMapping stay where they are, and processes
\* keep their records and somebody responsible for them.
LEMMA AnsweredFrame ==
    ASSUME TypeOK, AllAnswered, router' \subseteq router,
           \/ th'["api"] = th["api"]
           \/ th["api"].pc \notin {"gwrecord", "gwundo", "gwprev"},
           \A p \in Pids :
             /\ Responsible(p) /\ proc[p].gw # None
             /\ GatewayEntry(proc[p].gw) \in router'
             => proc'[p].gw = proc[p].gw /\ Responsible(p)'
    PROVE  AllAnswered'
<1> SUFFICES ASSUME NEW e \in router'
             PROVE  Answered(e)'
  BY DEF AllAnswered
<1>1. Answered(e)
  BY DEF AllAnswered
<1>2. CASE \E p \in Pids : /\ proc[p].gw # None /\ GatewayEntry(proc[p].gw) = e
                           /\ Responsible(p)
  <2>1. PICK p \in Pids : /\ proc[p].gw # None /\ GatewayEntry(proc[p].gw) = e
                          /\ Responsible(p)
    BY <1>2
  <2>2. proc'[p].gw = proc[p].gw /\ Responsible(p)'
    BY <2>1
  <2>3. GatewayEntry(proc'[p].gw) = e
    BY <2>1, <2>2
  <2> QED BY <2>1, <2>2, <2>3 DEF Answered
<1>3. CASE th["api"].pc \in {"gwrecord", "gwundo"} /\ GatewayEntry(ApplyState) = e
  BY <1>3 DEF Answered, ApplyState
<1>4. CASE /\ At("api", "gwprev")
           /\ GatewayEntry(th["api"].gw) = e /\ e # GatewayEntry(ApplyState)
  <2>1. th'["api"] = th["api"]
    BY <1>4 DEF At
  <2>2. ApplyState' = ApplyState
    BY <2>1 DEF ApplyState
  <2> QED BY <1>4, <2>1, <2>2 DEF Answered, At
<1> QED BY <1>1, <1>2, <1>3, <1>4 DEF Answered

\* Nobody answers for the mapping of a free process.
LEMMA FreeUnanswered ==
    ASSUME WaitersKnown, NEW p \in Pids, Free(p)
    PROVE  ~Responsible(p)
BY DEF WaitersKnown, Free, Responsible, Registered, Threads

\* A step of Manager.Start spawns the waiter of the process it registered, or
\* keeps hold of the process.
LEMMA StartStepWaiters ==
    ASSUME IInv, WaitersKnown, NEW t \in Threads, StartStep(t)
    PROVE  WaitersKnown'
<1>0. /\ TypeOK /\ CallLocals /\ th \in [Threads -> Thread] /\ th[t] \in Thread
      /\ proc \in [Pids -> Process]
  BY DEF IInv, TypeOK, EngineTypeOK
<1>1. ASSUME NEW pc, pc # "discovering", Goto(t, pc)
      PROVE  NoneDiscovers
  BY <1>0, <1>1 DEF Goto, NoneDiscovers, Thread
<1>2. Return(t) => NoneDiscovers
  BY <1>0 DEF Return, NoneDiscovers, Idle
<1>3. CASE \/ ValidateTarget(t) \/ AlreadyRunning(t) \/ SpawnFails(t)
           \/ StartTunnelLock(t) \/ TunnelTokenCall(t) \/ TunnelTokenFails(t)
  <2>1. NoneDiscovers
    BY <1>1, <1>2, <1>3 DEF ValidateTarget, AlreadyRunning, SpawnFails,
       StartTunnelLock, TunnelTokenCall, TunnelTokenFails
  <2>2. proc' = proc
    BY <1>3 DEF ValidateTarget, AlreadyRunning, SpawnFails, StartTunnelLock,
       TunnelTokenCall, TunnelTokenFails
  <2> QED BY <1>0, <2>1, <2>2, WaitersQuiet
<1>4. ASSUME NEW p \in Pids, StartNatmap(t, p)
      PROVE  WaitersKnown'
  <2>1. /\ \A u \in Threads \ {t} : th'[u] = th[u] /\ th[u].pid # p
        /\ th'[t].pc = "discovering" /\ th'[t].pid = p
    BY <1>0, <1>4 DEF StartNatmap, Free, Thread
  <2>2. /\ \A q \in Pids \ {p} : proc'[q] = proc[q]
        /\ proc'[p].state = "running" /\ proc'[p].wait = "unspawned"
    BY <1>0, <1>4 DEF StartNatmap, Spawned, Unused
  <2>3. \A u \in Threads : th[u].pc = "discovering" => th[u].pid \in Pids
    BY <1>0 DEF CallLocals, LocalsOK
  <2> QED BY <2>1, <2>2, <2>3 DEF WaitersKnown
<1>5. CASE StartNatmapWrite(t)
  <2> DEFINE P == th[t].pid
  <2>1. P \in Pids /\ th[t].pc = "discovering"
    BY <1>0, <1>5 DEF StartNatmapWrite, At, CallLocals, LocalsOK
  <2>2. /\ \A q \in Pids \ {P} : proc'[q] = proc[q]
        /\ proc'[P].state = proc[P].state
    BY <1>0, <1>5, <2>1 DEF StartNatmapWrite, Process
  <2>3. /\ \A u \in Threads \ {t} : th'[u] = th[u]
        /\ th'[t].pc = "idle"
    BY <1>0, <1>5 DEF StartNatmapWrite, Return, Idle
  <2>4. \A u \in Threads : th[u].pc = "discovering" => th[u].pid \in Pids
    BY <1>0 DEF CallLocals, LocalsOK
  <2>5. proc[P].state \notin {"unused", "lost"}
    BY <2>1 DEF WaitersKnown
  <2>6. \A u \in Threads \ {t} : th[u].pc = "discovering" => th[u].pid # P
    BY <2>1 DEF WaitersKnown
  <2> HIDE DEF P
  <2> QED BY <2>1, <2>2, <2>3, <2>4, <2>5, <2>6 DEF WaitersKnown
<1>6. ASSUME NEW p \in Pids, Free(p), NEW x, proc' = [proc EXCEPT ![p] = x],
             x.state = "running", NoneDiscovers
      PROVE  WaitersKnown'
  <2>1. proc[p].wait # "unspawned"
    BY <1>6 DEF Free, WaitersKnown
  <2> QED BY <1>0, <1>6, <2>1, WaitersFrame
<1>7. ASSUME NEW p \in Pids, StartQuickTunnel(t, p)
      PROVE  WaitersKnown'
  <2>1. NoneDiscovers
    BY <1>1, <1>2, <1>7 DEF StartQuickTunnel
  <2>2. \E x : x.state = "running" /\ proc' = [proc EXCEPT ![p] = x]
    BY <1>7 DEF StartQuickTunnel, Spawned, Unused
  <2>3. Free(p)
    BY <1>7 DEF StartQuickTunnel
  <2> QED BY <1>6, <2>1, <2>2, <2>3
<1>8. ASSUME NEW p \in Pids, StartTunnel(t, p)
      PROVE  WaitersKnown'
  <2>1. NoneDiscovers
    BY <1>1, <1>2, <1>8 DEF StartTunnel
  <2>2. CASE UNCHANGED proc
    BY <1>0, <2>1, <2>2, WaitersQuiet
  <2>3. CASE Live(rows[th[t].svc])
    <3>1. \E x : x.state = "running" /\ proc' = [proc EXCEPT ![p] = x]
      BY <1>8, <2>3 DEF StartTunnel, Spawned, Unused
    <3>2. Free(p)
      BY <1>8 DEF StartTunnel
    <3> QED BY <1>6, <2>1, <3>1, <3>2
  <2> QED BY <1>8, <2>2, <2>3 DEF StartTunnel
<1> QED BY <1>3, <1>4, <1>5, <1>7, <1>8 DEF StartStep

\* A step of Manager.Start reuses only processes nobody answers with.
LEMMA StartStepAnswered ==
    ASSUME IInv, WaitersKnown, AllAnswered, NEW t \in Threads, StartStep(t)
    PROVE  AllAnswered'
<1>0. /\ TypeOK /\ CallLocals /\ th \in [Threads -> Thread]
      /\ proc \in [Pids -> Process] /\ router' = router /\ doomed' = doomed
      /\ processes \in [Services -> Pids \cup {None}]
  BY DEF IInv, TypeOK, EngineTypeOK, StartStep, ValidateTarget, AlreadyRunning,
     SpawnFails, StartNatmap, StartNatmapWrite, StartQuickTunnel, StartTunnelLock,
     TunnelTokenCall, TunnelTokenFails, StartTunnel
<1>1. /\ th[t].pc \notin {"gwrecord", "gwundo", "gwprev", "stopgw"}
      /\ \A u \in Threads \ {t} : th'[u] = th[u]
  BY <1>0 DEF StartStep, ValidateTarget, AlreadyRunning, SpawnFails, StartNatmap,
     StartNatmapWrite, StartQuickTunnel, StartTunnelLock, TunnelTokenCall,
     TunnelTokenFails, StartTunnel, At, Goto, Return
<1>2. /\ \/ th'["api"] = th["api"]
         \/ th["api"].pc \notin {"gwrecord", "gwundo", "gwprev"}
      /\ At("api", "stopgw") => th'["api"] = th["api"]
  BY <1>1 DEF At, Threads
<1>3. ASSUME NEW p \in Pids,
             p \in doomed' \/ proc'[p].wait = proc[p].wait
               \/ proc[p].wait # "cleanup",
             \A s \in Services : processes[s] = p => processes'[s] = p,
             Responsible(p)
      PROVE  Responsible(p)'
  BY <1>0, <1>2, <1>3 DEF Responsible, Registered, At
<1>4. CASE \/ ValidateTarget(t) \/ AlreadyRunning(t) \/ SpawnFails(t)
           \/ StartTunnelLock(t) \/ TunnelTokenCall(t) \/ TunnelTokenFails(t)
  <2>1. UNCHANGED <<proc, processes>>
    BY <1>4 DEF ValidateTarget, AlreadyRunning, SpawnFails, StartTunnelLock,
       TunnelTokenCall, TunnelTokenFails
  <2> QED BY <1>0, <1>2, <1>3, <2>1, AnsweredFrame
<1>5. ASSUME NEW p \in Pids, Free(p), NEW x,
             proc' \in {proc, [proc EXCEPT ![p] = x]}, NEW s \in Services,
             ~Running(s), processes' \in {processes, [processes EXCEPT ![s] = p]}
      PROVE  AllAnswered'
  <2>1. ~Responsible(p)
    BY <1>5, FreeUnanswered
  <2>2. \A q \in Pids \ {p} : proc'[q] = proc[q]
    BY <1>0, <1>5
  <2>3. \A q \in Pids : \A y \in Services : processes[y] = q => processes'[y] = q
    BY <1>0, <1>5, NoneAssumption DEF Running
  <2>4. \A q \in Pids : Responsible(q) => Responsible(q)' /\ proc'[q] = proc[q]
    BY <1>3, <2>1, <2>2, <2>3
  <2> QED BY <1>0, <1>2, <2>4, AnsweredFrame
<1>6. ASSUME NEW p \in Pids,
             StartNatmap(t, p) \/ StartQuickTunnel(t, p) \/ StartTunnel(t, p)
      PROVE  AllAnswered'
  <2>1. th[t].svc \in Services /\ Free(p)
    BY <1>0, <1>6 DEF StartNatmap, StartQuickTunnel, StartTunnel, At, CallLocals,
       LocalsOK
  <2>2. ~Running(th[t].svc)
    BY <1>6 DEF StartNatmap, StartQuickTunnel, StartTunnel, At, IInv, Supervised,
       TunnelLock
  <2>3. /\ \E x : proc' \in {proc, [proc EXCEPT ![p] = x]}
        /\ processes' \in {processes, [processes EXCEPT ![th[t].svc] = p]}
    BY <1>6 DEF StartNatmap, StartQuickTunnel, StartTunnel
  <2> QED BY <1>5, <2>1, <2>2, <2>3
<1>7. CASE StartNatmapWrite(t)
  <2>1. th[t].pid \in Pids /\ proc[th[t].pid].wait = "unspawned"
    BY <1>0, <1>7 DEF StartNatmapWrite, At, CallLocals, LocalsOK, WaitersKnown
  <2>2. \A p \in Pids : /\ proc'[p].gw = proc[p].gw
                        /\ proc'[p].wait = proc[p].wait \/ proc[p].wait # "cleanup"
    BY <1>0, <1>7, <2>1 DEF StartNatmapWrite, Process
  <2>3. processes' = processes
    BY <1>7 DEF StartNatmapWrite
  <2> QED BY <1>0, <1>2, <1>3, <2>2, <2>3, AnsweredFrame
<1> QED BY <1>4, <1>6, <1>7 DEF StartStep

\* Wait and StopAll remove the entry before they are done with the process.
LEMMA ProcessStepAnswered ==
    ASSUME IInv, WaitersKnown, AllAnswered, ~RouterFaults,
           NEW p \in Pids, ProcessStep(p)
    PROVE  WaitersKnown' /\ AllAnswered'
<1>0. /\ TypeOK /\ CallLocals /\ proc \in [Pids -> Process] /\ proc[p] \in Process
      /\ processes \in [Services -> Pids \cup {None}] /\ th' = th
  BY DEF IInv, TypeOK, EngineTypeOK, ProcessStep, ProcessExits, QuickTunnelURL,
     WaitReturns, WaitRemovesGateway, StopAllCancels
<1>1. NoneDiscovers
  BY <1>0 DEF NoneDiscovers
<1>2. /\ \A q \in Pids \ {p} : proc'[q] = proc[q]
      /\ proc'[p].gw = proc[p].gw
      /\ \/ proc'[p].wait = proc[p].wait
         \/ proc[p].wait = "waiting" /\ WaitReturns(p)
         \/ proc[p].wait = "cleanup" /\ proc'[p].wait = "done" /\ WaitRemovesGateway(p)
  <2>1. CASE ProcessExits(p) \/ QuickTunnelURL(p) \/ StopAllCancels(p)
    <3>1. \/ proc' = [proc EXCEPT ![p].cancelled = TRUE]
          \/ proc' = [proc EXCEPT ![p].found = TRUE]
          \/ proc' = [proc EXCEPT ![p].state = "exited"]
      BY <2>1 DEF ProcessExits, QuickTunnelURL, StopAllCancels
    <3> QED BY <1>0, <3>1 DEF Process
  <2>2. CASE WaitReturns(p)
    <3>1. \/ proc' = [proc EXCEPT ![p].wait = "cleanup"]
          \/ proc' = [proc EXCEPT ![p].wait = "done"]
      BY <2>2 DEF WaitReturns
    <3>2. proc[p].wait = "waiting"
      BY <2>2 DEF WaitReturns
    <3> QED BY <1>0, <2>2, <3>1, <3>2 DEF Process
  <2>3. CASE WaitRemovesGateway(p)
    BY <1>0, <2>3 DEF WaitRemovesGateway, Process
  <2> QED BY <2>1, <2>2, <2>3 DEF ProcessStep
<1>3. proc'[p].state \in {proc[p].state, "exited"}
  <2>1. \/ proc' = [proc EXCEPT ![p].wait = "cleanup"]
        \/ proc' = [proc EXCEPT ![p].wait = "done"]
        \/ proc' = [proc EXCEPT ![p].cancelled = TRUE]
        \/ proc' = [proc EXCEPT ![p].found = TRUE]
        \/ proc' = [proc EXCEPT ![p].state = "exited"]
    BY DEF ProcessStep, ProcessExits, QuickTunnelURL, WaitReturns,
       WaitRemovesGateway, StopAllCancels
  <2> QED BY <1>0, <2>1 DEF Process
<1>4. WaitersKnown'
  <2>1. WaitReturns(p) => proc[p].state = "exited"
    BY DEF WaitReturns
  <2>2. proc'[p].state \in {"unused", "lost"} => proc'[p].wait = "done"
    BY <1>2, <1>3, <2>1 DEF WaitersKnown
  <2> QED BY <1>0, <1>1, <1>2, <2>2, WaitersFrame
<1>5. ASSUME NEW q \in Pids \ {p}, Responsible(q),
             \A s \in Services : processes[s] = q => processes'[s] = q,
             q \in doomed => q \in doomed'
      PROVE  Responsible(q)'
  BY <1>0, <1>2, <1>5 DEF Responsible, Registered, At
<1>6. CASE ProcessExits(p) \/ QuickTunnelURL(p)
  <2>1. UNCHANGED <<processes, doomed, router>> /\ proc'[p].wait = proc[p].wait
    <3>1. \/ proc' = [proc EXCEPT ![p].found = TRUE]
          \/ proc' = [proc EXCEPT ![p].state = "exited"]
      BY <1>6 DEF ProcessExits, QuickTunnelURL
    <3>2. proc'[p].wait = proc[p].wait
      BY <1>0, <3>1 DEF Process
    <3> QED BY <1>6, <3>2 DEF ProcessExits, QuickTunnelURL
  <2>2. \A q \in Pids : Responsible(q) => Responsible(q)'
    BY <1>0, <1>5, <2>1 DEF Responsible, Registered, At
  <2>3. \A q \in Pids : proc'[q].gw = proc[q].gw
    BY <1>2
  <2> QED BY <1>0, <1>4, <2>1, <2>2, <2>3, AnsweredFrame
<1>7. CASE WaitReturns(p)
  <2>1. UNCHANGED <<doomed, router>>
    BY <1>7 DEF WaitReturns
  <2>2. \A q \in Pids \ {p} : \A s \in Services :
          processes[s] = q => processes'[s] = q
    BY <1>0, <1>7 DEF WaitReturns
  <2>3. \A q \in Pids \ {p} : Responsible(q) => Responsible(q)'
    BY <1>5, <2>1, <2>2
  <2>4. proc[p].wait = "waiting"
    BY <1>7 DEF WaitReturns
  <2>5. Responsible(p) => Responsible(p)'
    <3>1. CASE processes' = processes
      BY <1>0, <2>1, <2>4, <3>1 DEF Responsible, Registered, At
    <3>2. CASE proc' = [proc EXCEPT ![p].wait = "cleanup"]
      BY <1>0, <3>2 DEF Responsible, Process
    <3> QED BY <1>7, <3>1, <3>2 DEF WaitReturns
  <2>6. \A q \in Pids : proc'[q].gw = proc[q].gw
    BY <1>2
  <2> QED BY <1>0, <1>4, <2>1, <2>3, <2>5, <2>6, AnsweredFrame
<1>8. CASE WaitRemovesGateway(p) \/ StopAllCancels(p)
  <2>1. /\ processes' = processes /\ RemoveRecorded(p)
        /\ \A q \in Pids \ {p} : q \in doomed => q \in doomed'
    BY <1>8 DEF WaitRemovesGateway, StopAllCancels
  <2>2. /\ router' \subseteq router
        /\ proc[p].gw # None => GatewayEntry(proc[p].gw) \notin router'
    BY <2>1 DEF RemoveRecorded, RemoveFromRouter, removeGatewayMapping
  <2>3. \A q \in Pids \ {p} : Responsible(q) => Responsible(q)'
    BY <1>5, <2>1
  <2>4. \A q \in Pids \ {p} : proc'[q].gw = proc[q].gw
    BY <1>2
  <2> QED BY <1>0, <1>4, <2>2, <2>3, <2>4, AnsweredFrame
<1> QED BY <1>6, <1>7, <1>8 DEF ProcessStep

\* Stop takes the process out of the map and goes on to remove its entry.
LEMMA StopAnswered ==
    ASSUME IInv, WaitersKnown, AllAnswered, NEW s \in Services, Stop(s)
    PROVE  WaitersKnown' /\ AllAnswered'
<1> DEFINE P == processes[s]
<1>0. /\ TypeOK /\ CallLocals /\ proc \in [Pids -> Process]
      /\ processes \in [Services -> Pids \cup {None}]
      /\ th \in [Threads -> Thread] /\ "api" \in Threads
      /\ UNCHANGED <<router, doomed>> /\ th["api"].pc = "idle"
      /\ processes' = [processes EXCEPT ![s] = None]
  BY DEF IInv, TypeOK, EngineTypeOK, Stop, Threads, At
<1>1. \A q \in Pids : /\ proc'[q].gw = proc[q].gw /\ proc'[q].wait = proc[q].wait
                      /\ proc'[q].state = proc[q].state
  BY <1>0 DEF Stop, Process
<1>2. P = None => th' = th
  BY DEF Stop
<1>3. P # None => th'["api"].pc = "stopgw" /\ th'["api"].pid = P
  BY <1>0 DEF Stop, Idle
<1>4. NoneDiscovers
  BY <1>0 DEF Stop, Idle, NoneDiscovers
<1>5. WaitersKnown'
  BY <1>0, <1>1, <1>4, WaitersQuiet
<1>6. ASSUME NEW q \in Pids, Responsible(q)
      PROVE  Responsible(q)'
  <2>1. CASE q = P
    BY <1>3, <1>6, <2>1, NoneAssumption DEF Responsible, At
  <2>2. CASE q # P
    <3>1. Registered(q) => Registered(q)'
      BY <1>0, <2>2 DEF Registered
    <3> QED BY <1>0, <1>1, <1>6, <3>1 DEF Responsible, At
  <2> QED BY <2>1, <2>2
<1> QED BY <1>0, <1>1, <1>5, <1>6, AnsweredFrame

\* Shutdown hands every registered process to the loop of StopAll.
LEMMA ShutdownAnswered ==
    ASSUME IInv, WaitersKnown, AllAnswered, Shutdown
    PROVE  WaitersKnown' /\ AllAnswered'
<1>0. /\ TypeOK /\ CallLocals /\ UNCHANGED <<proc, th, router>>
      /\ doomed' = doomed \cup {p \in Pids : \E s \in Services : processes[s] = p}
  BY DEF IInv, Shutdown, StopAll
<1>1. NoneDiscovers
  BY <1>0 DEF NoneDiscovers
<1>2. WaitersKnown'
  BY <1>0, <1>1, WaitersQuiet
<1>3. \A p \in Pids : Responsible(p) => Responsible(p)'
  BY <1>0 DEF Responsible, Registered, At
<1> QED BY <1>0, <1>2, <1>3, AnsweredFrame

\* ApplyState is a mapping.
LEMMA ApplyStateType ==
    ASSUME TypeOK, CallLocals, th["api"].pc \in {"gwadd", "gwrecord"}
    PROVE  ApplyState \in Gateways /\ ApplyState # None
<1>1. /\ th["api"] \in Thread /\ th["api"].svc \in Services
      /\ th["api"].mapping \in Mappings
  BY DEF TypeOK, EngineTypeOK, CallLocals, LocalsOK, Threads
<1>2. th["api"].copy \in Row
  BY <1>1 DEF Thread
<1>3. ApplyState \in Gateways
  BY <1>1, <1>2, GatewayStateType DEF ApplyState
<1> QED BY <1>3, NoMappingAssumption

\* While ApplyGatewayMapping calls the gateway and records the result, it
\* answers for its entry; a record it replaces, until the entry is gone.
LEMMA GatewayStepAnswered ==
    ASSUME IInv, NoLoops, WaitersKnown, AllAnswered, ~RouterFaults, GatewayStep
    PROVE  WaitersKnown' /\ AllAnswered'
<1>0. /\ TypeOK /\ CallLocals /\ th \in [Threads -> Thread] /\ "api" \in Threads
      /\ th["api"] \in Thread /\ proc \in [Pids -> Process]
      /\ processes \in [Services -> Pids \cup {None}]
      /\ UNCHANGED <<processes, doomed>>
      /\ th["api"].pc \in {"stopgw", "gwadd", "gwinsert", "gwrecord", "gwundo",
                           "gwprev", "gwready", "gwfail"}
  BY DEF IInv, TypeOK, EngineTypeOK, Threads, GatewayStep, StopRemovesGateway,
     GatewayAdd, GatewayInsertRule, GatewayRecord, GatewayUndo,
     RemovePreviousGateway, GatewayReady, GatewayFails, At
<1>1. /\ \A q \in Pids : /\ proc'[q].wait = proc[q].wait
                         /\ proc'[q].state = proc[q].state
      /\ ~GatewayRecord => proc' = proc
  <2>1. CASE GatewayRecord
    <3> DEFINE P == processes[th["api"].svc]
               rec == [proc[P] EXCEPT !.gw = ApplyState, !.gen = @ + 1]
    <3>1. CASE proc' = proc
      BY <2>1, <3>1
    <3>2. CASE P # None /\ proc' = [proc EXCEPT ![P] = rec]
      <4>1. P \in Pids
        BY <1>0, <2>1, <3>2 DEF GatewayRecord, At, CallLocals, LocalsOK
      <4>2. rec.wait = proc[P].wait /\ rec.state = proc[P].state
        BY <1>0, <4>1 DEF Process
      <4> HIDE DEF rec, P
      <4> QED BY <1>0, <2>1, <3>2, <4>1, <4>2
    <3> QED BY <2>1, <3>1, <3>2 DEF GatewayRecord
  <2>2. CASE ~GatewayRecord
    BY <2>2 DEF GatewayStep, StopRemovesGateway, GatewayAdd, GatewayInsertRule,
       GatewayUndo, RemovePreviousGateway, GatewayReady, GatewayFails
  <2> QED BY <2>1, <2>2
<1>2. /\ \A t \in Threads \ {"api"} : th'[t] = th[t]
      /\ th'["api"].pc # "discovering"
  <2>1. \A t \in Threads \ {"api"} : th'[t] = th[t]
    BY <1>0 DEF GatewayStep, StopRemovesGateway, GatewayAdd, GatewayInsertRule,
       GatewayRecord, GatewayUndo, RemovePreviousGateway, GatewayReady,
       GatewayFails, Goto, Return
  <2>2. ASSUME NEW pc, pc # "discovering", Goto("api", pc)
        PROVE  th'["api"].pc # "discovering"
    BY <1>0, <2>2 DEF Goto, Thread
  <2>3. Return("api") => th'["api"].pc # "discovering"
    BY <1>0 DEF Return, Idle
  <2>4. CASE GatewayRecord
    <3> DEFINE P == processes[th["api"].svc]
    <3>1. CASE Goto("api", "gwundo")
      BY <2>1, <2>2, <3>1
    <3>2. CASE th' = [th EXCEPT !["api"].pid = P, !["api"].gw = proc[P].gw,
                                !["api"].pc = IF proc[P].gw = None
                                              THEN "gwready" ELSE "gwprev"]
      BY <1>0, <2>1, <3>2 DEF Thread
    <3> QED BY <2>4, <3>1, <3>2 DEF GatewayRecord
  <2>5. CASE GatewayReady
    <3>1. CASE th' = [th EXCEPT !["api"].pc = "sync", !["api"].pid = None,
                                !["api"].gw = None]
      BY <1>0, <2>1, <3>1 DEF Thread
    <3> QED BY <2>1, <2>3, <2>5, <3>1 DEF GatewayReady
  <2>6. CASE ~GatewayRecord /\ ~GatewayReady
    BY <2>1, <2>2, <2>3, <2>6 DEF GatewayStep, StopRemovesGateway, GatewayAdd,
       GatewayInsertRule, GatewayUndo, RemovePreviousGateway, GatewayFails
  <2> QED BY <2>4, <2>5, <2>6
<1>3. WaitersKnown'
  <2>1. NoneDiscovers
    BY <1>2 DEF NoneDiscovers
  <2> QED BY <1>0, <1>1, <2>1, WaitersQuiet
<1>4. ASSUME NEW pc, Goto("api", pc)
      PROVE  /\ th'["api"].pc = pc /\ ApplyState' = ApplyState
             /\ th'["api"].pid = th["api"].pid /\ th'["api"].gw = th["api"].gw
  <2>1. th'["api"] = [th["api"] EXCEPT !.pc = pc]
    BY <1>0, <1>4 DEF Goto
  <2> QED BY <1>0, <2>1 DEF Thread, ApplyState
<1>5. ASSUME NEW p \in Pids, Responsible(p), th["api"].pc # "stopgw"
      PROVE  Responsible(p)'
  BY <1>0, <1>1, <1>5 DEF Responsible, Registered, At
<1>6. CASE StopRemovesGateway
  <2>1. /\ th["api"].pc = "stopgw" /\ RemoveRecorded(th["api"].pid) /\ proc' = proc
    BY <1>6 DEF StopRemovesGateway, At
  <2>2. /\ router' \subseteq router
        /\ \A p \in Pids : p = th["api"].pid /\ proc[p].gw # None
                             => GatewayEntry(proc[p].gw) \notin router'
    BY <2>1 DEF RemoveRecorded, RemoveFromRouter, removeGatewayMapping
  <2>3. \A p \in Pids \ {th["api"].pid} : Responsible(p) => Responsible(p)'
    BY <1>0, <2>1 DEF Responsible, Registered, At
  <2> QED BY <1>0, <1>3, <2>1, <2>2, <2>3, AnsweredFrame
<1>7. CASE GatewayAdd \/ GatewayInsertRule
  <2>1. /\ th["api"].pc \in {"gwadd", "gwinsert"} /\ proc' = proc
        /\ \/ router' \subseteq router
           \/ /\ router' = router \cup {GatewayEntry(ApplyState)}
              /\ Goto("api", "gwrecord")
    BY <1>7 DEF GatewayAdd, GatewayInsertRule, At, pruneFirewallRules
  <2>2. CASE router' \subseteq router
    BY <1>0, <1>3, <1>5, <2>1, <2>2, AnsweredFrame
  <2>3. CASE /\ router' = router \cup {GatewayEntry(ApplyState)}
             /\ Goto("api", "gwrecord")
    <3> SUFFICES ASSUME NEW e \in router'
                 PROVE  Answered(e)'
      BY <1>3 DEF AllAnswered
    <3>1. CASE e = GatewayEntry(ApplyState)
      <4>1. th'["api"].pc = "gwrecord" /\ ApplyState' = ApplyState
        BY <1>4, <2>3
      <4> QED BY <3>1, <4>1 DEF Answered
    <3>2. CASE e # GatewayEntry(ApplyState)
      <4>1. PICK p \in Pids : /\ proc[p].gw # None /\ Responsible(p)
                              /\ GatewayEntry(proc[p].gw) = e
        BY <2>1, <2>3, <3>2 DEF AllAnswered, Answered, At
      <4>2. Responsible(p)' /\ proc'[p] = proc[p]
        BY <1>5, <2>1, <4>1
      <4> QED BY <4>1, <4>2 DEF Answered
    <3> QED BY <3>1, <3>2
  <2> QED BY <2>1, <2>2, <2>3
<1>8. CASE GatewayRecord
  <2> DEFINE P == processes[th["api"].svc]
  <2>1. th["api"].pc = "gwrecord" /\ router' = router
    BY <1>8 DEF GatewayRecord, At
  <2> SUFFICES ASSUME NEW e \in router
               PROVE  Answered(e)'
    BY <1>3, <2>1 DEF AllAnswered
  <2>2. Answered(e)
    BY DEF AllAnswered
  <2>3. CASE P = None
    <3>1. Goto("api", "gwundo") /\ proc' = proc
      BY <1>8, <2>3 DEF GatewayRecord
    <3>2. th'["api"].pc = "gwundo" /\ ApplyState' = ApplyState
      BY <1>4, <3>1
    <3>3. CASE GatewayEntry(ApplyState) = e
      BY <3>2, <3>3 DEF Answered
    <3>4. CASE GatewayEntry(ApplyState) # e
      <4>1. PICK p \in Pids : /\ proc[p].gw # None /\ Responsible(p)
                              /\ GatewayEntry(proc[p].gw) = e
        BY <2>1, <2>2, <3>4 DEF Answered, At
      <4>2. Responsible(p)' /\ proc'[p] = proc[p]
        BY <1>5, <2>1, <3>1, <4>1
      <4> QED BY <4>1, <4>2 DEF Answered
    <3> QED BY <3>3, <3>4
  <2>4. CASE P # None
    <3> DEFINE rec == [proc[P] EXCEPT !.gw = ApplyState, !.gen = @ + 1]
    <3>1. P \in Pids /\ th["api"].svc \in Services
      BY <1>0, <2>1, <2>4 DEF CallLocals, LocalsOK
    <3>2. rec.gw = ApplyState
      BY <1>0, <3>1 DEF Process
    <3>3. proc' = [proc EXCEPT ![P] = rec]
      BY <1>8, <2>4 DEF GatewayRecord
    <3> HIDE DEF rec
    <3>4. proc'[P].gw = ApplyState /\ \A q \in Pids \ {P} : proc'[q] = proc[q]
      BY <1>0, <3>1, <3>2, <3>3
    <3>5. ApplyState # None
      BY <1>0, <2>1, ApplyStateType
    <3>6. /\ th'["api"].gw = proc[P].gw
          /\ th'["api"].pc = IF proc[P].gw = None THEN "gwready" ELSE "gwprev"
          /\ th'["api"].copy = th["api"].copy /\ th'["api"].svc = th["api"].svc
          /\ th'["api"].mapping = th["api"].mapping
      BY <1>0, <1>8, <2>4 DEF GatewayRecord, Thread
    <3>7. ApplyState' = ApplyState
      BY <3>6 DEF ApplyState
    <3>8. /\ Registered(P)
          /\ \A p \in Pids : Registered(p) => Responsible(p)'
      BY <1>0, <3>1 DEF Responsible, Registered
    <3> HIDE DEF P
    <3>9. CASE GatewayEntry(ApplyState) = e
      <4>1. \A p \in Pids : p = P =>
              proc'[p].gw # None /\ GatewayEntry(proc'[p].gw) = e /\ Responsible(p)'
        BY <3>4, <3>5, <3>8, <3>9
      <4> QED BY <3>1, <4>1 DEF Answered
    <3>10. CASE GatewayEntry(ApplyState) # e
      <4>1. PICK p \in Pids : /\ proc[p].gw # None /\ Responsible(p)
                              /\ GatewayEntry(proc[p].gw) = e
        BY <2>1, <2>2, <3>10 DEF Answered, At
      <4>2. CASE p = P
        <5>1. /\ th'["api"].pc = "gwprev" /\ GatewayEntry(th'["api"].gw) = e
              /\ e # GatewayEntry(ApplyState')
          BY <3>6, <3>7, <3>10, <4>1, <4>2
        <5> QED BY <5>1 DEF Answered, At
      <4>3. CASE p # P
        <5>1. Responsible(p)' /\ proc'[p] = proc[p]
          BY <1>5, <2>1, <3>4, <4>1, <4>3
        <5> QED BY <4>1, <5>1 DEF Answered
      <4> QED BY <4>2, <4>3
    <3> QED BY <3>9, <3>10
  <2> QED BY <2>3, <2>4
<1>9. CASE GatewayUndo \/ RemovePreviousGateway
  <2>1. /\ th["api"].pc \in {"gwundo", "gwprev"} /\ proc' = proc
        /\ router' \subseteq router
    BY <1>9 DEF GatewayUndo, RemovePreviousGateway, At, RemoveFromRouter,
       removeGatewayMapping
  <2> SUFFICES ASSUME NEW e \in router'
               PROVE  Answered(e)'
    BY <1>3 DEF AllAnswered
  <2>2. Answered(e)
    BY <2>1 DEF AllAnswered
  <2>3. CASE \E p \in Pids : /\ proc[p].gw # None /\ Responsible(p)
                             /\ GatewayEntry(proc[p].gw) = e
    <3>1. PICK p \in Pids : /\ proc[p].gw # None /\ Responsible(p)
                            /\ GatewayEntry(proc[p].gw) = e
      BY <2>3
    <3>2. Responsible(p)' /\ proc'[p] = proc[p]
      BY <1>5, <2>1, <3>1
    <3> QED BY <3>1, <3>2 DEF Answered
  <2>4. CASE th["api"].pc = "gwundo" /\ GatewayEntry(ApplyState) = e
    <3>1. router' = removeGatewayMapping(router, ApplyState)
      BY <1>9, <2>4 DEF GatewayUndo, RemovePreviousGateway, At, RemoveFromRouter
    <3> QED BY <2>4, <3>1 DEF removeGatewayMapping
  <2>5. CASE /\ At("api", "gwprev") /\ GatewayEntry(th["api"].gw) = e
             /\ e # GatewayEntry(ApplyState)
    <3> DEFINE previous == th["api"].gw
    <3>1. ApplyState.mode # "fw4"
      BY DEF NoLoops, ApplyState, gatewayMappingState, Unattended, Threads
    <3>2. separateGatewayEntry(previous, ApplyState)
      BY <2>5, <3>1 DEF separateGatewayEntry, GatewayEntry
    <3>3. router' = removeGatewayMapping(router, previous)
      BY <1>9, <2>5, <3>2 DEF GatewayUndo, RemovePreviousGateway, At,
         RemoveFromRouter, sameGatewayMapping, separateGatewayEntry
    <3> QED BY <2>5, <3>3 DEF removeGatewayMapping
  <2> QED BY <2>1, <2>2, <2>3, <2>4, <2>5 DEF Answered
<1>10. CASE GatewayReady \/ GatewayFails
  <2>1. /\ th["api"].pc \in {"gwready", "gwfail"} /\ UNCHANGED <<proc, router>>
    BY <1>10 DEF GatewayReady, GatewayFails, At
  <2> QED BY <1>0, <1>3, <1>5, <2>1, AnsweredFrame
<1> QED BY <1>6, <1>7, <1>8, <1>9, <1>10 DEF GatewayStep

\* The handlers and boot change neither the gateway nor the processes.
LEMMA QuietStepAnswered ==
    ASSUME IInv, WaitersKnown, AllAnswered,
           \/ HandlerStep
           \/ \E t \in Threads : StartFails(t)
           \/ \E s \in Services : (BeginRequest(s) /\ ~HandleStop(s)) \/ RestoreNext(s)
           \/ \E p \in Pids, m \in Mappings : NatmapEvent(p, m)
           \/ \E c \in callbacks : HandleMapping(c)
           \/ FirewallReload
           \/ RestoreSnapshot
    PROVE  WaitersKnown' /\ AllAnswered'
<1>0. /\ TypeOK /\ CallLocals /\ th \in [Threads -> Thread] /\ "api" \in Threads
      /\ "restore" \in Threads /\ th["api"] \in Thread
  BY DEF IInv, TypeOK, EngineTypeOK, Threads
<1>1. ASSUME UNCHANGED <<processes, proc, doomed>>, router' \subseteq router,
             NoneDiscovers,
             \/ th'["api"] = th["api"]
             \/ th["api"].pc \notin {"gwrecord", "gwundo", "gwprev", "stopgw"}
      PROVE  WaitersKnown' /\ AllAnswered'
  <2>1. WaitersKnown'
    BY <1>0, <1>1, WaitersQuiet
  <2>2. \A p \in Pids : Responsible(p) => Responsible(p)'
    BY <1>1 DEF Responsible, Registered, At
  <2> QED BY <1>0, <1>1, <2>1, <2>2, AnsweredFrame
<1>2. th' = th => NoneDiscovers
  BY DEF NoneDiscovers
<1>3. ASSUME NEW t \in Threads, NEW x, x.pc # "discovering",
             th' = [th EXCEPT ![t] = x]
      PROVE  NoneDiscovers
  BY <1>0, <1>3 DEF NoneDiscovers
<1>4. ASSUME NEW pc, pc # "discovering", Goto("api", pc)
      PROVE  NoneDiscovers
  BY <1>0, <1>4 DEF Goto, NoneDiscovers, Thread
<1>5. ASSUME NEW t \in Threads, Return(t)
      PROVE  NoneDiscovers
  BY <1>3, <1>5 DEF Return, Idle
<1>6. CASE HandlerStep
  <2>1. /\ UNCHANGED <<processes, proc, doomed, router>>
        /\ th["api"].pc \notin {"gwrecord", "gwundo", "gwprev", "stopgw"}
    BY <1>6 DEF HandlerStep, UpdateWrite, DeleteWrite, SyncLock, SyncCall,
       SyncWrite, SyncErrorWrite, CleanupLock, CleanupCall, SaveMapping, At
  <2>2. CASE SaveMapping
    <3> DEFINE row == SetServiceMapping(rows[th["api"].svc], th["api"].mapping)
               next == IF row.gw = "none" THEN "sync" ELSE "gwadd"
               rec == [th["api"] EXCEPT !.copy = row, !.pc = next]
    <3>1. CASE Return("api")
      BY <1>0, <1>1, <1>5, <2>1, <3>1
    <3>2. CASE th' = [th EXCEPT !["api"].copy = row, !["api"].pc = next]
      <4>1. th' = [th EXCEPT !["api"] = rec]
        BY <1>0, <3>2
      <4>2. rec.pc # "discovering"
        BY <1>0 DEF Thread
      <4> HIDE DEF rec
      <4> QED BY <1>0, <1>1, <1>3, <2>1, <4>1, <4>2
    <3> QED BY <2>2, <3>1, <3>2 DEF SaveMapping
  <2>3. CASE ~SaveMapping
    <3>1. NoneDiscovers
      BY <1>0, <1>4, <1>5, <1>6, <2>3
         DEF HandlerStep, UpdateWrite, DeleteWrite, SyncLock, SyncCall,
             SyncWrite, SyncErrorWrite, SyncError, CleanupLock, CleanupCall
    <3> QED BY <1>1, <2>1, <3>1
  <2> QED BY <2>2, <2>3
<1>7. ASSUME NEW t \in Threads, StartFails(t)
      PROVE  WaitersKnown' /\ AllAnswered'
  <2>1. /\ UNCHANGED <<processes, proc, doomed, router>> /\ Return(t)
        /\ th[t].pc \notin {"gwrecord", "gwundo", "gwprev", "stopgw"}
    BY <1>7 DEF StartFails, At
  <2>2. \/ th'["api"] = th["api"]
        \/ th["api"].pc \notin {"gwrecord", "gwundo", "gwprev", "stopgw"}
    BY <1>0, <2>1 DEF Return
  <2> QED BY <1>1, <1>5, <2>1, <2>2
<1>8. ASSUME NEW s \in Services, BeginRequest(s), ~HandleStop(s)
      PROVE  WaitersKnown' /\ AllAnswered'
  <2>1. UNCHANGED <<processes, proc, doomed, router>> /\ th["api"].pc = "idle"
    BY <1>8 DEF BeginRequest, HandleCreate, HandleUpdate, HandleDelete,
       HandleStart, HandleSync, HandleCleanup, At
  <2>2. NoneDiscovers
    <3>1. ASSUME NEW pc \in {"update", "delete", "validate", "sync", "cleanup"},
                 NEW copy, BeginHandler(s, pc, copy)
          PROVE  NoneDiscovers
      <4>1. /\ th'["api"].pc # "discovering"
            /\ \A t \in Threads \ {"api"} : th'[t] = th[t]
        BY <1>0, <3>1 DEF BeginHandler, Idle
      <4> QED BY <4>1 DEF NoneDiscovers
    <3> QED BY <1>2, <1>8, <3>1 DEF BeginRequest, HandleCreate, HandleUpdate,
       HandleDelete, HandleStart, HandleSync, HandleCleanup
  <2> QED BY <1>1, <2>1, <2>2
<1>9. ASSUME NEW s \in Services, RestoreNext(s)
      PROVE  WaitersKnown' /\ AllAnswered'
  <2>1. NoneDiscovers /\ th'["api"] = th["api"]
    <3>1. /\ th'["restore"].pc # "discovering"
          /\ \A t \in Threads \ {"restore"} : th'[t] = th[t]
      BY <1>0, <1>9 DEF RestoreNext, Idle
    <3> QED BY <1>0, <3>1 DEF NoneDiscovers
  <2> QED BY <1>1, <1>9, <2>1 DEF RestoreNext
<1>10. ASSUME NEW c \in callbacks, HandleMapping(c)
       PROVE  WaitersKnown' /\ AllAnswered'
  <2>1. NoneDiscovers /\ th["api"].pc = "idle"
    <3>1. /\ th["api"].pc = "idle" /\ th'["api"].pc # "discovering"
          /\ \A t \in Threads \ {"api"} : th'[t] = th[t]
      BY <1>0, <1>10 DEF HandleMapping, Idle, At
    <3> QED BY <3>1 DEF NoneDiscovers
  <2> QED BY <1>1, <1>10, <2>1 DEF HandleMapping
<1>11. CASE FirewallReload
  BY <1>1, <1>2, <1>11 DEF FirewallReload
<1>12. ASSUME NEW p \in Pids, NEW m \in Mappings, NatmapEvent(p, m)
       PROVE  WaitersKnown' /\ AllAnswered'
  BY <1>1, <1>2, <1>12 DEF NatmapEvent, engineVars
<1>13. CASE RestoreSnapshot
  BY <1>1, <1>2, <1>13 DEF RestoreSnapshot, engineVars
<1> QED BY <1>6, <1>7, <1>8, <1>9, <1>10, <1>11, <1>12, <1>13

\* While the program runs for the first time, nothing it has put on a gateway
\* that answers is forgotten: every entry is the record of a registered process,
\* or somebody is about to remove it, or the call that added it is in progress.
\* (A renewal after the removal, a removal the gateway refuses and a crash do
\* leave entries behind: hence the hypotheses and boots = 1.)
THEOREM EntriesAnsweredFor ==
    ASSUME GatewayModes \subseteq Unattended, ~RouterFaults
    PROVE  Spec => [](boots = 1 => GatewayEntriesAnsweredFor)
<1> DEFINE Kept == boots >= 1 /\ (boots = 1 => WaitersKnown /\ AllAnswered)
<1>1. Init => NoLoops /\ Kept
  <2>1. Init => NoLoops
    BY DEF Init, EngineInit, NoLoops, UnbornRow, Idle, Unattended
  <2>2. Init => WaitersKnown /\ AllAnswered
    BY DEF Init, EngineInit, WaitersKnown, AllAnswered, Idle, Unused
  <2>3. Init => boots = 1
    BY DEF Init
  <2> QED BY <2>1, <2>2, <2>3
<1>2. IInv /\ NoLoops /\ [Next]_vars => NoLoops'
  BY NoLoopsStep
<1>3. IInv /\ NoLoops /\ Kept /\ [Next]_vars => Kept'
  <2> SUFFICES ASSUME IInv, NoLoops, Kept, [Next]_vars
               PROVE  Kept'
    OBVIOUS
  <2>0. boots \in Nat
    BY DEF IInv, TypeOK
  <2>1. CASE Restart
    BY <2>0, <2>1 DEF Restart
  <2>2. ~Restart => boots' = boots
    <3> SUFFICES ASSUME ~Restart
                 PROVE  boots' = boots
      OBVIOUS
    <3>1. CASE UNCHANGED vars
      BY <3>1 DEF vars, apiVars
    <3>2. CASE \/ \E t \in Threads : StartStep(t) \/ StartFails(t)
               \/ GatewayStep \/ HandlerStep
               \/ \E p \in Pids : ProcessStep(p)
               \/ \E l \in loops : LoopStep(l)
               \/ FirewallReload /\ UNCHANGED apiVars
      BY <3>2 DEF StartStep, StartFails, GatewayStep, HandlerStep, UpdateWrite,
         DeleteWrite, SyncLock, SyncCall, SyncWrite, SyncErrorWrite,
         CleanupLock, CleanupCall, SaveMapping, ProcessStep, LoopStep, apiVars
    <3>3. CASE \E s \in Services : BeginRequest(s) \/ RestoreNext(s)
      BY <3>3 DEF BeginRequest, HandleCreate, HandleUpdate, HandleDelete,
         HandleStart, HandleStop, HandleSync, HandleCleanup, RestoreNext, apiVars
    <3>4. CASE \E p \in Pids, m \in Mappings : NatmapEvent(p, m)
      BY <3>4 DEF NatmapEvent
    <3>5. CASE \/ \E c \in callbacks : HandleMapping(c)
               \/ Shutdown \/ RestoreSnapshot
      BY <3>5 DEF HandleMapping, Shutdown, RestoreSnapshot
    <3> QED BY <3>1, <3>2, <3>3, <3>4, <3>5 DEF Next
  <2>3. CASE boots = 1 /\ ~Restart
    <3>1. WaitersKnown /\ AllAnswered
      BY <2>3
    <3>2. WaitersKnown' /\ AllAnswered'
      <4>1. CASE UNCHANGED vars
        BY <3>1, <4>1 DEF vars, engineVars, WaitersKnown, AllAnswered, Answered,
           Responsible, Registered, ApplyState, At
      <4>2. CASE \E t \in Threads : StartStep(t)
        BY <3>1, <4>2, StartStepWaiters, StartStepAnswered
      <4>3. CASE GatewayStep
        BY <3>1, <4>3, GatewayStepAnswered
      <4>4. CASE \E p \in Pids : ProcessStep(p)
        BY <3>1, <4>4, ProcessStepAnswered
      <4>5. CASE \E s \in Services : HandleStop(s)
        BY <3>1, <4>5, StopAnswered DEF HandleStop
      <4>6. CASE Shutdown
        BY <3>1, <4>6, ShutdownAnswered
      <4>7. ~\E l \in loops : LoopStep(l)
        BY DEF NoLoops
      <4> QED
        BY <2>3, <3>1, <4>1, <4>2, <4>3, <4>4, <4>5, <4>6, <4>7, QuietStepAnswered
           DEF Next
    <3> QED BY <2>2, <2>3, <3>2
  <2>4. CASE boots # 1 /\ ~Restart
    BY <2>2, <2>4
  <2> QED BY <2>1, <2>3, <2>4
<1>4. Kept => (boots = 1 => GatewayEntriesAnsweredFor)
  <2>1. AllAnswered => GatewayEntriesAnsweredFor
    BY DEF AllAnswered, Answered, Responsible, GatewayEntriesAnsweredFor,
       EntryAnsweredFor
  <2> QED BY <2>1
<1> HIDE DEF Kept
<1> QED BY <1>1, <1>2, <1>3, <1>4, Invariance, PTL DEF Spec

-------------------------------------------------------------------------------
(* The two locks that are held across network calls. *)

HoldsMu == {"token", "tokencall"}

HoldsPmu == {"tokencall", "syncing", "cleaning"}

\* A lock is held by the caller that is inside its critical section, and by
\* nobody else.
LocksHeld ==
    \A t \in Threads : /\ mu = t <=> th[t].pc \in HoldsMu
                       /\ pmu = t <=> th[t].pc \in HoldsPmu

\* t cannot go on before u has released a lock.  (At "idle" it is the next
\* request that asks for the process map.)
WaitsFor(t, u) ==
    \/ th[t].pc \in {"idle", "register", "gwrecord"} /\ mu = u
    \/ th[t].pc \in {"token", "sync", "cleanup"} /\ pmu = u

NoCircularWait ==
    \A t, u \in Threads : WaitsFor(t, u) => t # u /\ ~WaitsFor(u, t)

\* A caller outside of the critical sections goes to a place outside of them.
LEMMA LocksElsewhere ==
    ASSUME th \in [Threads -> Thread], LocksHeld, UNCHANGED <<mu, pmu>>,
           NEW t \in Threads, NEW x, th' = [th EXCEPT ![t] = x],
           th[t].pc \notin HoldsMu \cup HoldsPmu, x.pc \notin HoldsMu \cup HoldsPmu
    PROVE  LocksHeld'
BY DEF LocksHeld

\* The same for a step that moves the program counter only.
LEMMA LocksGo ==
    ASSUME th \in [Threads -> Thread], LocksHeld, UNCHANGED <<mu, pmu>>,
           NEW t \in Threads, NEW pc, Goto(t, pc),
           th[t].pc \notin HoldsMu \cup HoldsPmu, pc \notin HoldsMu \cup HoldsPmu
    PROVE  LocksHeld'
BY DEF LocksHeld, Goto, Thread

\* The same for a call that ends.
LEMMA LocksReturn ==
    ASSUME th \in [Threads -> Thread], LocksHeld, UNCHANGED <<mu, pmu>>,
           NEW t \in Threads, Return(t), th[t].pc \notin HoldsMu \cup HoldsPmu
    PROVE  LocksHeld'
BY LocksElsewhere DEF Return, Idle, HoldsMu, HoldsPmu

\* startTunnel takes both locks and releases both, whatever comes of its calls.
LEMMA StartStepLocks ==
    ASSUME IInv, LocksHeld, NEW t \in Threads, StartStep(t)
    PROVE  LocksHeld'
<1> USE DEF HoldsMu, HoldsPmu
<1>0. /\ th \in [Threads -> Thread] /\ th[t] \in Thread /\ None \notin Threads
  BY NoneAssumption DEF IInv, TypeOK, EngineTypeOK, Threads
<1>1. ASSUME NEW pc, Goto(t, pc)
      PROVE  th'[t].pc = pc /\ \A u \in Threads \ {t} : th'[u] = th[u]
  BY <1>0, <1>1 DEF Goto, Thread
<1>2. Return(t) => /\ th'[t].pc = "idle"
                   /\ \A u \in Threads \ {t} : th'[u] = th[u]
  BY <1>0 DEF Return, Idle
<1>3. CASE ValidateTarget(t) \/ AlreadyRunning(t) \/ SpawnFails(t)
  BY <1>0, <1>3, LocksGo, LocksReturn
     DEF ValidateTarget, AlreadyRunning, SpawnFails, At
<1>4. ASSUME NEW p \in Pids, StartNatmap(t, p)
      PROVE  LocksHeld'
  <2> DEFINE x == [th[t] EXCEPT !.pc = "discovering", !.pid = p]
  <2>1. th' = [th EXCEPT ![t] = x]
    BY <1>0, <1>4 DEF StartNatmap
  <2>2. x.pc = "discovering"
    BY <1>0 DEF Thread
  <2> HIDE DEF x
  <2> QED BY <1>0, <1>4, <2>1, <2>2, LocksElsewhere DEF StartNatmap, At
<1>5. CASE StartNatmapWrite(t)
  BY <1>0, <1>5, LocksReturn DEF StartNatmapWrite, At
<1>6. ASSUME NEW p \in Pids, StartQuickTunnel(t, p)
      PROVE  LocksHeld'
  BY <1>0, <1>6, LocksGo, LocksReturn DEF StartQuickTunnel, At
<1>7. CASE StartTunnelLock(t)
  <2>1. /\ th[t].pc = "register" /\ th'[t].pc = "token" /\ mu = None /\ mu' = t
        /\ pmu' = pmu /\ \A u \in Threads \ {t} : th'[u] = th[u]
    BY <1>1, <1>7 DEF StartTunnelLock, At
  <2> QED BY <1>0, <2>1 DEF LocksHeld
<1>8. CASE TunnelTokenCall(t)
  <2>1. /\ th[t].pc = "token" /\ th'[t].pc = "tokencall" /\ pmu = None /\ pmu' = t
        /\ mu' = mu /\ \A u \in Threads \ {t} : th'[u] = th[u]
    BY <1>1, <1>8 DEF TunnelTokenCall, At
  <2> QED BY <1>0, <2>1 DEF LocksHeld
<1>9. CASE TunnelTokenFails(t) \/ \E p \in Pids : StartTunnel(t, p)
  <2>1. /\ th[t].pc = "tokencall" /\ th'[t].pc \in {"startfail", "idle"}
        /\ mu' = None /\ pmu' = None /\ \A u \in Threads \ {t} : th'[u] = th[u]
    BY <1>1, <1>2, <1>9 DEF TunnelTokenFails, StartTunnel, At
  <2> QED BY <1>0, <2>1 DEF LocksHeld
<1> QED BY <1>3, <1>4, <1>5, <1>6, <1>7, <1>8, <1>9 DEF StartStep

\* The handlers that publish take Publisher.mu for one call and release it.
LEMMA HandlerStepLocks ==
    ASSUME IInv, LocksHeld, HandlerStep
    PROVE  LocksHeld'
<1> USE DEF HoldsMu, HoldsPmu
<1>0. /\ th \in [Threads -> Thread] /\ "api" \in Threads /\ th["api"] \in Thread
      /\ None \notin Threads
  BY NoneAssumption DEF IInv, TypeOK, EngineTypeOK, Threads
<1>1. ASSUME NEW pc, Goto("api", pc)
      PROVE  /\ th'["api"].pc = pc
             /\ \A u \in Threads \ {"api"} : th'[u] = th[u]
  BY <1>0, <1>1 DEF Goto, Thread
<1>2. Return("api") => /\ th'["api"].pc = "idle"
                       /\ \A u \in Threads \ {"api"} : th'[u] = th[u]
  BY <1>0 DEF Return, Idle
<1>3. CASE UpdateWrite \/ DeleteWrite \/ SyncWrite \/ SyncErrorWrite
  BY <1>0, <1>3, LocksGo, LocksReturn
     DEF UpdateWrite, DeleteWrite, SyncWrite, SyncErrorWrite, SyncError, At
<1>4. CASE SyncLock \/ CleanupLock
  <2>1. /\ th["api"].pc \in {"sync", "cleanup"}
        /\ th'["api"].pc \in {"syncing", "cleaning"} /\ pmu = None /\ pmu' = "api"
        /\ mu' = mu /\ \A u \in Threads \ {"api"} : th'[u] = th[u]
    BY <1>1, <1>4 DEF SyncLock, CleanupLock, At
  <2> QED BY <1>0, <2>1 DEF LocksHeld
<1>5. CASE SyncCall \/ CleanupCall
  <2>1. /\ th["api"].pc \in {"syncing", "cleaning"}
        /\ th'["api"].pc \in {"syncwrite", "syncerr", "idle"} /\ pmu' = None
        /\ mu' = mu /\ \A u \in Threads \ {"api"} : th'[u] = th[u]
    BY <1>1, <1>2, <1>5 DEF SyncCall, SyncError, CleanupCall, At
  <2> QED BY <1>0, <2>1 DEF LocksHeld
<1>6. CASE SaveMapping
  <2> DEFINE row == SetServiceMapping(rows[th["api"].svc], th["api"].mapping)
             next == IF row.gw = "none" THEN "sync" ELSE "gwadd"
             rec == [th["api"] EXCEPT !.copy = row, !.pc = next]
  <2>0. th["api"].pc = "mapping" /\ UNCHANGED <<mu, pmu>>
    BY <1>6 DEF SaveMapping, At
  <2>1. CASE Return("api")
    BY <1>0, <2>0, <2>1, LocksReturn
  <2>2. CASE th' = [th EXCEPT !["api"].copy = row, !["api"].pc = next]
    <3>1. th' = [th EXCEPT !["api"] = rec]
      BY <1>0, <2>2
    <3>2. rec.pc \in {"sync", "gwadd"}
      BY <1>0 DEF Thread
    <3> HIDE DEF rec
    <3> QED BY <1>0, <2>0, <3>1, <3>2, LocksElsewhere
  <2> QED BY <1>6, <2>1, <2>2 DEF SaveMapping
<1> QED BY <1>3, <1>4, <1>5, <1>6 DEF HandlerStep

\* The steps of ApplyGatewayMapping and Stop wait for a lock at most.
LEMMA GatewayStepLocks ==
    ASSUME IInv, LocksHeld, GatewayStep
    PROVE  LocksHeld'
<1> USE DEF HoldsMu, HoldsPmu
<1>0. /\ th \in [Threads -> Thread] /\ "api" \in Threads /\ th["api"] \in Thread
      /\ UNCHANGED <<mu, pmu>>
      /\ th["api"].pc \notin HoldsMu \cup HoldsPmu
  BY DEF IInv, TypeOK, EngineTypeOK, Threads, GatewayStep, StopRemovesGateway,
     GatewayAdd, GatewayInsertRule, GatewayRecord, GatewayUndo,
     RemovePreviousGateway, GatewayReady, GatewayFails, At
<1>1. ASSUME NEW pc, pc \notin HoldsMu \cup HoldsPmu, Goto("api", pc)
      PROVE  LocksHeld'
  BY <1>0, <1>1, LocksGo
<1>2. Return("api") => LocksHeld'
  BY <1>0, LocksReturn
<1>3. CASE GatewayRecord
  <2> DEFINE P == processes[th["api"].svc]
             next == IF proc[P].gw = None THEN "gwready" ELSE "gwprev"
             rec == [th["api"] EXCEPT !.pid = P, !.gw = proc[P].gw, !.pc = next]
  <2>1. CASE Goto("api", "gwundo")
    BY <1>1, <2>1
  <2>2. CASE th' = [th EXCEPT !["api"].pid = P, !["api"].gw = proc[P].gw,
                              !["api"].pc = next]
    <3>1. th' = [th EXCEPT !["api"] = rec]
      BY <1>0, <2>2
    <3>2. rec.pc \in {"gwready", "gwprev"}
      BY <1>0 DEF Thread
    <3> HIDE DEF rec
    <3> QED BY <1>0, <3>1, <3>2, LocksElsewhere
  <2> QED BY <1>3, <2>1, <2>2 DEF GatewayRecord
<1>4. CASE GatewayReady
  <2> DEFINE rec == [th["api"] EXCEPT !.pc = "sync", !.pid = None, !.gw = None]
  <2>1. CASE th' = [th EXCEPT !["api"].pc = "sync", !["api"].pid = None,
                              !["api"].gw = None]
    <3>1. th' = [th EXCEPT !["api"] = rec]
      BY <1>0, <2>1
    <3>2. rec.pc = "sync"
      BY <1>0 DEF Thread
    <3> HIDE DEF rec
    <3> QED BY <1>0, <3>1, <3>2, LocksElsewhere
  <2> QED BY <1>2, <1>4, <2>1 DEF GatewayReady
<1>5. CASE ~GatewayRecord /\ ~GatewayReady
  BY <1>1, <1>2, <1>5 DEF GatewayStep, StopRemovesGateway, GatewayAdd,
     GatewayInsertRule, GatewayUndo, RemovePreviousGateway, GatewayFails
<1> QED BY <1>3, <1>4, <1>5

\* The other steps neither take nor release a lock, except for a restart.
LEMMA QuietStepLocks ==
    ASSUME IInv, LocksHeld,
           \/ \E t \in Threads : StartFails(t)
           \/ \E s \in Services : BeginRequest(s) \/ RestoreNext(s)
           \/ \E p \in Pids : ProcessStep(p)
           \/ \E p \in Pids, m \in Mappings : NatmapEvent(p, m)
           \/ \E c \in callbacks : HandleMapping(c)
           \/ \E l \in loops : LoopStep(l)
           \/ FirewallReload
           \/ RestoreSnapshot
           \/ Shutdown
           \/ Restart
    PROVE  LocksHeld'
<1> USE DEF HoldsMu, HoldsPmu
<1>0. /\ th \in [Threads -> Thread] /\ "api" \in Threads /\ "restore" \in Threads
      /\ None \notin Threads
  BY NoneAssumption DEF IInv, TypeOK, EngineTypeOK, Threads
<1>1. UNCHANGED <<th, mu, pmu>> => LocksHeld'
  BY DEF LocksHeld
<1>2. ASSUME NEW t \in Threads, StartFails(t)
      PROVE  LocksHeld'
  BY <1>0, <1>2, LocksReturn DEF StartFails, At
<1>3. ASSUME NEW t \in Threads, th[t].pc = "idle", UNCHANGED <<mu, pmu>>,
             \A u \in Threads \ {t} : th'[u] = th[u],
             th'[t].pc \notin HoldsMu \cup HoldsPmu
      PROVE  LocksHeld'
  BY <1>3 DEF LocksHeld
<1>4. ASSUME NEW s \in Services, BeginRequest(s)
      PROVE  LocksHeld'
  <2>1. UNCHANGED <<mu, pmu>> /\ th["api"].pc = "idle"
    BY <1>4 DEF BeginRequest, HandleCreate, HandleUpdate, HandleDelete,
       HandleStart, HandleStop, Stop, HandleSync, HandleCleanup, At
  <2>2. ASSUME NEW pc \in {"update", "delete", "validate", "sync", "cleanup"},
               NEW copy, BeginHandler(s, pc, copy)
        PROVE  LocksHeld'
    <3>1. /\ th'["api"].pc = pc
          /\ \A u \in Threads \ {"api"} : th'[u] = th[u]
      BY <1>0, <2>2 DEF BeginHandler, Idle
    <3> QED BY <1>0, <1>3, <2>1, <3>1
  <2>3. CASE HandleStop(s)
    <3>1. CASE th' = th
      BY <1>1, <2>1, <3>1
    <3>2. CASE th' # th
      <4>1. /\ th'["api"].pc = "stopgw"
            /\ \A u \in Threads \ {"api"} : th'[u] = th[u]
        BY <1>0, <2>3, <3>2 DEF HandleStop, Stop, Idle
      <4> QED BY <1>0, <1>3, <2>1, <4>1
    <3> QED BY <3>1, <3>2
  <2>4. CASE ~HandleStop(s)
    BY <1>1, <1>4, <2>1, <2>2, <2>4 DEF BeginRequest, HandleCreate, HandleUpdate,
       HandleDelete, HandleStart, HandleSync, HandleCleanup
  <2> QED BY <2>3, <2>4
<1>5. ASSUME NEW s \in Services, RestoreNext(s)
      PROVE  LocksHeld'
  <2>1. /\ th["restore"].pc = "idle" /\ th'["restore"].pc = "validate"
        /\ \A u \in Threads \ {"restore"} : th'[u] = th[u]
        /\ UNCHANGED <<mu, pmu>>
    BY <1>0, <1>5 DEF RestoreNext, Idle, At
  <2> QED BY <1>0, <1>3, <2>1
<1>6. ASSUME NEW c \in callbacks, HandleMapping(c)
      PROVE  LocksHeld'
  <2>1. th["api"].pc = "idle" /\ UNCHANGED <<mu, pmu>>
    BY <1>6 DEF HandleMapping, At
  <2>2. CASE th' = th
    BY <1>1, <2>1, <2>2
  <2>3. CASE th' # th
    <3>1. th' = [th EXCEPT !["api"] = [Idle EXCEPT !.pc = "mapping",
                                       !.svc = c.svc, !.mapping = c.mapping]]
      BY <1>6, <2>3 DEF HandleMapping
    <3>2. /\ th'["api"].pc = "mapping"
          /\ \A u \in Threads \ {"api"} : th'[u] = th[u]
      BY <1>0, <3>1 DEF Idle
    <3> QED BY <1>0, <1>3, <2>1, <3>2
  <2> QED BY <2>2, <2>3
<1>7. ASSUME NEW p \in Pids, ProcessStep(p)
      PROVE  LocksHeld'
  BY <1>1, <1>7 DEF ProcessStep, ProcessExits, QuickTunnelURL, WaitReturns,
     WaitRemovesGateway, StopAllCancels
<1>8. ASSUME NEW l \in loops, LoopStep(l)
      PROVE  LocksHeld'
  BY <1>1, <1>8 DEF LoopStep, LoopEnds, LoopTicks, RenewNATPMP, ReassertPrunes,
     ReassertInserts, LoopFails
<1>9. ASSUME NEW p \in Pids, NEW m \in Mappings, NatmapEvent(p, m)
      PROVE  LocksHeld'
  BY <1>1, <1>9 DEF NatmapEvent, engineVars
<1>10. CASE RestoreSnapshot
  BY <1>1, <1>10 DEF RestoreSnapshot, engineVars
<1>11. CASE FirewallReload \/ Shutdown
  BY <1>1, <1>11 DEF FirewallReload, Shutdown, StopAll
<1>12. CASE Restart
  BY <1>0, <1>12 DEF Restart, LocksHeld, Idle
<1> QED BY <1>2, <1>4, <1>5, <1>6, <1>7, <1>8, <1>9, <1>10, <1>11, <1>12

\* No request, mapping goroutine or restore step ends with Manager.mu or
\* Publisher.mu still held, and no two callers wait for each other's lock.
THEOREM LocksInOrder == Spec => [](LocksHeld /\ NoCircularWait)
<1>1. Init => LocksHeld
  BY NoneAssumption DEF Init, EngineInit, LocksHeld, Threads, Idle, HoldsMu,
     HoldsPmu
<1>2. IInv /\ LocksHeld /\ [Next]_vars => LocksHeld'
  <2> SUFFICES ASSUME IInv, LocksHeld, [Next]_vars
               PROVE  LocksHeld'
    OBVIOUS
  <2>1. CASE UNCHANGED vars
    BY <2>1 DEF vars, engineVars, LocksHeld
  <2> QED
    BY <2>1, StartStepLocks, HandlerStepLocks, GatewayStepLocks, QuietStepLocks
       DEF Next
<1>3. LocksHeld => NoCircularWait
  BY DEF LocksHeld, NoCircularWait, WaitsFor, HoldsMu, HoldsPmu
<1> QED BY <1>1, <1>2, <1>3, Invariance, PTL DEF Spec
===============================================================================

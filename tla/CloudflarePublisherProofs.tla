---------------------- MODULE CloudflarePublisherProofs ----------------------
(***************************************************************************)
(* Proofs about CloudflarePublisher for every value of its constants: it   *)
(* implements PublisherContract; it touches its own objects only; none of  *)
(* them is without a row; a cleanup that succeeds leaves nothing; what is  *)
(* published is complete; what is refused is not of its own making; and its *)
(* variables have their types.                                             *)
(***************************************************************************)
EXTENDS CloudflarePublisher, FiniteSetTheorems, TLAPS

Ops == {"sync", "cleanup", "access", "unprotect"}

\* A call that creates or records something is a Sync or an Access change, and
\* only the latter is about an application.
CallOK ==
    /\ call = [op |-> call.op, pc |-> call.pc, kind |-> call.kind, id |-> call.id,
                made |-> call.made, todo |-> call.todo]
    /\ call.pc # "idle" => call.op \in Ops
    /\ call.pc \in {"create", "save", "undo"} =>
        /\ call.op \in {"sync", "access"}
        /\ call.op = "access" <=> call.kind = "access"

\* A Sync that need not write a row any more has one.
Underway ==
    \/ call.pc \in {"configure", "subdomain"}
    \/ mode = "tunnel" /\ call.pc = "entry"
    \/ mode = "warp" /\ call.pc = "put"
    \/ mode = "workers" /\ call.pc \in {"worker", "origin", "upload", "keep", "entry"}

Recording == call.op = "sync" /\ Underway => ServiceRows # {}

IInv == CallOK /\ Recording

-------------------------------------------------------------------------------
(* The steps of a call, as the contract sees them. *)

\* A step that goes on with the call takes one into possession, or gives up
\* everything in a cleanup, or is none of the contract's business.
LEMMA Goes ==
    ASSUME call'.op = call.op, mode' = mode, result' = result,
           \/ ServiceRows' = ServiceRows
           \/ call.op = "sync" /\ ServiceRows' # {}
           \/ call.op = "cleanup" /\ (ServiceRows = {} => ServiceRows' = {})
    PROVE  [Contract!Next]_(Contract!vars)
BY DEF Contract!Next, Contract!vars, Contract!Work

\* A call that ends without success.
LEMMA Ends ==
    ASSUME call.op \in Ops, End("none") \/ End("refused") \/ End("stuck"),
           mode' = mode, ServiceRows' = ServiceRows
    PROVE  [Contract!Next]_(Contract!vars)
BY DEF Ops, End, Idle, Contract!Next, Contract!vars, Contract!End, Contract!Ask

\* What End leaves.
LEMMA EndOK ==
    ASSUME NEW r, End(r)
    PROVE  IInv'
BY DEF End, Idle, IInv, CallOK, Recording

\* What Goto, CreateNext and SaveNext leave, and the fields they do not touch.
LEMMA MovesCall ==
    ASSUME CallOK, NEW pc, NEW kind, NEW id
    PROVE  /\ Goto(pc) =>
               /\ call' = [op |-> call.op, pc |-> pc, kind |-> call.kind, id |-> call.id,
                           made |-> call.made, todo |-> call.todo]
               /\ result' = result
           /\ CreateNext(kind) =>
               /\ call' = [op |-> call.op, pc |-> "create", kind |-> kind, id |-> call.id,
                           made |-> TRUE, todo |-> call.todo]
               /\ result' = result
           /\ SaveNext(kind, id) =>
               /\ call' = [op |-> call.op, pc |-> "save", kind |-> kind, id |-> id,
                           made |-> call.made, todo |-> call.todo]
               /\ result' = result
BY DEF CallOK, Goto, CreateNext, SaveNext

-------------------------------------------------------------------------------
(* Steps shared by the publications *)

Step == IInv' /\ [Contract!Next]_(Contract!vars)

\* A step that ends the call and leaves the table alone.
LEMMA FailStep ==
    ASSUME IInv, call.pc # "idle", NEW keys, UNCHANGED <<service, rows>>,
           Fail("none", keys) \/ Fail("refused", keys) \/ Fail("stuck", keys)
    PROVE  Step
<1>1. call.op \in Ops
  BY DEF IInv, CallOK
<1>2. End("none") \/ End("refused") \/ End("stuck")
  BY DEF Fail
<1>3. mode' = mode /\ ServiceRows' = ServiceRows
  BY DEF service, ServiceRows
<1> QED BY <1>1, <1>2, <1>3, EndOK, Ends DEF Step

\* A step that goes on with the call.
LEMMA GoOn ==
    ASSUME IInv, call.pc # "idle", mode' = mode, result' = result,
           NEW pc, NEW kind, NEW id, NEW made, NEW todo,
           call' = [op |-> call.op, pc |-> pc, kind |-> kind, id |-> id,
                    made |-> made, todo |-> todo],
           pc \in {"create", "save", "undo"} =>
               call.op \in {"sync", "access"} /\ (call.op = "access" <=> kind = "access"),
           Recording',
           \/ ServiceRows' = ServiceRows
           \/ call.op = "sync" /\ ServiceRows' # {}
           \/ call.op = "cleanup" /\ (ServiceRows = {} => ServiceRows' = {})
    PROVE  Step
<1>1. call'.op = call.op /\ call'.pc = pc /\ call'.kind = kind /\ call'.id = id
      /\ call'.made = made /\ call'.todo = todo
  OBVIOUS
<1>2. CallOK'
  BY <1>1 DEF IInv, CallOK
<1>3. [Contract!Next]_(Contract!vars)
  BY <1>1, Goes
<1> QED BY <1>2, <1>3 DEF Step, IInv

\* Goto, when the call leaves the table alone.
LEMMA GotoStep ==
    ASSUME IInv, call.pc # "idle", UNCHANGED <<service, rows>>, NEW pc, Goto(pc),
           pc \notin {"create", "save", "undo"} \/ pc = call.pc \/ call.pc = "save",
           \/ call.op # "sync"
           \/ ~ \/ pc \in {"configure", "subdomain"}
                \/ mode = "tunnel" /\ pc = "entry"
                \/ mode = "warp" /\ pc = "put"
                \/ mode = "workers" /\ pc \in {"worker", "origin", "upload", "keep", "entry"}
           \/ Underway
           \/ ServiceRows # {}
    PROVE  Step
<1>1. /\ call' = [op |-> call.op, pc |-> pc, kind |-> call.kind, id |-> call.id,
                  made |-> call.made, todo |-> call.todo]
      /\ result' = result
  BY MovesCall DEF IInv
<1>2. mode' = mode /\ ServiceRows' = ServiceRows
  BY DEF service, ServiceRows
<1>3. Recording'
  BY <1>1, <1>2 DEF IInv, Recording, Underway
<1>4. pc \in {"create", "save", "undo"} =>
        call.op \in {"sync", "access"} /\ (call.op = "access" <=> call.kind = "access")
  BY DEF IInv, CallOK
<1> QED BY <1>1, <1>2, <1>3, <1>4, GoOn

\* CreateNext and SaveNext.
LEMMA KindStep ==
    ASSUME IInv, call.pc # "idle", UNCHANGED <<service, rows>>, NEW kind, NEW id,
           CreateNext(kind) \/ SaveNext(kind, id),
           call.op \in {"sync", "access"}, call.op = "access" <=> kind = "access"
    PROVE  Step
<1>1. mode' = mode /\ ServiceRows' = ServiceRows
  BY DEF service, ServiceRows
<1>2. CASE CreateNext(kind)
  <2>1. /\ call' = [op |-> call.op, pc |-> "create", kind |-> kind, id |-> call.id,
                    made |-> TRUE, todo |-> call.todo]
        /\ result' = result
    BY <1>2, MovesCall DEF IInv
  <2>2. Recording'
    BY <2>1 DEF Recording, Underway
  <2> QED BY <1>1, <2>1, <2>2, GoOn
<1>3. CASE SaveNext(kind, id)
  <2>1. /\ call' = [op |-> call.op, pc |-> "save", kind |-> kind, id |-> id,
                    made |-> call.made, todo |-> call.todo]
        /\ result' = result
    BY <1>3, MovesCall DEF IInv
  <2>2. Recording'
    BY <2>1 DEF Recording, Underway
  <2> QED BY <1>1, <2>1, <2>2, GoOn
<1> QED BY <1>2, <1>3

\* Sync succeeds: a row is there.
LEMMA SyncedStep ==
    ASSUME IInv, call.op = "sync", End("synced"), UNCHANGED mode, ServiceRows' # {}
    PROVE  Step
BY EndOK DEF End, Idle, Step, Contract!Next, Contract!vars, Contract!End

-------------------------------------------------------------------------------
(* Calls that begin, end early or change nothing but the service *)

LEMMA IdleCall ==
    ASSUME call = Idle
    PROVE  call.op = "none" /\ call.pc = "idle"
BY DEF Idle

LEMMA UpdateServiceStep ==
    ASSUME IInv, NEW m \in Modes \cup {"direct"}, UpdateService(m)
    PROVE  Step
BY IdleCall DEF UpdateService, Step, IInv, CallOK, Recording, Underway, ServiceRows,
   Contract!Next, Contract!vars, Contract!Change

LEMMA DeleteServiceStep ==
    ASSUME IInv, DeleteService
    PROVE  Step
BY IdleCall DEF DeleteService, Step, IInv, CallOK, Recording, Underway, ServiceRows,
   Contract!Next, Contract!vars, Contract!Change

LEMMA RemapStep ==
    ASSUME IInv, NEW x \in Addresses, Remap(x)
    PROVE  Step
BY IdleCall DEF Remap, Step, IInv, CallOK, Recording, Underway, ServiceRows,
   Contract!Next, Contract!vars, Contract!Ask

LEMMA EditStep ==
    ASSUME IInv, Edit
    PROVE  Step
BY IdleCall DEF Edit, Step, IInv, CallOK, Recording, Underway, ServiceRows,
   Contract!Next, Contract!vars, Contract!Ask

\* mode AccountModes are no "deleted" service.
LEMMA BeginStep ==
    ASSUME IInv, NEW op \in Ops, NEW pc, NEW todo, Begin(op, pc, todo),
           pc \notin {"idle", "create", "save", "undo"},
           op = "sync" => pc = "plan",
           op \in {"sync", "cleanup"} => mode # "deleted"
    PROVE  Step
<1>1. /\ call' = [op |-> op, pc |-> pc, kind |-> "dns", id |-> None,
                  made |-> FALSE, todo |-> todo]
      /\ call.op = "none"
      /\ result' = "none"
      /\ mode' = mode
      /\ ServiceRows' = ServiceRows
  BY IdleCall DEF Begin, Idle, service, ServiceRows
<1>2. IInv'
  BY <1>1 DEF IInv, CallOK, Recording, Underway
<1>3. [Contract!Next]_(Contract!vars)
  BY <1>1 DEF Ops, Contract!Next, Contract!vars, Contract!Begin, Contract!Ask
<1> QED BY <1>2, <1>3 DEF Step

LEMMA BeginningStep ==
    ASSUME IInv, Sync \/ BeginCleanup \/ SaveAccess \/ DeleteAccess
    PROVE  Step
<1>1. mode \in AccountModes => mode # "deleted"
  BY DEF AccountModes
<1>2. CASE Sync
  BY <1>1, <1>2, BeginStep DEF Sync, Ops
<1>3. CASE BeginCleanup
  BY <1>1, <1>3, BeginStep DEF BeginCleanup, Ops
<1>4. CASE SaveAccess
  BY <1>4, BeginStep DEF SaveAccess, Ops
<1>5. CASE DeleteAccess
  BY <1>5, BeginStep DEF DeleteAccess, Ops
<1> QED BY <1>2, <1>3, <1>4, <1>5

\* The call is broken off: it has not succeeded.
LEMMA BrokenOff ==
    ASSUME IInv, call.pc # "idle", call' = Idle, result' = "none", mode' = mode,
           \/ ServiceRows' = ServiceRows
           \/ call.op = "sync" /\ ServiceRows' # {}
    PROVE  Step
<1>1. call.op \in Ops
  BY DEF IInv, CallOK
<1>2. IInv'
  BY EndOK DEF End, IInv, CallOK, Recording, Idle
<1>3. [Contract!Next]_(Contract!vars)
  BY <1>1 DEF Ops, Idle, Contract!Next, Contract!vars, Contract!End, Contract!Ask
<1> QED BY <1>2, <1>3 DEF Step

LEMMA RestartStep ==
    ASSUME IInv, Restart
    PROVE  Step
<1>1. CASE call.pc # "idle"
  BY <1>1, BrokenOff DEF Restart, ServiceRows
<1>2. CASE call.pc = "idle"
  <2>1. IInv'
    BY DEF Restart, Idle, IInv, CallOK, Recording
  <2>2. [Contract!Next]_(Contract!vars)
    BY DEF Restart, Idle, ServiceRows, Contract!Next, Contract!vars, Contract!End, Contract!Ask
  <2> QED BY <2>1, <2>2 DEF Step
<1> QED BY <1>1, <1>2

LEMMA CallFailsStep ==
    ASSUME IInv, CallFails
    PROVE  Step
BY FailStep DEF CallFails

-------------------------------------------------------------------------------
(* Requests and the rows that follow them *)

\* POST and the row that follows it.
LEMMA CreateStep ==
    ASSUME IInv, NEW i \in Ids, Create(i)
    PROVE  Step
<1> DEFINE new == New(call.kind, i, IF call.kind = "spectrum" THEN address
                                    ELSE IF call.kind = "private_route" THEN call.id
                                    ELSE None)
<1>1. call.pc = "create" /\ UNCHANGED <<service, rows>>
  BY DEF Create
<1>2. SaveNext(call.kind, i) \/ Fail("none", {Key(new)})
  BY DEF Create, Request
<1>3. CASE Fail("none", {Key(new)})
  BY <1>1, <1>3, FailStep
<1>4. CASE SaveNext(call.kind, i)
  BY <1>1, <1>4, KindStep DEF IInv, CallOK
<1> QED BY <1>2, <1>3, <1>4

\* The row of a publication is a row of the service.
LEMMA SavedNotEmpty ==
    ASSUME NEW kind, NEW id, kind # "access", rows' = Saved(kind, id)
    PROVE  ServiceRows' # {}
<1>1. [kind |-> kind, id |-> id] \in ServiceRows'
  BY DEF Saved, ServiceRows
<1> QED BY <1>1

\* The row of an application is none.
LEMMA AccessRowIsNoServiceRow ==
    ASSUME NEW id, rows' = Saved("access", id)
    PROVE  ServiceRows' = ServiceRows
BY DEF Saved, ServiceRows

LEMMA SaveResourceStep ==
    ASSUME IInv, SaveResource
    PROVE  Step
<1>1. /\ call.pc = "save"
      /\ call.op \in {"sync", "access"}
      /\ call.op = "access" <=> call.kind = "access"
      /\ UNCHANGED <<service, cloud>>
  BY DEF SaveResource, IInv, CallOK
<1>2. \/ rows' = rows /\ (Goto("undo") \/ Fail("none", Held))
      \/ /\ rows' = Saved(call.kind, call.id)
         /\ \/ call.kind = "tunnel" /\ Goto("configure")
            \/ call.kind = "access" /\ Goto("verify")
            \/ call.kind \notin {"tunnel", "access"} /\ End("synced")
  BY DEF SaveResource
<1>3. CASE rows' = rows /\ Fail("none", Held)
  BY <1>1, <1>3, FailStep
<1>4. CASE rows' = rows /\ Goto("undo")
  BY <1>1, <1>4, GotoStep
<1>5. CASE rows' = Saved(call.kind, call.id) /\ call.kind = "access" /\ Goto("verify")
  <2>1. ServiceRows' = ServiceRows
    BY <1>5, AccessRowIsNoServiceRow
  <2>2. /\ call' = [op |-> call.op, pc |-> "verify", kind |-> call.kind, id |-> call.id,
                    made |-> call.made, todo |-> call.todo]
        /\ result' = result
    BY <1>5, MovesCall DEF IInv
  <2>3. Recording'
    BY <2>2 DEF Recording, Underway
  <2> QED BY <1>1, <2>1, <2>2, <2>3, GoOn DEF service
<1>6. CASE rows' = Saved(call.kind, call.id) /\ call.kind = "tunnel" /\ Goto("configure")
  <2>1. ServiceRows' # {}
    BY <1>6, SavedNotEmpty
  <2>2. /\ call' = [op |-> call.op, pc |-> "configure", kind |-> call.kind, id |-> call.id,
                    made |-> call.made, todo |-> call.todo]
        /\ result' = result
    BY <1>6, MovesCall DEF IInv
  <2>3. Recording'
    BY <2>1 DEF Recording
  <2> QED BY <1>1, <1>6, <2>1, <2>2, <2>3, GoOn DEF service
<1>7. CASE /\ rows' = Saved(call.kind, call.id)
           /\ call.kind \notin {"tunnel", "access"}
           /\ End("synced")
  <2>1. ServiceRows' # {}
    BY <1>7, SavedNotEmpty
  <2> QED BY <1>1, <1>7, <2>1, SyncedStep DEF service
<1> QED BY <1>2, <1>3, <1>4, <1>5, <1>6, <1>7

LEMMA UndoStep ==
    ASSUME IInv, Undo
    PROVE  Step
BY FailStep DEF Undo

-------------------------------------------------------------------------------
(* Publications *)

\* What follows the entry record.
LEMMA EntryDoneStep ==
    ASSUME IInv, At("sync", "entry"), UNCHANGED <<service, rows>>, EntryDone
    PROVE  Step
<1>1. call.op = "sync" /\ call.pc = "entry"
  BY DEF At
<1>2. CASE mode = "dns" /\ SaveNext("dns", Derived)
  BY <1>1, <1>2, KindStep
<1>3. CASE mode = "redirect" /\ Goto("origin")
  BY <1>1, <1>3, GotoStep
<1>4. CASE mode \in {"tunnel", "workers"} /\ End("synced")
  <2>1. ServiceRows # {}
    BY <1>1, <1>4 DEF IInv, Recording, Underway
  <2>2. ServiceRows' = ServiceRows
    BY DEF ServiceRows
  <2> QED BY <1>1, <1>4, <2>1, <2>2, SyncedStep DEF service
<1>5. CASE mode = "workers" /\ CreateNext("worker_route")
  BY <1>1, <1>5, KindStep
<1> QED BY <1>2, <1>3, <1>4, <1>5 DEF EntryDone

LEMMA SyncEntryStep ==
    ASSUME IInv, SyncEntry
    PROVE  Step
<1>1. At("sync", "entry") /\ UNCHANGED <<service, rows>>
  BY DEF SyncEntry
<1>2. EntryDone \/ Fail("refused", {}) \/ Fail("none", {})
  BY DEF SyncEntry, EnsureRecord, Refuses, Request
<1>3. call.pc # "idle"
  BY <1>1 DEF At
<1> QED BY <1>1, <1>2, <1>3, EntryDoneStep, FailStep

LEMMA SyncOriginStep ==
    ASSUME IInv, SyncOrigin
    PROVE  Step
<1> DEFINE next == IF mode = "redirect" THEN "rule" ELSE "upload"
<1>1. At("sync", "origin") /\ UNCHANGED <<service, rows>>
  BY DEF SyncOrigin
<1>2. Goto(next) \/ Fail("refused", {}) \/ Fail("none", {})
  BY DEF SyncOrigin, EnsureRecord, Refuses, Request
<1>3. call.pc = "origin" /\ call.op = "sync"
  BY <1>1 DEF At
<1>4. CASE Goto(next)
  BY <1>1, <1>3, <1>4, GotoStep DEF Underway
<1> QED BY <1>1, <1>2, <1>3, <1>4, FailStep

\* The row of a tunnel, a script or a route is a row of the service.
LEMMA RowIsServiceRow ==
    ASSUME NEW kind, kind # "access", RowOf(kind) # {}
    PROVE  ServiceRows # {}
BY DEF RowOf, ServiceRows

LEMMA PlanTunnelStep ==
    ASSUME IInv, PlanTunnel
    PROVE  Step
<1>1. call.op = "sync" /\ call.pc = "plan" /\ UNCHANGED <<service, rows>>
  BY DEF PlanTunnel, At
<1>2. \/ Fail("refused", {})
      \/ CreateNext("tunnel")
      \/ \E r \in RowOf("tunnel") :
            call' = [call EXCEPT !.pc = "configure", !.id = r.id] /\ UNCHANGED result
  BY DEF PlanTunnel, Refuses
<1>3. ASSUME NEW r \in RowOf("tunnel"),
             call' = [call EXCEPT !.pc = "configure", !.id = r.id], UNCHANGED result
      PROVE  Step
  <2>1. call' = [op |-> call.op, pc |-> "configure", kind |-> call.kind, id |-> r.id,
                 made |-> call.made, todo |-> call.todo]
    BY <1>3 DEF IInv, CallOK
  <2>2. ServiceRows # {} /\ ServiceRows' = ServiceRows /\ mode' = mode
    BY <1>1, RowIsServiceRow DEF service, ServiceRows
  <2>3. Recording'
    BY <2>2 DEF Recording
  <2> QED BY <1>1, <1>3, <2>1, <2>2, <2>3, GoOn
<1>4. CASE Fail("refused", {})
  BY <1>1, <1>4, FailStep
<1>5. CASE CreateNext("tunnel")
  BY <1>1, <1>5, KindStep
<1> QED BY <1>2, <1>3, <1>4, <1>5

LEMMA ConfigureStep ==
    ASSUME IInv, Configure
    PROVE  Step
<1> DEFINE next == IF mode = "warp" THEN "put" ELSE "entry"
<1>1. call.op = "sync" /\ call.pc = "configure" /\ UNCHANGED <<service, rows>>
  BY DEF Configure, At
<1>2. Goto(next) \/ Fail("none", {})
  BY DEF Configure, Request
<1>3. CASE Goto(next)
  BY <1>1, <1>3, GotoStep DEF Underway
<1> QED BY <1>1, <1>2, <1>3, FailStep

LEMMA SyncPrivateRouteStep ==
    ASSUME IInv, SyncPrivateRoute
    PROVE  Step
<1>1. /\ call.op = "sync" /\ call.pc = "put" /\ mode = "warp"
      /\ UNCHANGED <<service, rows>>
  BY DEF SyncPrivateRoute, At
<1>2. Fail("refused", {}) \/ CreateNext("private_route") \/ End("synced")
  BY DEF SyncPrivateRoute, Refuses
<1>3. CASE End("synced")
  <2>1. ServiceRows # {} /\ ServiceRows' = ServiceRows
    BY <1>1 DEF IInv, Recording, Underway, ServiceRows
  <2> QED BY <1>1, <1>3, <2>1, SyncedStep DEF service
<1>4. CASE CreateNext("private_route")
  BY <1>1, <1>4, KindStep
<1> QED BY <1>1, <1>2, <1>3, <1>4, FailStep

LEMMA PlanSpectrumStep ==
    ASSUME IInv, PlanSpectrum
    PROVE  Step
<1>1. /\ call.op = "sync" /\ call.pc = "plan" /\ mode = "spectrum"
      /\ UNCHANGED <<service, rows>>
  BY DEF PlanSpectrum, At
<1>2. Fail("refused", {}) \/ CreateNext("spectrum") \/ Goto("put")
  BY DEF PlanSpectrum, Refuses
<1>3. CASE CreateNext("spectrum")
  BY <1>1, <1>3, KindStep
<1>4. CASE Goto("put")
  BY <1>1, <1>4, GotoStep
<1> QED BY <1>1, <1>2, <1>3, <1>4, FailStep

LEMMA PutSpectrumStep ==
    ASSUME IInv, PutSpectrum
    PROVE  Step
<1>1. call.op = "sync" /\ call.pc = "put" /\ UNCHANGED <<service, rows>>
  BY DEF PutSpectrum, At
<1>2. (\E id : SaveNext("spectrum", id)) \/ Fail("none", {})
  BY DEF PutSpectrum, Request
<1>3. ASSUME NEW id, SaveNext("spectrum", id)
      PROVE  Step
  BY <1>1, <1>3, KindStep
<1> QED BY <1>1, <1>2, <1>3, FailStep

LEMMA PlanWorkerStep ==
    ASSUME IInv, PlanWorker
    PROVE  Step
<1>1. call.op = "sync" /\ call.pc = "plan" /\ UNCHANGED <<service, rows>>
  BY DEF PlanWorker, At
<1>2. \/ Fail("refused", {})
      \/ call' = [call EXCEPT !.pc = "intent", !.made = RowOf("worker") = {}] /\ UNCHANGED result
  BY DEF PlanWorker, Refuses
<1>3. CASE /\ call' = [call EXCEPT !.pc = "intent", !.made = RowOf("worker") = {}]
           /\ UNCHANGED result
  <2>1. call' = [op |-> call.op, pc |-> "intent", kind |-> call.kind, id |-> call.id,
                 made |-> RowOf("worker") = {}, todo |-> call.todo]
    BY <1>3 DEF IInv, CallOK
  <2>2. mode' = mode /\ ServiceRows' = ServiceRows
    BY <1>1 DEF service, ServiceRows
  <2>3. Recording'
    BY <2>1 DEF Recording, Underway
  <2> QED BY <1>1, <1>3, <2>1, <2>2, <2>3, GoOn
<1> QED BY <1>1, <1>2, <1>3, FailStep

\* A row is written and the call goes on.
LEMMA SavedStep ==
    ASSUME IInv, call.op = "sync", call.pc # "idle", mode' = mode,
           NEW kind, NEW id, kind # "access", rows' = Saved(kind, id),
           NEW pc, Goto(pc), pc \notin {"create", "save", "undo"}
    PROVE  Step
<1>1. ServiceRows' # {}
  BY SavedNotEmpty
<1>2. /\ call' = [op |-> call.op, pc |-> pc, kind |-> call.kind, id |-> call.id,
                  made |-> call.made, todo |-> call.todo]
      /\ result' = result
  BY MovesCall DEF IInv
<1>3. Recording'
  BY <1>1 DEF Recording
<1> QED BY <1>1, <1>2, <1>3, GoOn

LEMMA SaveIntentStep ==
    ASSUME IInv, SaveIntent
    PROVE  Step
<1>1. call.op = "sync" /\ call.pc \in {"intent", "worker"} /\ mode' = mode
  BY DEF SaveIntent, service
<1>2. \/ rows' = Saved("worker_dns", Derived) /\ Goto("worker")
      \/ rows' = Saved("worker", Derived) /\ Goto("origin")
      \/ rows' = rows /\ End("none")
  BY DEF SaveIntent
<1>3. CASE rows' = Saved("worker_dns", Derived) /\ Goto("worker")
  BY <1>1, <1>3, SavedStep
<1>4. CASE rows' = Saved("worker", Derived) /\ Goto("origin")
  BY <1>1, <1>4, SavedStep
<1>5. CASE rows' = rows /\ End("none")
  BY <1>1, <1>5, BrokenOff DEF End, ServiceRows
<1> QED BY <1>2, <1>3, <1>4, <1>5

LEMMA UploadWorkerStep ==
    ASSUME IInv, UploadWorker
    PROVE  Step
<1>1. call.op = "sync" /\ call.pc = "upload" /\ UNCHANGED <<service, rows>>
  BY DEF UploadWorker, At
<1>2. Goto("keep") \/ Fail("none", {})
  BY DEF UploadWorker, Request
<1>3. CASE Goto("keep")
  BY <1>1, <1>3, GotoStep DEF Underway
<1> QED BY <1>1, <1>2, <1>3, FailStep

LEMMA SaveWorkerStep ==
    ASSUME IInv, SaveWorker
    PROVE  Step
<1>1. call.op = "sync" /\ call.pc = "keep" /\ mode' = mode
  BY DEF SaveWorker, service, At
<1>2. \/ rows' = Saved("worker", Derived) /\ Goto("subdomain")
      \/ rows' = rows /\ End("none")
  BY DEF SaveWorker
<1>3. CASE rows' = Saved("worker", Derived) /\ Goto("subdomain")
  BY <1>1, <1>3, SavedStep
<1>4. CASE rows' = rows /\ End("none")
  BY <1>1, <1>4, BrokenOff DEF End, ServiceRows
<1> QED BY <1>2, <1>3, <1>4

LEMMA DisableSubdomainStep ==
    ASSUME IInv, DisableSubdomain
    PROVE  Step
<1>1. call.op = "sync" /\ call.pc = "subdomain" /\ UNCHANGED <<service, rows>>
  BY DEF DisableSubdomain, At
<1> QED BY <1>1, GotoStep DEF DisableSubdomain, Underway

LEMMA PlanRecordStep ==
    ASSUME IInv, PlanRecord
    PROVE  Step
<1>1. /\ call.op = "sync" /\ call.pc = "plan" /\ mode \in {"dns", "redirect"}
      /\ UNCHANGED <<service, rows>>
  BY DEF PlanRecord, At
<1> QED BY <1>1, GotoStep DEF PlanRecord

LEMMA SyncRuleStep ==
    ASSUME IInv, SyncRule
    PROVE  Step
<1>1. call.op = "sync" /\ call.pc = "rule" /\ UNCHANGED <<service, rows>>
  BY DEF SyncRule, At
<1>2. SaveNext("redirect", Derived) \/ Fail("none", {})
  BY DEF SyncRule, Request
<1>3. CASE SaveNext("redirect", Derived)
  BY <1>1, <1>3, KindStep
<1> QED BY <1>1, <1>2, <1>3, FailStep

-------------------------------------------------------------------------------
(* Cleanup and Access *)

LEMMA CleanupRowStep ==
    ASSUME IInv, NEW r, CleanupRow(r)
    PROVE  Step
<1>1. call.op = "cleanup" /\ call.pc = "remove" /\ UNCHANGED <<service, rows>>
  BY DEF CleanupRow, At
<1>2. \/ call' = [call EXCEPT !.todo = @ \ {r}] /\ UNCHANGED result
      \/ Fail("stuck", {}) \/ Fail("none", {})
  BY DEF CleanupRow, Request
<1>3. CASE call' = [call EXCEPT !.todo = @ \ {r}] /\ UNCHANGED result
  <2>1. call' = [op |-> call.op, pc |-> call.pc, kind |-> call.kind, id |-> call.id,
                 made |-> call.made, todo |-> call.todo \ {r}]
    BY <1>3 DEF IInv, CallOK
  <2>2. mode' = mode /\ ServiceRows' = ServiceRows
    BY <1>1 DEF service, ServiceRows
  <2>3. Recording'
    BY <1>1, <2>1 DEF Recording
  <2> QED BY <1>1, <1>3, <2>1, <2>2, <2>3, GoOn
<1> QED BY <1>1, <1>2, <1>3, FailStep

LEMMA CleanupRowsDoneStep ==
    ASSUME IInv, CleanupRowsDone
    PROVE  Step
<1>1. call.op = "cleanup" /\ call.pc = "remove" /\ UNCHANGED <<service, rows>>
  BY DEF CleanupRowsDone, At
<1> QED BY <1>1, GotoStep DEF CleanupRowsDone

LEMMA CleanupRulesStep ==
    ASSUME IInv, CleanupRules
    PROVE  Step
<1>1. call.op = "cleanup" /\ call.pc = "rules" /\ UNCHANGED <<service, rows>>
  BY DEF CleanupRules, At
<1>2. Goto("records") \/ Fail("none", {})
  BY DEF CleanupRules, Request
<1>3. CASE Goto("records")
  BY <1>1, <1>3, GotoStep
<1> QED BY <1>1, <1>2, <1>3, FailStep

\* The call stays where it is.
LEMMA StayStep ==
    ASSUME IInv, call.op = "cleanup", UNCHANGED <<mode, call, result>>,
           ServiceRows = {} => ServiceRows' = {}
    PROVE  Step
<1>1. IInv'
  BY DEF IInv, CallOK, Recording
<1> QED BY <1>1, Goes DEF Step

LEMMA CleanupRecordsStep ==
    ASSUME IInv, CleanupRecords
    PROVE  Step
<1>1. call.op = "cleanup" /\ call.pc = "records" /\ UNCHANGED <<service, rows>>
  BY DEF CleanupRecords, At
<1>2. Goto("forget") \/ UNCHANGED <<call, result>> \/ Fail("none", {})
  BY DEF CleanupRecords, Request
<1>3. CASE Goto("forget")
  BY <1>1, <1>3, GotoStep
<1>4. CASE UNCHANGED <<call, result>>
  BY <1>1, <1>4, StayStep DEF service, ServiceRows
<1> QED BY <1>1, <1>2, <1>3, <1>4, FailStep

\* Cleanup succeeds: no row is left.
LEMMA ForgetRowStep ==
    ASSUME IInv, ForgetRow
    PROVE  Step
<1>1. call.op = "cleanup" /\ call.pc = "forget" /\ mode' = mode
  BY DEF ForgetRow, At, service
<1>2. \/ (\E r : rows' = rows \ {r}) /\ UNCHANGED <<call, result>>
      \/ rows' = rows /\ ServiceRows = {} /\ End("cleaned")
      \/ rows' = rows /\ End("none")
  BY DEF ForgetRow
<1>3. CASE (\E r : rows' = rows \ {r}) /\ UNCHANGED <<call, result>>
  <2>1. ServiceRows = {} => ServiceRows' = {}
    BY <1>3 DEF ServiceRows
  <2> QED BY <1>1, <1>3, <2>1, StayStep
<1>4. CASE rows' = rows /\ ServiceRows = {} /\ End("cleaned")
  <2>1. IInv'
    BY <1>4, EndOK
  <2>2. [Contract!Next]_(Contract!vars)
    BY <1>1, <1>4 DEF End, Idle, ServiceRows, Contract!Next, Contract!vars, Contract!End
  <2> QED BY <2>1, <2>2 DEF Step
<1>5. CASE rows' = rows /\ End("none")
  BY <1>1, <1>5, BrokenOff DEF End, ServiceRows
<1> QED BY <1>2, <1>3, <1>4, <1>5

LEMMA PlanAccessStep ==
    ASSUME IInv, PlanAccess
    PROVE  Step
<1>1. call.op = "access" /\ call.pc = "plan" /\ UNCHANGED <<service, rows>>
  BY DEF PlanAccess, At
<1>2. Fail("refused", {}) \/ CreateNext("access") \/ Goto("put")
  BY DEF PlanAccess, Refuses
<1>3. CASE CreateNext("access")
  BY <1>1, <1>3, KindStep
<1>4. CASE Goto("put")
  BY <1>1, <1>4, GotoStep
<1> QED BY <1>1, <1>2, <1>3, <1>4, FailStep

LEMMA PutAccessStep ==
    ASSUME IInv, PutAccess
    PROVE  Step
<1>1. call.op = "access" /\ call.pc = "put" /\ UNCHANGED <<service, rows>>
  BY DEF PutAccess, At
<1>2. (\E id : SaveNext("access", id)) \/ Fail("none", {})
  BY DEF PutAccess, Request
<1>3. ASSUME NEW id, SaveNext("access", id)
      PROVE  Step
  BY <1>1, <1>3, KindStep
<1> QED BY <1>1, <1>2, <1>3, FailStep

LEMMA VerifyAccessStep ==
    ASSUME IInv, VerifyAccess
    PROVE  Step
BY BrokenOff DEF VerifyAccess, At, End, service, ServiceRows

LEMMA RemoveAccessStep ==
    ASSUME IInv, RemoveAccess
    PROVE  Step
<1>1. call.op = "unprotect" /\ call.pc = "remove" /\ UNCHANGED <<service, rows>>
  BY DEF RemoveAccess, At
<1>2. Fail("refused", {}) \/ Goto("forget") \/ Fail("none", {})
  BY DEF RemoveAccess, Refuses, Request
<1>3. CASE Goto("forget")
  BY <1>1, <1>3, GotoStep
<1> QED BY <1>1, <1>2, <1>3, FailStep

LEMMA ForgetAccessStep ==
    ASSUME IInv, ForgetAccess
    PROVE  Step
<1>1. ServiceRows' = ServiceRows
  BY DEF ForgetAccess, ServiceRows
<1> QED BY <1>1, BrokenOff DEF ForgetAccess, At, End, service

-------------------------------------------------------------------------------
(* Every step *)

LEMMA StutterStep ==
    ASSUME IInv, UNCHANGED vars
    PROVE  Step
BY DEF vars, Step, IInv, CallOK, Recording, Underway, ServiceRows, Contract!vars

LEMMA NextStep ==
    ASSUME IInv, [Next]_vars
    PROVE  Step
<1>1. CASE Publish
  BY <1>1, PlanTunnelStep, ConfigureStep, SyncPrivateRouteStep, PlanSpectrumStep,
     PutSpectrumStep, PlanWorkerStep, SaveIntentStep, UploadWorkerStep, SaveWorkerStep,
     DisableSubdomainStep, PlanRecordStep, SyncRuleStep, SyncEntryStep, SyncOriginStep,
     PlanAccessStep, PutAccessStep, VerifyAccessStep
  DEF Publish
<1>2. CASE Clean
  BY <1>2, CleanupRowStep, CleanupRowsDoneStep, CleanupRulesStep, CleanupRecordsStep,
     ForgetRowStep, RemoveAccessStep, ForgetAccessStep
  DEF Clean
<1>3. CASE Sync \/ BeginCleanup \/ SaveAccess \/ DeleteAccess
  BY <1>3, BeginningStep
<1> QED
  BY <1>1, <1>2, <1>3, UpdateServiceStep, DeleteServiceStep, RemapStep, EditStep,
     CreateStep, SaveResourceStep, UndoStep, CallFailsStep, RestartStep, StutterStep
  DEF Next

LEMMA Initially ==
    ASSUME Init
    PROVE  IInv /\ Contract!Init
BY DEF Init, IInv, CallOK, Recording, Underway, Idle, ServiceRows, Contract!Init

LEMMA Inductive == Spec => []IInv
<1>1. Init => IInv
  BY Initially
<1>2. IInv /\ [Next]_vars => IInv'
  BY NextStep DEF Step
<1> QED BY <1>1, <1>2, PTL DEF Spec

\* For any identifiers, addresses and modes and whatever fails, the publisher keeps
\* its contract with the handlers: rows appear only in a Sync and disappear only in
\* a Cleanup, Sync reports success only with a row and Cleanup only without one, and
\* no change or deletion of the service happens while it has a row.
THEOREM PublisherKeepsContract == Spec => KeepsContract
<1>1. Init => Contract!Init
  BY Initially
<1>2. IInv /\ [Next]_vars => [Contract!Next]_(Contract!vars)
  BY NextStep DEF Step
<1> QED BY <1>1, <1>2, Inductive, PTL DEF Spec, KeepsContract, Contract!Spec

-------------------------------------------------------------------------------
(* Foreign objects.  Whatever a call is about to change or delete has been     *)
(* found to be the service's own by an earlier step of it, or made by it.      *)

OwnOf(kind, id) == \A o \in cloud : o.kind = kind /\ o.id = id => Ours(o)

RowsShaped == \A r \in rows : r = [kind |-> r.kind, id |-> r.id]

\* A cleanup deletes no application, and a call that records a name or a rule has
\* created nothing it would undo.
Restrained ==
    /\ call.op = "cleanup" => \A r \in call.todo : r.kind # "access"
    /\ call.op = "sync" /\ mode \in {"dns", "redirect"} => call.made = FALSE
    /\ call.pc = "save" /\ call.kind \in {"dns", "redirect"} => call.made = FALSE
    /\ call.pc = "create" => call.kind \notin {"dns", "redirect"}
    /\ call.op = "sync" /\ call.pc = "rule" => mode = "redirect"

\* What a call has created, and what it has looked up for the steps that follow.
Checked ==
    /\ call.pc = "save" /\ call.kind \notin {"dns", "redirect", "access"} =>
         OwnOf(call.kind, call.id)
    /\ call.pc = "undo" => call.kind # "access" /\ OwnOf(call.kind, call.id)
    /\ call.op = "sync" /\ call.pc = "configure" => OwnOf("tunnel", call.id)
    /\ call.op = "sync" /\ call.pc = "put" /\ mode = "spectrum" =>
         \A r \in RowOf("spectrum") : \A o \in Named(r) : Ours(o)
    /\ call.op = "sync" /\ \/ call.pc \in {"intent", "worker", "upload", "keep"}
                           \/ call.pc = "origin" /\ mode # "redirect"
         => \A o \in ObjectsOf("worker") : Ours(o)

Possession == RowsShaped /\ Restrained /\ Checked

OwnTouched ==
    \A o \in cloud : o \notin cloud' /\ edits' = edits =>
        Ours(o) /\ (o.kind = "access" => call.op \in {"access", "unprotect"})

Careful == Possession' /\ OwnTouched

\* The table keeps its shape.
LEMMA SavedShaped ==
    ASSUME RowsShaped, NEW kind, NEW id, rows' = Saved(kind, id)
    PROVE  RowsShaped'
BY DEF RowsShaped, Saved

\* No call is under way any more.
LEMMA IdleCareful ==
    ASSUME RowsShaped', call' = Idle
    PROVE  Possession'
BY DEF Idle, Possession, Restrained, Checked

LEMMA FailCareful ==
    ASSUME Possession, UNCHANGED rows, NEW r, NEW keys, End(r) \/ Fail(r, keys)
    PROVE  Possession'
<1>1. call' = Idle /\ RowsShaped'
  BY DEF Fail, End, Possession, RowsShaped
<1> QED BY <1>1, IdleCareful

\* The steps from which nothing is changed on the strength of an earlier look.
Plain == {"plan", "create", "entry", "rule", "subdomain", "verify", "remove", "rules",
          "records", "forget"}

\* The call goes on to such a step.
LEMMA PlainCareful ==
    ASSUME Possession, RowsShaped', mode' = mode, call'.op = call.op,
           call'.pc \in Plain, call'.todo \subseteq call.todo,
           call'.pc = "create" => call'.kind \notin {"dns", "redirect"},
           call.op = "sync" /\ call'.pc = "rule" => mode = "redirect",
           \/ call'.made = call.made
           \/ call.op = "sync" => mode \notin {"dns", "redirect"}
    PROVE  Possession'
<1>1. Restrained'
  BY DEF Plain, Possession, Restrained
<1>2. Checked'
  BY DEF Plain, Checked
<1> QED BY <1>1, <1>2 DEF Possession

\* The same for Goto and CreateNext.
LEMMA GotoPlain ==
    ASSUME IInv, Possession, UNCHANGED <<service, rows>>, NEW pc \in Plain \ {"create"}, Goto(pc),
           pc = "rule" => mode = "redirect"
    PROVE  Possession'
<1>1. call' = [op |-> call.op, pc |-> pc, kind |-> call.kind, id |-> call.id,
               made |-> call.made, todo |-> call.todo]
  BY MovesCall DEF IInv
<1>2. RowsShaped' /\ mode' = mode
  BY DEF Possession, RowsShaped, service
<1> QED BY <1>1, <1>2, PlainCareful

LEMMA CreatePlain ==
    ASSUME IInv, Possession, UNCHANGED <<service, rows>>, NEW kind, CreateNext(kind),
           kind \notin {"dns", "redirect"},
           call.op = "sync" => mode \notin {"dns", "redirect"}
    PROVE  Possession'
<1>1. call' = [op |-> call.op, pc |-> "create", kind |-> kind, id |-> call.id,
               made |-> TRUE, todo |-> call.todo]
  BY MovesCall DEF IInv
<1>2. RowsShaped' /\ mode' = mode
  BY DEF Possession, RowsShaped, service
<1> QED BY <1>1, <1>2, PlainCareful DEF Plain

\* Nothing disappears in a step that only adds, or leaves Cloudflare alone.
LEMMA NothingTouched ==
    ASSUME cloud \subseteq cloud'
    PROVE  OwnTouched
BY DEF OwnTouched

-------------------------------------------------------------------------------
(* The service, and the beginning and end of calls *)

LEMMA BetweenCareful ==
    ASSUME Possession, call = Idle,
           \/ \E m \in Modes \cup {"direct"} : UpdateService(m)
           \/ DeleteService
           \/ \E x \in Addresses : Remap(x)
    PROVE  Careful
<1>1. call' = Idle /\ rows' = rows /\ cloud' = cloud
  BY DEF UpdateService, DeleteService, Remap
<1>2. RowsShaped'
  BY <1>1 DEF Possession, RowsShaped
<1> QED BY <1>1, <1>2, IdleCareful, NothingTouched DEF Careful

LEMMA EditCareful ==
    ASSUME Possession, Edit, edits \in Nat
    PROVE  Careful
<1>1. call' = Idle /\ rows' = rows /\ edits' # edits
  BY DEF Edit
<1>2. RowsShaped'
  BY <1>1 DEF Possession, RowsShaped
<1> QED BY <1>1, <1>2, IdleCareful DEF Careful, OwnTouched

LEMMA BeginCareful ==
    ASSUME Possession, NEW op \in Ops, NEW pc \in Plain \ {"create", "rule"}, NEW todo, Begin(op, pc, todo),
           op = "cleanup" => todo = ServiceRows
    PROVE  Careful
<1>1. /\ call' = [op |-> op, pc |-> pc, kind |-> "dns", id |-> None,
                  made |-> FALSE, todo |-> todo]
      /\ rows' = rows
      /\ cloud' = cloud
  BY DEF Begin, Idle
<1>2. RowsShaped'
  BY <1>1 DEF Possession, RowsShaped
<1>3. Restrained'
  BY <1>1 DEF Restrained, ServiceRows
<1>4. Checked'
  BY <1>1 DEF Checked, Plain
<1> QED BY <1>1, <1>2, <1>3, <1>4, NothingTouched DEF Careful, Possession

LEMMA BeginningCareful ==
    ASSUME Possession, Sync \/ BeginCleanup \/ SaveAccess \/ DeleteAccess
    PROVE  Careful
<1>1. CASE Sync
  BY <1>1, BeginCareful DEF Sync, Ops, Plain
<1>2. CASE BeginCleanup
  BY <1>2, BeginCareful DEF BeginCleanup, Ops, Plain
<1>3. CASE SaveAccess
  BY <1>3, BeginCareful DEF SaveAccess, Ops, Plain
<1>4. CASE DeleteAccess
  BY <1>4, BeginCareful DEF DeleteAccess, Ops, Plain
<1> QED BY <1>1, <1>2, <1>3, <1>4

LEMMA RestartCareful ==
    ASSUME Possession, Restart
    PROVE  Careful
<1>1. RowsShaped' /\ cloud' = cloud /\ call' = Idle
  BY DEF Restart, Possession, RowsShaped
<1> QED BY <1>1, IdleCareful, NothingTouched DEF Careful

LEMMA CallFailsCareful ==
    ASSUME Possession, CallFails
    PROVE  Careful
BY FailCareful, NothingTouched DEF CallFails, Careful

-------------------------------------------------------------------------------
(* Requests and the rows that follow them *)

LEMMA CreateCareful ==
    ASSUME IInv, Possession, NEW i \in Ids, Create(i)
    PROVE  Careful
<1> DEFINE new == New(call.kind, i, IF call.kind = "spectrum" THEN address
                                    ELSE IF call.kind = "private_route" THEN call.id
                                    ELSE None)
<1>1. /\ call.pc = "create"
      /\ UNCHANGED <<service, rows>>
      /\ cloud' = cloud \cup {new}
      /\ SaveNext(call.kind, i) \/ Fail("none", {Key(new)})
  BY DEF Create, Request
<1>2. OwnTouched
  BY <1>1, NothingTouched
<1>3. CASE Fail("none", {Key(new)})
  BY <1>1, <1>2, <1>3, FailCareful DEF Careful
<1>4. CASE SaveNext(call.kind, i)
  <2>1. call' = [op |-> call.op, pc |-> "save", kind |-> call.kind, id |-> i,
                 made |-> call.made, todo |-> call.todo]
    BY <1>4, MovesCall DEF IInv
  <2>2. Ours(new)
    BY DEF New, Ours
  <2>3. ASSUME NEW o \in cloud PROVE o.id # i
    <3>1. Unused(i)
      BY DEF Create
    <3>2. Key(o) \in {Key(x) : x \in cloud}
      OBVIOUS
    <3>3. Key(o).id # i
      BY <3>1, <3>2 DEF Unused
    <3> QED BY <3>3 DEF Key
  <2>4. OwnOf(call.kind, i)'
    BY <1>1, <2>2, <2>3 DEF OwnOf, Ours
  <2> QED
    BY <1>1, <1>2, <2>1, <2>4
    DEF Careful, Possession, RowsShaped, Restrained, Checked, service
<1> QED BY <1>1, <1>3, <1>4

LEMMA SaveResourceCareful ==
    ASSUME IInv, Possession, SaveResource
    PROVE  Careful
<1>1. /\ call.pc = "save" /\ mode' = mode /\ cloud' = cloud
      /\ call.op \in {"sync", "access"}
      /\ call.op = "access" <=> call.kind = "access"
  BY DEF SaveResource, service, IInv, CallOK
<1>2. \/ rows' = rows /\ call.made /\ call.kind # "access" /\ Goto("undo")
      \/ rows' = rows /\ Fail("none", Held)
      \/ /\ rows' = Saved(call.kind, call.id)
         /\ \/ call.kind = "tunnel" /\ Goto("configure")
            \/ call.kind = "access" /\ Goto("verify")
            \/ End("synced")
  BY DEF SaveResource
<1>3. OwnTouched
  BY <1>1, NothingTouched
<1>4. RowsShaped'
  BY <1>2, SavedShaped DEF Possession, RowsShaped
<1>5. \A pc : Goto(pc) =>
        call' = [op |-> call.op, pc |-> pc, kind |-> call.kind, id |-> call.id,
                 made |-> call.made, todo |-> call.todo]
  BY MovesCall DEF IInv
<1>6. CASE call.made /\ call.kind # "access" /\ Goto("undo")
  <2>1. call' = [op |-> call.op, pc |-> "undo", kind |-> call.kind, id |-> call.id,
                 made |-> call.made, todo |-> call.todo]
    BY <1>5, <1>6
  <2>2. call.kind \notin {"dns", "redirect"}
    BY <1>1, <1>6 DEF Possession, Restrained
  <2>3. OwnOf(call.kind, call.id)
    BY <1>1, <1>6, <2>2 DEF Possession, Checked
  <2>4. Restrained'
    BY <1>1, <2>1 DEF Possession, Restrained
  <2>5. Checked'
    BY <1>1, <1>6, <2>1, <2>3 DEF Checked, OwnOf, Ours
  <2> QED BY <1>3, <1>4, <2>4, <2>5 DEF Careful, Possession
<1>7. CASE call.kind = "tunnel" /\ Goto("configure")
  <2>1. call' = [op |-> call.op, pc |-> "configure", kind |-> call.kind, id |-> call.id,
                 made |-> call.made, todo |-> call.todo]
    BY <1>5, <1>7
  <2>2. OwnOf("tunnel", call.id)
    BY <1>1, <1>7 DEF Possession, Checked
  <2>3. Restrained'
    BY <1>1, <2>1 DEF Possession, Restrained
  <2>4. Checked'
    BY <1>1, <2>1, <2>2 DEF Checked, OwnOf, Ours
  <2> QED BY <1>3, <1>4, <2>3, <2>4 DEF Careful, Possession
<1>8. CASE Goto("verify")
  <2>1. call' = [op |-> call.op, pc |-> "verify", kind |-> call.kind, id |-> call.id,
                 made |-> call.made, todo |-> call.todo]
    BY <1>5, <1>8
  <2> QED BY <1>1, <1>3, <1>4, <2>1, PlainCareful DEF Plain, Careful
<1>9. CASE Fail("none", Held) \/ End("synced")
  <2>1. call' = Idle
    BY <1>9 DEF Fail, End
  <2> QED BY <1>3, <1>4, <2>1, IdleCareful DEF Careful
<1> QED BY <1>2, <1>6, <1>7, <1>8, <1>9

LEMMA UndoCareful ==
    ASSUME IInv, Possession, Undo
    PROVE  Careful
<1>1. Possession'
  BY FailCareful DEF Undo
<1>2. call.kind # "access" /\ OwnOf(call.kind, call.id)
  BY DEF Undo, Possession, Checked
<1>3. \A o \in cloud : o \notin cloud' => Key(o) \in Held
  BY DEF Undo
<1>4. \A o \in cloud : Key(o) \in Held => o.kind = call.kind /\ o.id = call.id
  BY DEF Held, Key
<1> QED BY <1>1, <1>2, <1>3, <1>4 DEF Careful, OwnTouched, OwnOf

-------------------------------------------------------------------------------
(* Publications *)

\* A record is changed only after it was found to be the service's.
LEMMA RecordTouched ==
    ASSUME NEW records, \A o \in records : o.kind # "access",
           NEW kind, NEW link, NEW Done, EnsureRecord(records, kind, link, Done)
    PROVE  OwnTouched
<1>1. CASE ~Taken(records) /\ cloud' = (cloud \ records) \cup {New(kind, Derived, link)}
  BY <1>1 DEF Taken, OwnTouched
<1>2. CASE cloud' = cloud
  BY <1>2, NothingTouched
<1> QED BY <1>1, <1>2 DEF EnsureRecord, Request, Refuses

LEMMA SyncEntryCareful ==
    ASSUME IInv, Possession, SyncEntry
    PROVE  Careful
<1>1. call.op = "sync" /\ UNCHANGED <<service, rows>>
  BY DEF SyncEntry, At
<1>2. OwnTouched
  <2>1. \A o \in EntryRecords : o.kind # "access"
    BY DEF EntryRecords
  <2> QED BY <2>1, RecordTouched DEF SyncEntry
<1>3. EntryDone \/ Fail("refused", {}) \/ Fail("none", {})
  BY DEF SyncEntry, EnsureRecord, Refuses, Request
<1>4. CASE Fail("refused", {}) \/ Fail("none", {})
  BY <1>1, <1>2, <1>4, FailCareful DEF Careful
<1>5. CASE mode = "dns" /\ SaveNext("dns", Derived)
  <2>1. call' = [op |-> call.op, pc |-> "save", kind |-> "dns", id |-> Derived,
                 made |-> call.made, todo |-> call.todo]
    BY <1>5, MovesCall DEF IInv
  <2> QED
    BY <1>1, <1>2, <1>5, <2>1
    DEF Careful, Possession, RowsShaped, Restrained, Checked, service
<1>6. CASE mode = "redirect" /\ Goto("origin")
  <2>1. call' = [op |-> call.op, pc |-> "origin", kind |-> call.kind, id |-> call.id,
                 made |-> call.made, todo |-> call.todo]
    BY <1>6, MovesCall DEF IInv
  <2> QED
    BY <1>1, <1>2, <1>6, <2>1
    DEF Careful, Possession, RowsShaped, Restrained, Checked, service
<1>7. CASE End("synced")
  BY <1>1, <1>2, <1>7, FailCareful DEF Careful
<1>8. CASE mode = "workers" /\ CreateNext("worker_route")
  BY <1>1, <1>2, <1>8, CreatePlain DEF Careful
<1> QED BY <1>3, <1>4, <1>5, <1>6, <1>7, <1>8 DEF EntryDone

LEMMA SyncOriginCareful ==
    ASSUME IInv, Possession, SyncOrigin
    PROVE  Careful
<1> DEFINE next == IF mode = "redirect" THEN "rule" ELSE "upload"
<1>1. call.op = "sync" /\ call.pc = "origin" /\ UNCHANGED <<service, rows>>
  BY DEF SyncOrigin, At
<1>2. OwnTouched
  <2>1. \A o \in ObjectsOf("origin") : o.kind # "access"
    BY DEF ObjectsOf
  <2> QED BY <2>1, RecordTouched DEF SyncOrigin
<1>3. Goto(next) \/ Fail("refused", {}) \/ Fail("none", {})
  BY DEF SyncOrigin, EnsureRecord, Refuses, Request
<1>4. CASE Fail("refused", {}) \/ Fail("none", {})
  BY <1>1, <1>2, <1>4, FailCareful DEF Careful
<1>5. CASE Goto(next) /\ mode = "redirect"
  BY <1>1, <1>2, <1>5, GotoPlain DEF Careful, Plain
<1>6. CASE Goto(next) /\ mode # "redirect"
  <2>1. call' = [op |-> call.op, pc |-> "upload", kind |-> call.kind, id |-> call.id,
                 made |-> call.made, todo |-> call.todo]
    BY <1>6, MovesCall DEF IInv
  <2>2. cloud' \subseteq cloud \cup {New("origin", Derived, address)}
    BY DEF SyncOrigin, EnsureRecord, Refuses, Request
  <2>3. \A o \in ObjectsOf("worker") : Ours(o)
    BY <1>1, <1>6 DEF Possession, Checked
  <2>4. \A o \in ObjectsOf("worker")' : Ours(o)
    BY <2>2, <2>3 DEF ObjectsOf, New
  <2>5. Checked'
    BY <2>1, <2>4 DEF Checked, Ours
  <2>6. Restrained' /\ RowsShaped'
    BY <1>1, <2>1 DEF Possession, RowsShaped, Restrained, service
  <2> QED BY <1>2, <2>5, <2>6 DEF Careful, Possession
<1> QED BY <1>3, <1>4, <1>5, <1>6

\* The row of an object that has not been taken over names the service's own.
LEMMA NamedOurs ==
    ASSUME NEW kind, ~TakenOver(kind), NEW r \in RowOf(kind), NEW o \in Named(r)
    PROVE  Ours(o)
BY DEF TakenOver

LEMMA PlanTunnelCareful ==
    ASSUME IInv, Possession, PlanTunnel
    PROVE  Careful
<1>1. /\ call.op = "sync" /\ mode \notin {"dns", "redirect"}
      /\ UNCHANGED <<service, rows>>
      /\ cloud' = cloud
  BY DEF PlanTunnel, At, Refuses
<1>2. \/ Fail("refused", {})
      \/ CreateNext("tunnel")
      \/ /\ ~TakenOver("tunnel")
         /\ \E r \in RowOf("tunnel") : call' = [call EXCEPT !.pc = "configure", !.id = r.id]
  BY DEF PlanTunnel, Refuses
<1>3. OwnTouched
  BY <1>1, NothingTouched
<1>4. ASSUME ~TakenOver("tunnel"), NEW r \in RowOf("tunnel"),
             call' = [call EXCEPT !.pc = "configure", !.id = r.id]
      PROVE  Careful
  <2>1. call' = [op |-> call.op, pc |-> "configure", kind |-> call.kind, id |-> r.id,
                 made |-> call.made, todo |-> call.todo]
    BY <1>4 DEF IInv, CallOK
  <2>2. r = [kind |-> "tunnel", id |-> r.id]
    BY DEF Possession, RowsShaped, RowOf
  <2>3. OwnOf("tunnel", r.id)
    BY <1>4, <2>2, NamedOurs DEF OwnOf, Named, Key
  <2>4. Checked'
    BY <1>1, <2>1, <2>3 DEF Checked, OwnOf, Ours
  <2>5. Restrained' /\ RowsShaped'
    BY <1>1, <2>1 DEF Possession, RowsShaped, Restrained, service
  <2> QED BY <1>3, <2>4, <2>5 DEF Careful, Possession
<1>5. CASE Fail("refused", {})
  BY <1>1, <1>3, <1>5, FailCareful DEF Careful
<1>6. CASE CreateNext("tunnel")
  BY <1>1, <1>3, <1>6, CreatePlain DEF Careful
<1> QED BY <1>2, <1>4, <1>5, <1>6

LEMMA ConfigureCareful ==
    ASSUME IInv, Possession, Configure
    PROVE  Careful
<1> DEFINE next == IF mode = "warp" THEN "put" ELSE "entry"
           old == {o \in ObjectsOf("tunnel") : o.id = call.id}
<1>1. call.op = "sync" /\ call.pc = "configure" /\ UNCHANGED <<service, rows>>
  BY DEF Configure, At
<1>2. /\ Goto(next) \/ Fail("none", {})
      /\ cloud \ old \subseteq cloud'
  BY DEF Configure, Request
<1>3. OwnOf("tunnel", call.id)
  BY <1>1 DEF Possession, Checked
<1>4. OwnTouched
  BY <1>2, <1>3 DEF OwnTouched, OwnOf, ObjectsOf
<1>5. CASE Fail("none", {})
  BY <1>1, <1>4, <1>5, FailCareful DEF Careful
<1>6. CASE Goto(next) /\ mode # "warp"
  BY <1>1, <1>4, <1>6, GotoPlain DEF Careful, Plain
<1>7. CASE Goto(next) /\ mode = "warp"
  <2>1. call' = [op |-> call.op, pc |-> "put", kind |-> call.kind, id |-> call.id,
                 made |-> call.made, todo |-> call.todo]
    BY <1>7, MovesCall DEF IInv
  <2> QED
    BY <1>1, <1>4, <1>7, <2>1
    DEF Careful, Possession, RowsShaped, Restrained, Checked, service
<1> QED BY <1>2, <1>5, <1>6, <1>7

LEMMA SyncPrivateRouteCareful ==
    ASSUME IInv, Possession, SyncPrivateRoute
    PROVE  Careful
<1>1. /\ mode = "warp" /\ UNCHANGED <<service, rows>> /\ cloud' = cloud
      /\ \/ Fail("refused", {}) \/ End("synced")
         \/ CreateNext("private_route")
  BY DEF SyncPrivateRoute, Refuses
<1>2. OwnTouched
  BY <1>1, NothingTouched
<1>3. CASE CreateNext("private_route")
  BY <1>1, <1>2, <1>3, CreatePlain DEF Careful
<1>4. CASE Fail("refused", {}) \/ End("synced")
  BY <1>1, <1>2, <1>4, FailCareful DEF Careful
<1> QED BY <1>1, <1>3, <1>4

LEMMA PlanSpectrumCareful ==
    ASSUME IInv, Possession, PlanSpectrum
    PROVE  Careful
<1>1. /\ mode = "spectrum" /\ call.op = "sync" /\ UNCHANGED <<service, rows>>
      /\ cloud' = cloud
      /\ \/ Fail("refused", {})
         \/ CreateNext("spectrum")
         \/ ~TakenOver("spectrum") /\ Goto("put")
  BY DEF PlanSpectrum, At, Refuses
<1>2. OwnTouched
  BY <1>1, NothingTouched
<1>3. CASE Fail("refused", {})
  BY <1>1, <1>2, <1>3, FailCareful DEF Careful
<1>4. CASE CreateNext("spectrum")
  BY <1>1, <1>2, <1>4, CreatePlain DEF Careful
<1>5. CASE ~TakenOver("spectrum") /\ Goto("put")
  <2>1. call' = [op |-> call.op, pc |-> "put", kind |-> call.kind, id |-> call.id,
                 made |-> call.made, todo |-> call.todo]
    BY <1>5, MovesCall DEF IInv
  <2>2. \A r \in RowOf("spectrum") : \A o \in Named(r) : Ours(o)
    BY <1>5, NamedOurs
  <2>3. \A r \in RowOf("spectrum")' : \A o \in Named(r)' : Ours(o)
    BY <1>1, <2>2 DEF RowOf, Named
  <2>4. Checked'
    BY <2>1, <2>3 DEF Checked, Ours
  <2>5. Restrained' /\ RowsShaped'
    BY <1>1, <2>1 DEF Possession, RowsShaped, Restrained, service
  <2> QED BY <1>2, <2>4, <2>5 DEF Careful, Possession
<1> QED BY <1>1, <1>3, <1>4, <1>5

LEMMA PutSpectrumCareful ==
    ASSUME IInv, Possession, PutSpectrum
    PROVE  Careful
<1> DEFINE app == UNION {Named(r) : r \in RowOf("spectrum")}
<1>1. /\ call.op = "sync" /\ call.pc = "put" /\ mode = "spectrum"
      /\ UNCHANGED <<service, rows>>
  BY DEF PutSpectrum, At
<1>2. PICK o \in app :
        /\ cloud' = (cloud \ app) \cup {[o EXCEPT !.link = address]}
        /\ SaveNext("spectrum", o.id) \/ Fail("none", {})
  BY DEF PutSpectrum, Request
<1>3. \A x \in app : Ours(x)
  BY <1>1 DEF Possession, Checked
<1>4. \A x \in cloud : x.kind = "spectrum" /\ x.id = o.id => Ours(x)
  <2>1. PICK r \in RowOf("spectrum") : o \in Named(r)
    OBVIOUS
  <2>2. Key(o) = r /\ r = [kind |-> "spectrum", id |-> r.id]
    BY <2>1 DEF Named, Possession, RowsShaped, RowOf
  <2>3. r.id = o.id
    BY <2>2 DEF Key
  <2>4. \A x \in cloud : x.kind = "spectrum" /\ x.id = o.id => x \in Named(r)
    BY <2>2, <2>3 DEF Named, Key
  <2> QED BY <1>3, <2>1, <2>4
<1>5. OwnTouched
  <2>1. \A x \in app : x.kind # "access"
    BY DEF Named, RowOf, Key
  <2> QED BY <1>2, <1>3, <2>1 DEF OwnTouched
<1>6. CASE Fail("none", {})
  BY <1>1, <1>5, <1>6, FailCareful DEF Careful
<1>7. CASE SaveNext("spectrum", o.id)
  <2>1. call' = [op |-> call.op, pc |-> "save", kind |-> "spectrum", id |-> o.id,
                 made |-> call.made, todo |-> call.todo]
    BY <1>7, MovesCall DEF IInv
  <2>2. Ours([o EXCEPT !.link = address])
    BY <1>2, <1>3 DEF Ours
  <2>3. \A x \in cloud' : x.kind = "spectrum" /\ x.id = o.id => Ours(x)
    BY <1>2, <1>4, <2>2
  <2>4. Checked'
    BY <2>1, <2>3 DEF Checked, OwnOf, Ours
  <2>5. Restrained' /\ RowsShaped'
    BY <1>1, <2>1 DEF Possession, RowsShaped, Restrained, service
  <2> QED BY <1>5, <2>4, <2>5 DEF Careful, Possession
<1> QED BY <1>2, <1>6, <1>7

LEMMA PlanWorkerCareful ==
    ASSUME IInv, Possession, PlanWorker
    PROVE  Careful
<1>1. /\ mode = "workers" /\ call.op = "sync" /\ UNCHANGED <<service, rows>>
      /\ cloud' = cloud
      /\ \/ Fail("refused", {})
         \/ /\ Others("worker") = {} /\ ~TakenOver("worker")
            /\ call' = [call EXCEPT !.pc = "intent", !.made = RowOf("worker") = {}]
  BY DEF PlanWorker, At, Refuses
<1>2. OwnTouched
  BY <1>1, NothingTouched
<1>3. CASE Fail("refused", {})
  BY <1>1, <1>2, <1>3, FailCareful DEF Careful
<1>4. CASE /\ Others("worker") = {} /\ ~TakenOver("worker")
           /\ call' = [call EXCEPT !.pc = "intent", !.made = RowOf("worker") = {}]
  <2>1. call' = [op |-> call.op, pc |-> "intent", kind |-> call.kind, id |-> call.id,
                 made |-> RowOf("worker") = {}, todo |-> call.todo]
    BY <1>4 DEF IInv, CallOK
  <2>2. ASSUME NEW o \in ObjectsOf("worker")
        PROVE  Ours(o)
    <3>1. Key(o) \in rows
      BY <1>4 DEF Others
    <3>2. Key(o) \in RowOf("worker") /\ o \in Named(Key(o))
      BY <3>1 DEF RowOf, Named, ObjectsOf, Key
    <3> QED BY <1>4, <3>2, NamedOurs
  <2>3. \A o \in ObjectsOf("worker")' : Ours(o)
    BY <1>1, <2>2 DEF ObjectsOf
  <2>4. Checked'
    BY <2>1, <2>3 DEF Checked, Ours
  <2>5. Restrained' /\ RowsShaped'
    BY <1>1, <2>1 DEF Possession, RowsShaped, Restrained, service
  <2> QED BY <1>2, <2>4, <2>5 DEF Careful, Possession
<1> QED BY <1>1, <1>3, <1>4

LEMMA SaveIntentCareful ==
    ASSUME IInv, Possession, SaveIntent
    PROVE  Careful
<1>1. /\ call.op = "sync" /\ call.pc \in {"intent", "worker"}
      /\ mode' = mode /\ cloud' = cloud
  BY DEF SaveIntent, service
<1>2. \/ rows' = Saved("worker_dns", Derived) /\ Goto("worker")
      \/ rows' = Saved("worker", Derived) /\ Goto("origin")
      \/ rows' = rows /\ End("none")
  BY DEF SaveIntent
<1>3. OwnTouched
  BY <1>1, NothingTouched
<1>4. RowsShaped'
  BY <1>2, SavedShaped DEF Possession, RowsShaped
<1>5. CASE End("none")
  BY <1>3, <1>4, <1>5, IdleCareful DEF Careful, End
<1>6. ASSUME NEW pc \in {"worker", "origin"}, Goto(pc)
      PROVE  Careful
  <2>1. call' = [op |-> call.op, pc |-> pc, kind |-> call.kind, id |-> call.id,
                 made |-> call.made, todo |-> call.todo]
    BY <1>6, MovesCall DEF IInv
  <2>2. \A o \in ObjectsOf("worker")' : Ours(o)
    BY <1>1 DEF ObjectsOf, Possession, Checked
  <2>3. Checked'
    BY <2>1, <2>2 DEF Checked, Ours
  <2>4. Restrained'
    BY <1>1, <2>1 DEF Possession, Restrained
  <2> QED BY <1>3, <1>4, <2>3, <2>4 DEF Careful, Possession
<1> QED BY <1>2, <1>5, <1>6

LEMMA UploadWorkerCareful ==
    ASSUME IInv, Possession, UploadWorker
    PROVE  Careful
<1>1. call.op = "sync" /\ call.pc = "upload" /\ UNCHANGED <<service, rows>>
  BY DEF UploadWorker, At
<1>2. /\ cloud' = (cloud \ ObjectsOf("worker")) \cup {New("worker", Derived, address)}
      /\ Goto("keep") \/ Fail("none", {})
  BY DEF UploadWorker, Request
<1>3. \A o \in ObjectsOf("worker") : Ours(o)
  BY <1>1 DEF Possession, Checked
<1>4. OwnTouched
  BY <1>2, <1>3 DEF OwnTouched, ObjectsOf
<1>5. CASE Fail("none", {})
  BY <1>1, <1>4, <1>5, FailCareful DEF Careful
<1>6. CASE Goto("keep")
  <2>1. call' = [op |-> call.op, pc |-> "keep", kind |-> call.kind, id |-> call.id,
                 made |-> call.made, todo |-> call.todo]
    BY <1>6, MovesCall DEF IInv
  <2>2. \A o \in ObjectsOf("worker")' : Ours(o)
    BY <1>2 DEF ObjectsOf, New, Ours
  <2>3. Checked'
    BY <2>1, <2>2 DEF Checked, Ours
  <2>4. Restrained' /\ RowsShaped'
    BY <1>1, <2>1 DEF Possession, RowsShaped, Restrained, service
  <2> QED BY <1>4, <2>3, <2>4 DEF Careful, Possession
<1> QED BY <1>2, <1>5, <1>6

LEMMA SaveWorkerCareful ==
    ASSUME IInv, Possession, SaveWorker
    PROVE  Careful
<1>1. call.op = "sync" /\ call.pc = "keep" /\ mode' = mode
  BY DEF SaveWorker, At, service
<1>2. \/ rows' = Saved("worker", Derived) /\ Goto("subdomain")
      \/ rows' = rows /\ End("none")
  BY DEF SaveWorker
<1>3. OwnTouched
  <2>1. cloud \ ObjectsOf("worker") \subseteq cloud'
    BY DEF SaveWorker
  <2>2. \A o \in ObjectsOf("worker") : Ours(o) /\ o.kind # "access"
    BY <1>1 DEF Possession, Checked, ObjectsOf
  <2> QED BY <2>1, <2>2 DEF OwnTouched
<1>4. RowsShaped'
  BY <1>2, SavedShaped DEF Possession, RowsShaped
<1>5. CASE End("none")
  BY <1>3, <1>4, <1>5, IdleCareful DEF Careful, End
<1>6. CASE Goto("subdomain")
  <2>1. call' = [op |-> call.op, pc |-> "subdomain", kind |-> call.kind, id |-> call.id,
                 made |-> call.made, todo |-> call.todo]
    BY <1>6, MovesCall DEF IInv
  <2> QED BY <1>1, <1>3, <1>4, <2>1, PlainCareful DEF Careful, Plain
<1> QED BY <1>2, <1>5, <1>6

LEMMA PassingCareful ==
    ASSUME IInv, Possession, DisableSubdomain \/ PlanRecord
    PROVE  Careful
<1>1. UNCHANGED <<service, rows>> /\ cloud' = cloud /\ Goto("entry")
  BY DEF DisableSubdomain, PlanRecord
<1> QED BY <1>1, GotoPlain, NothingTouched DEF Careful, Plain

LEMMA SyncRuleCareful ==
    ASSUME IInv, Possession, SyncRule
    PROVE  Careful
<1> DEFINE old == {o \in ObjectsOf("redirect") : Ours(o)}
<1>1. /\ call.op = "sync" /\ call.pc = "rule" /\ UNCHANGED <<service, rows>>
      /\ SaveNext("redirect", Derived) \/ Fail("none", {})
      /\ cloud \ old \subseteq cloud'
  BY DEF SyncRule, At, Request
<1>2. OwnTouched
  BY <1>1 DEF OwnTouched, ObjectsOf
<1>3. CASE Fail("none", {})
  BY <1>1, <1>2, <1>3, FailCareful DEF Careful
<1>4. CASE SaveNext("redirect", Derived)
  <2>1. call' = [op |-> call.op, pc |-> "save", kind |-> "redirect", id |-> Derived,
                 made |-> call.made, todo |-> call.todo]
    BY <1>4, MovesCall DEF IInv
  <2> QED
    BY <1>1, <1>2, <2>1
    DEF Careful, Possession, RowsShaped, Restrained, Checked, service
<1> QED BY <1>1, <1>3, <1>4

-------------------------------------------------------------------------------
(* Cleanup and Access *)

\* What a row entitles to delete is of its kind.
LEMMA RemovableKind ==
    ASSUME NEW r, r.kind # "access", NEW o \in Removable(r)
    PROVE  o.kind # "access"
BY DEF Removable, Named, Key, ObjectsOf

LEMMA CleanupRowCareful ==
    ASSUME IInv, Possession, NEW r, CleanupRow(r)
    PROVE  Careful
<1>1. /\ call.op = "cleanup" /\ call.pc = "remove" /\ UNCHANGED <<service, rows>>
      /\ r \in call.todo
  BY DEF CleanupRow, At
<1>2. \/ call' = [call EXCEPT !.todo = @ \ {r}]
      \/ Fail("stuck", {}) \/ Fail("none", {})
  BY DEF CleanupRow, Request
<1>3. OwnTouched
  <2>1. cloud' = cloud \/ (~ChangedOutside(r) /\ cloud' = cloud \ Removable(r))
    BY DEF CleanupRow, Request
  <2>2. r.kind # "access"
    BY <1>1 DEF Possession, Restrained
  <2>3. CASE ~ChangedOutside(r) /\ cloud' = cloud \ Removable(r)
    <3>1. \A o \in Removable(r) : Ours(o)
      BY <2>3 DEF ChangedOutside
    <3> QED BY <2>2, <2>3, <3>1, RemovableKind DEF OwnTouched
  <2> QED BY <2>1, <2>3, NothingTouched
<1>4. CASE Fail("stuck", {}) \/ Fail("none", {})
  BY <1>1, <1>3, <1>4, FailCareful DEF Careful
<1>5. CASE call' = [call EXCEPT !.todo = @ \ {r}]
  <2>1. call' = [op |-> call.op, pc |-> call.pc, kind |-> call.kind, id |-> call.id,
                 made |-> call.made, todo |-> call.todo \ {r}]
    BY <1>5 DEF IInv, CallOK
  <2>2. RowsShaped' /\ mode' = mode
    BY <1>1 DEF Possession, RowsShaped, service
  <2> QED BY <1>1, <1>3, <2>1, <2>2, PlainCareful DEF Careful, Plain
<1> QED BY <1>2, <1>4, <1>5

LEMMA CleanupRulesCareful ==
    ASSUME IInv, Possession, CleanupRowsDone \/ CleanupRules
    PROVE  Careful
<1>1. /\ UNCHANGED <<service, rows>>
      /\ Goto("rules") \/ Goto("records") \/ Fail("none", {})
      /\ cloud \ {o \in ObjectsOf("redirect") : Ours(o)} \subseteq cloud'
  BY DEF CleanupRowsDone, CleanupRules, Request
<1>2. OwnTouched
  BY <1>1 DEF OwnTouched, ObjectsOf
<1> QED BY <1>1, <1>2, FailCareful, GotoPlain DEF Careful, Plain

LEMMA CleanupRecordsCareful ==
    ASSUME IInv, Possession, CleanupRecords
    PROVE  Careful
<1>1. /\ call.op = "cleanup" /\ call.pc = "records" /\ UNCHANGED <<service, rows>>
      /\ Goto("forget") \/ Fail("none", {}) \/ UNCHANGED call
      /\ cloud \ {o \in cloud : o.kind \in DNSKinds /\ Ours(o)} \subseteq cloud'
  BY DEF CleanupRecords, Request, At
<1>2. OwnTouched
  BY <1>1 DEF OwnTouched, DNSKinds
<1>3. CASE UNCHANGED call
  <2>1. RowsShaped' /\ mode' = mode
    BY <1>1 DEF Possession, RowsShaped, service
  <2> QED BY <1>1, <1>2, <1>3, <2>1, PlainCareful DEF Careful, Plain
<1> QED BY <1>1, <1>2, <1>3, FailCareful, GotoPlain DEF Careful, Plain

LEMMA ForgetRowCareful ==
    ASSUME IInv, Possession, ForgetRow
    PROVE  Careful
<1>1. /\ call.op = "cleanup" /\ call.pc = "forget" /\ mode' = mode /\ cloud' = cloud
      /\ rows' \subseteq rows
      /\ UNCHANGED call \/ call' = Idle
  BY DEF ForgetRow, At, End, service
<1>2. RowsShaped'
  BY <1>1 DEF Possession, RowsShaped
<1>3. OwnTouched
  BY <1>1, NothingTouched
<1>4. CASE UNCHANGED call
  BY <1>1, <1>2, <1>3, <1>4, PlainCareful DEF Careful, Plain
<1> QED BY <1>1, <1>2, <1>3, <1>4, IdleCareful DEF Careful

LEMMA PlanAccessCareful ==
    ASSUME IInv, Possession, PlanAccess
    PROVE  Careful
<1>1. /\ call.op = "access" /\ UNCHANGED <<service, rows>> /\ cloud' = cloud
      /\ Fail("refused", {}) \/ CreateNext("access") \/ Goto("put")
  BY DEF PlanAccess, At, Refuses
<1>2. OwnTouched
  BY <1>1, NothingTouched
<1>3. CASE Goto("put")
  <2>1. call' = [op |-> call.op, pc |-> "put", kind |-> call.kind, id |-> call.id,
                 made |-> call.made, todo |-> call.todo]
    BY <1>3, MovesCall DEF IInv
  <2> QED
    BY <1>1, <1>2, <2>1
    DEF Careful, Possession, RowsShaped, Restrained, Checked, service
<1> QED BY <1>1, <1>2, <1>3, FailCareful, CreatePlain DEF Careful

LEMMA PutAccessCareful ==
    ASSUME IInv, Possession, PutAccess
    PROVE  Careful
<1>1. /\ call.op = "access" /\ UNCHANGED <<service, rows>> /\ cloud' = cloud
      /\ (\E id : SaveNext("access", id)) \/ Fail("none", {})
  BY DEF PutAccess, At, Request
<1>2. OwnTouched
  BY <1>1, NothingTouched
<1>3. ASSUME NEW id, SaveNext("access", id)
      PROVE  Careful
  <2>1. call' = [op |-> call.op, pc |-> "save", kind |-> "access", id |-> id,
                 made |-> call.made, todo |-> call.todo]
    BY <1>3, MovesCall DEF IInv
  <2> QED
    BY <1>1, <1>2, <2>1
    DEF Careful, Possession, RowsShaped, Restrained, Checked, service
<1> QED BY <1>1, <1>2, <1>3, FailCareful DEF Careful

LEMMA RemoveAccessCareful ==
    ASSUME IInv, Possession, RemoveAccess
    PROVE  Careful
<1> DEFINE app == UNION {Named(r) : r \in RowOf("access")}
<1>1. /\ call.op = "unprotect" /\ UNCHANGED <<service, rows>>
      /\ Goto("forget") \/ Fail("refused", {}) \/ Fail("none", {})
      /\ cloud' = cloud \/ (~TakenOver("access") /\ cloud' = cloud \ app)
  BY DEF RemoveAccess, At, Refuses, Request
<1>2. OwnTouched
  <2>1. CASE ~TakenOver("access") /\ cloud' = cloud \ app
    <3>1. \A o \in app : Ours(o)
      BY <2>1, NamedOurs
    <3> QED BY <1>1, <2>1, <3>1 DEF OwnTouched
  <2> QED BY <1>1, <2>1, NothingTouched
<1> QED BY <1>1, <1>2, FailCareful, GotoPlain DEF Careful, Plain

LEMMA AccessEndCareful ==
    ASSUME Possession, VerifyAccess \/ ForgetAccess
    PROVE  Careful
<1>1. call' = Idle /\ cloud' = cloud /\ rows' \subseteq rows
  BY DEF VerifyAccess, ForgetAccess, End, ServiceRows
<1>2. RowsShaped'
  BY <1>1 DEF Possession, RowsShaped
<1> QED BY <1>1, <1>2, IdleCareful, NothingTouched DEF Careful

-------------------------------------------------------------------------------
(* Every step *)

LEMMA EditsCount ==
    ASSUME edits \in Nat, [Next]_vars
    PROVE  edits' \in Nat /\ edits <= edits'
<1>1. edits' = edits \/ edits' = edits + 1
  BY DEF Next, Publish, Clean, vars, service, UpdateService, DeleteService, Remap, Edit,
     Sync, BeginCleanup, SaveAccess, DeleteAccess, Begin, Create, SaveResource, Undo,
     CallFails, Restart, PlanTunnel, Configure, SyncPrivateRoute, PlanSpectrum,
     PutSpectrum, PlanWorker, SaveIntent, UploadWorker, SaveWorker, DisableSubdomain,
     PlanRecord, SyncRule, SyncEntry, SyncOrigin, PlanAccess, PutAccess, VerifyAccess,
     CleanupRow, CleanupRowsDone, CleanupRules, CleanupRecords, ForgetRow,
     RemoveAccess, ForgetAccess
<1> QED BY <1>1

LEMMA NextCareful ==
    ASSUME IInv, Possession, edits \in Nat, [Next]_vars
    PROVE  Careful
<1>1. CASE Publish
  BY <1>1, PlanTunnelCareful, ConfigureCareful, SyncPrivateRouteCareful,
     PlanSpectrumCareful, PutSpectrumCareful, PlanWorkerCareful, SaveIntentCareful,
     UploadWorkerCareful, SaveWorkerCareful, PassingCareful, SyncRuleCareful,
     SyncEntryCareful, SyncOriginCareful, PlanAccessCareful, PutAccessCareful,
     AccessEndCareful
  DEF Publish
<1>2. CASE Clean
  BY <1>2, CleanupRowCareful, CleanupRulesCareful, CleanupRecordsCareful,
     ForgetRowCareful, RemoveAccessCareful, AccessEndCareful
  DEF Clean
<1>3. CASE UNCHANGED vars
  BY <1>3 DEF vars, Careful, OwnTouched, Possession, RowsShaped, Restrained, Checked,
     OwnOf, Ours, RowOf, Named, ObjectsOf
<1>4. CASE \/ \E m \in Modes \cup {"direct"} : UpdateService(m)
           \/ DeleteService
           \/ \E x \in Addresses : Remap(x)
  <2>1. call = Idle
    BY <1>4 DEF UpdateService, DeleteService, Remap
  <2> QED BY <1>4, <2>1, BetweenCareful
<1> QED
  BY <1>1, <1>2, <1>3, <1>4, EditCareful, BeginningCareful, CreateCareful,
     SaveResourceCareful, UndoCareful, CallFailsCareful, RestartCareful
  DEF Next

\* Whatever fails, and whatever others do between calls, StunDeck changes and
\* deletes its own objects only, and a cleanup leaves a service protected.
THEOREM OwnObjectsOnly == Spec => OnlyOwnTouched
<1> DEFINE Inv == IInv /\ Possession /\ edits \in Nat
<1>1. Init => Inv
  <2>1. Init => IInv
    BY Initially
  <2>2. Init => Possession
    BY DEF Init, Idle, Possession, RowsShaped, Restrained, Checked
  <2> QED BY <2>1, <2>2 DEF Init
<1>2. Inv /\ [Next]_vars => Inv'
  BY NextStep, NextCareful, EditsCount DEF Step, Careful
<1>3. Inv /\ [Next]_vars => OwnTouched
  BY NextCareful DEF Careful
<1>4. OwnTouched =>
        [\A o \in cloud : o \notin cloud' /\ edits' = edits =>
            /\ Ours(o)
            /\ o.kind = "access" => call.op \in {"access", "unprotect"}]_vars
  BY DEF OwnTouched
<1> QED BY <1>1, <1>2, <1>3, <1>4, PTL DEF Spec, OnlyOwnTouched

-------------------------------------------------------------------------------
(* Nothing is forgotten.  A row is written over or removed only when it names  *)
(* no object of the service any more; what has no row belongs to the call      *)
(* under way.                                                                  *)

DerivedKinds == {"dns", "redirect", "worker", "worker_dns"}

\* One row of a kind, with the identifier that follows from the service if the
\* kind has one.
RowsOK ==
    /\ RowsShaped
    /\ \A q, r \in rows : q.kind = r.kind => q = r
    /\ \A r \in rows : r.kind \in DerivedKinds => r.id = Derived

\* The service's own rules and records exist in the modes that look for them, but
\* for lost ones.
OtherModes ==
    /\ mode # "redirect" =>
         \A o \in cloud : Ours(o) /\ o.kind = "redirect" => Key(o) \in lost
    /\ mode \in {"spectrum", "warp"} =>
         \A o \in cloud : Ours(o) /\ o.kind \in DNSKinds => Key(o) \in lost

\* A result is kept until the next call begins.
Told == result # "none" => call = Idle

Base == RowsOK /\ OtherModes /\ NothingForgotten /\ Told /\ CleanedMeansGone

\* What the steps of a call know of the mode and of the rows.
Course ==
    /\ call.pc = "create" =>
         /\ call.made = TRUE /\ RowOf(call.kind) = {}
         /\ call.kind \in {"tunnel", "private_route", "spectrum", "worker_route", "access"}
    /\ call.pc = "save" =>
         /\ \A r \in RowOf(call.kind) : r.id = call.id
         /\ call.kind \in DerivedKinds => call.id = Derived
    /\ call.pc \in {"create", "save"} /\ call.kind = "tunnel" => mode \in {"tunnel", "warp"}
    /\ call.op = "sync" =>
         /\ call.pc = "configure" => mode \in {"tunnel", "warp"}
         /\ call.pc \in {"intent", "worker", "upload", "keep", "subdomain"} =>
              mode = "workers"
         /\ call.pc = "origin" => mode \in {"redirect", "workers"}
         /\ call.pc = "entry" => mode \in {"tunnel", "workers", "dns", "redirect"}
         /\ \/ call.pc \in {"upload", "keep"}
            \/ call.pc = "origin" /\ mode = "workers"
            => [kind |-> "worker", id |-> Derived] \in rows

Cleared(r) == \A o \in cloud : Key(o) = r => ~Ours(o)

\* What a cleanup has dealt with.
Clearing ==
    /\ call.op = "cleanup" =>
         /\ call.pc = "remove" => \A r \in ServiceRows \ call.todo : Cleared(r)
         /\ call.pc \in {"rules", "records", "forget"} => \A r \in ServiceRows : Cleared(r)
         /\ call.pc \in {"records", "forget"} =>
              \A o \in cloud : Ours(o) /\ o.kind = "redirect" => Key(o) \in lost
         /\ call.pc = "forget" =>
              \A o \in cloud : Ours(o) /\ o.kind \in DNSKinds => Key(o) \in lost
    /\ call.op = "unprotect" /\ call.pc = "forget" => \A r \in RowOf("access") : Cleared(r)

Ledger == Base /\ Course /\ Clearing

\* The service's objects after a step: those of before (perhaps changed), those
\* of these keys, and those that the mode has and that are accounted for.
Grown(keys) ==
    \A o \in cloud' : Ours(o) =>
        \/ \E x \in cloud : Ours(x) /\ Key(x) = Key(o)
        \/ /\ Key(o) \in keys \/ Recorded(o) \/ Key(o) \in Unrecorded(cloud')
           /\ o.kind = "redirect" => mode = "redirect"
           /\ o.kind \in DNSKinds => mode \notin {"spectrum", "warp"}

LEMMA KeyFields ==
    ASSUME NEW o, NEW x, Key(o) = Key(x)
    PROVE  o.kind = x.kind /\ o.id = x.id
<1>1. Key(o).kind = Key(x).kind /\ Key(o).id = Key(x).id
  OBVIOUS
<1> QED BY <1>1 DEF Key

\* Nothing new.
LEMMA NotGrown ==
    ASSUME \A o \in cloud' : Ours(o) => \E x \in cloud : Ours(x) /\ Key(x) = Key(o),
           NEW keys
    PROVE  Grown(keys)
BY DEF Grown

LEMMA Shrunk ==
    ASSUME cloud' \subseteq cloud, NEW keys
    PROVE  Grown(keys)
BY DEF Grown

\* A row that stays.
LEMMA StaysRecorded ==
    ASSUME rows \subseteq rows', NEW o, Recorded(o)
    PROVE  Recorded(o)'
BY DEF Recorded, ServiceRows

\* What is unrecorded is a record or a rule of a Sync without rows.
LEMMA UnrecordedKind ==
    ASSUME NEW c, NEW o, Key(o) \in Unrecorded(c)
    PROVE  /\ call.op = "sync" /\ mode \in {"dns", "redirect"} /\ ServiceRows = {}
           /\ o.kind \in DNSKinds \cup {"redirect"}
<1>1. call.op = "sync" /\ mode \in {"dns", "redirect"} /\ ServiceRows = {}
  BY DEF Unrecorded
<1>2. PICK y \in c : Ours(y) /\ y.kind \in DNSKinds \cup {"redirect"} /\ Key(y) = Key(o)
  BY <1>1 DEF Unrecorded
<1> QED BY <1>1, <1>2, KeyFields

\* How an object of the service is accounted for after a step that takes no row
\* away.
LEMMA Accounted ==
    ASSUME NothingForgotten, rows \subseteq rows', NEW keys, Grown(keys),
           NEW o \in cloud', Ours(o)
    PROVE  \/ Recorded(o)'
           \/ Key(o) \in lost \cup Held \cup keys
           \/ Key(o) \in Unrecorded(cloud')
<1>1. ASSUME NEW x \in cloud, Ours(x), Key(x) = Key(o)
      PROVE  \/ Recorded(o)
             \/ Key(o) \in lost \cup Held
             \/ Key(o) \in Unrecorded(cloud')
  <2>1. o.kind = x.kind /\ o.id = x.id
    BY <1>1, KeyFields
  <2>2. CASE Recorded(x)
    BY <1>1, <2>1, <2>2 DEF Recorded
  <2>3. CASE Key(x) \in lost \cup Held
    BY <1>1, <2>3
  <2>4. CASE Key(x) \in Unrecorded(cloud)
    <3>1. /\ call.op = "sync" /\ mode \in {"dns", "redirect"} /\ ServiceRows = {}
          /\ x.kind \in DNSKinds \cup {"redirect"}
      BY <2>4, UnrecordedKind
    <3> QED BY <2>1, <3>1 DEF Unrecorded
  <2> QED BY <1>1, <2>2, <2>3, <2>4 DEF NothingForgotten
<1>2. Recorded(o) => Recorded(o)'
  BY StaysRecorded
<1> QED BY <1>1, <1>2 DEF Grown

LEMMA ModesKept ==
    ASSUME OtherModes, mode' = mode, lost \subseteq lost', NEW keys, Grown(keys)
    PROVE  OtherModes'
<1>1. ASSUME NEW o \in cloud', Ours(o), NEW x \in cloud, Ours(x), Key(x) = Key(o)
      PROVE  /\ mode # "redirect" /\ o.kind = "redirect" => Key(o) \in lost
             /\ mode \in {"spectrum", "warp"} /\ o.kind \in DNSKinds => Key(o) \in lost
  <2>1. o.kind = x.kind
    BY <1>1, KeyFields
  <2> QED BY <1>1, <2>1 DEF OtherModes
<1>2. ASSUME NEW o \in cloud', Ours(o)
      PROVE  /\ mode # "redirect" /\ o.kind = "redirect" => Key(o) \in lost
             /\ mode \in {"spectrum", "warp"} /\ o.kind \in DNSKinds => Key(o) \in lost
  BY <1>1, <1>2 DEF Grown
<1>3. \A o : Key(o)' = Key(o) /\ Ours(o)' = Ours(o)
  BY DEF Key, Ours
<1> QED BY <1>2, <1>3 DEF OtherModes

-------------------------------------------------------------------------------
(* The steps of a call, as the ledger sees them. *)

\* A step that ends the call and takes no row away.
LEMMA EndLedger ==
    ASSUME Base, mode' = mode, rows \subseteq rows', RowsOK', call' = Idle,
           lost \subseteq lost', CleanedMeansGone',
           NEW keys, Grown(keys), keys \subseteq lost',
           Unrecorded(cloud') \subseteq lost' \/ ServiceRows' # {},
           \A o \in cloud' : Ours(o) /\ Key(o) \in Held => Key(o) \in lost' \/ Recorded(o)'
    PROVE  Ledger'
<1>1. OtherModes'
  BY ModesKept DEF Base
<1>2. ASSUME NEW o \in cloud', Ours(o)
      PROVE  Recorded(o)' \/ Key(o) \in lost'
  <2>1. \/ Recorded(o)'
        \/ Key(o) \in lost \cup Held \cup keys
        \/ Key(o) \in Unrecorded(cloud')
    BY <1>2, Accounted DEF Base
  <2>2. ASSUME Key(o) \in Unrecorded(cloud'), ServiceRows' # {}
        PROVE  Recorded(o)'
    BY <2>2, UnrecordedKind DEF Recorded
  <2> QED BY <1>2, <2>1, <2>2
<1>3. NothingForgotten'
  BY <1>2 DEF NothingForgotten, Ours, Key
<1>4. Told' /\ Course' /\ Clearing'
  BY DEF Told, Course, Clearing, Idle
<1> QED BY <1>1, <1>3, <1>4 DEF Ledger, Base

\* A step that ends the call with an error.
LEMMA FailLedger ==
    ASSUME Base, mode' = mode, rows' = rows, NEW r, r # "cleaned", NEW keys, Fail(r, keys),
           Grown(keys),
           call.pc \in {"save", "undo"} =>
               \A o \in cloud' : Ours(o) /\ Key(o) \in Held => Key(o) \in keys
    PROVE  Ledger'
<1>1. call' = Idle /\ result' = r /\ lost' = lost \cup keys \cup Unrecorded(cloud')
  BY DEF Fail, End
<1>2. RowsOK'
  BY DEF Base, RowsOK, RowsShaped
<1>3. CleanedMeansGone'
  BY <1>1 DEF CleanedMeansGone
<1>4. \A o \in cloud' : Ours(o) /\ Key(o) \in Held => Key(o) \in lost'
  BY <1>1 DEF Held
<1> QED BY <1>1, <1>2, <1>3, <1>4, EndLedger

\* A step that goes on with the call and takes no row away.
LEMMA GoBase ==
    ASSUME Base, call.op # "none", mode' = mode, rows \subseteq rows', RowsOK',
           call'.op = call.op, result' = result, lost' = lost,
           NEW keys, Grown(keys), keys \subseteq Held',
           \A o \in cloud' : Ours(o) /\ Key(o) \in Held => Key(o) \in Held' \/ Recorded(o)'
    PROVE  Base'
<1>1. OtherModes'
  BY ModesKept DEF Base
<1>2. ASSUME NEW o \in cloud', Ours(o)
      PROVE  Recorded(o)' \/ Key(o) \in lost' \/ Key(o) \in Held' \/ Key(o) \in Unrecorded(cloud)'
  <2>1. \/ Recorded(o)'
        \/ Key(o) \in lost \cup Held \cup keys
        \/ Key(o) \in Unrecorded(cloud')
    BY <1>2, Accounted DEF Base
  <2>2. ASSUME Key(o) \in Unrecorded(cloud')
        PROVE  Recorded(o)' \/ Key(o) \in Unrecorded(cloud)'
    <3>1. /\ call.op = "sync" /\ mode \in {"dns", "redirect"}
          /\ o.kind \in DNSKinds \cup {"redirect"}
      BY <2>2, UnrecordedKind
    <3>2. CASE ServiceRows' # {}
      BY <3>1, <3>2 DEF Recorded
    <3>3. CASE ServiceRows' = {}
      BY <1>2, <3>1, <3>3 DEF Unrecorded, Ours, Key
    <3> QED BY <3>2, <3>3
  <2> QED BY <1>2, <2>1, <2>2
<1>3. NothingForgotten'
  BY <1>2 DEF NothingForgotten, Ours, Key
<1>4. result' = "none"
  BY DEF Base, Told, Idle
<1>5. Told' /\ CleanedMeansGone'
  BY <1>4 DEF Told, CleanedMeansGone
<1> QED BY <1>1, <1>3, <1>5 DEF Base

\* The same when the table and what the call holds stay as they are.
LEMMA GoOnBase ==
    ASSUME Base, call.op # "none", mode' = mode, rows' = rows,
           call'.op = call.op, result' = result, lost' = lost, Grown({}),
           call.pc \notin {"save", "undo"}
    PROVE  Base'
<1>1. RowsOK'
  BY DEF Base, RowsOK, RowsShaped
<1>2. Held = {}
  BY DEF Held
<1> QED BY <1>1, <1>2, GoBase

\* The table after SaveCloudflareResource.
LEMMA SavedGrows ==
    ASSUME RowsOK, NEW kind, NEW id, rows' = Saved(kind, id),
           \A r \in RowOf(kind) : r.id = id,
           kind \in DerivedKinds => id = Derived
    PROVE  RowsOK' /\ rows \subseteq rows' /\ [kind |-> kind, id |-> id] \in rows'
<1>1. RowsShaped'
  BY SavedShaped DEF RowsOK
<1>2. \A r \in rows' : (r.kind # kind /\ r \in rows) \/ r = [kind |-> kind, id |-> id]
  BY DEF Saved
<1>3. \A q, r \in rows' : q.kind = r.kind => q = r
  BY <1>2 DEF RowsOK
<1>4. \A r \in rows' : r.kind \in DerivedKinds => r.id = Derived
  BY <1>2 DEF RowsOK
<1>5. rows \subseteq rows'
  <2>1. ASSUME NEW r \in rows, r.kind = kind
        PROVE  r = [kind |-> kind, id |-> id]
    BY <2>1 DEF RowOf, RowsOK, RowsShaped
  <2> QED BY <2>1 DEF Saved
<1>6. [kind |-> kind, id |-> id] \in rows'
  BY DEF Saved
<1> QED BY <1>1, <1>3, <1>4, <1>5, <1>6 DEF RowsOK, DerivedKinds

-------------------------------------------------------------------------------
(* The service, and the beginning and end of calls *)

\* Between calls everything is recorded or lost.
LEMMA Settled ==
    ASSUME Ledger, call = Idle, NEW o \in cloud, Ours(o)
    PROVE  Recorded(o) \/ Key(o) \in lost
BY DEF Ledger, Base, NothingForgotten, Held, Unrecorded, Idle

\* A step between calls that brings no object of the service.
LEMMA BetweenLedger ==
    ASSUME Ledger, call = Idle, call' = Idle, rows' = rows, lost' = lost, result' = "none",
           \A o \in cloud' : Ours(o) => o \in cloud,
           mode' = mode \/ ServiceRows = {}
    PROVE  Ledger'
<1>1. RowsOK'
  BY DEF Ledger, Base, RowsOK, RowsShaped
<1>2. ASSUME NEW o \in cloud', Ours(o)
      PROVE  Recorded(o)' \/ Key(o) \in lost'
  <2>1. o \in cloud
    BY <1>2
  <2>2. Recorded(o) \/ Key(o) \in lost
    BY <1>2, <2>1, Settled
  <2> QED BY <2>2, StaysRecorded
<1>3. NothingForgotten'
  BY <1>2 DEF NothingForgotten, Ours, Key
<1>4. OtherModes'
  <2>1. CASE mode' = mode
    BY <2>1 DEF Ledger, Base, OtherModes, Ours, Key
  <2>2. CASE ServiceRows = {}
    <3>1. ASSUME NEW o \in cloud', Ours(o), o.kind \in DNSKinds \cup {"redirect"}
          PROVE  Key(o) \in lost'
      <4>1. o \in cloud
        BY <3>1
      <4>2. Recorded(o) \/ Key(o) \in lost
        BY <3>1, <4>1, Settled
      <4> QED BY <2>2, <3>1, <4>2 DEF Recorded
    <3> QED BY <3>1 DEF OtherModes, Ours, Key
  <2> QED BY <2>1, <2>2
<1>5. Told' /\ CleanedMeansGone' /\ Course' /\ Clearing'
  BY DEF Told, CleanedMeansGone, Course, Clearing, Idle
<1> QED BY <1>1, <1>3, <1>4, <1>5 DEF Ledger, Base

LEMMA ServiceLedger ==
    ASSUME Ledger, \/ \E m \in Modes \cup {"direct"} : UpdateService(m)
                   \/ DeleteService
                   \/ \E x \in Addresses : Remap(x)
    PROVE  Ledger'
<1>1. /\ call = Idle /\ call' = Idle /\ rows' = rows /\ lost' = lost /\ result' = "none"
      /\ cloud' = cloud
      /\ mode' = mode \/ ServiceRows = {}
  BY DEF UpdateService, DeleteService, Remap
<1> QED BY <1>1, BetweenLedger

LEMMA EditLedger ==
    ASSUME Ledger, Edit
    PROVE  Ledger'
<1>1. /\ call = Idle /\ call' = Idle /\ rows' = rows /\ lost' = lost /\ result' = "none"
      /\ mode' = mode
  BY DEF Edit
<1>2. \A kind, id : ~Ours(Foreign(kind, id))
  BY DEF Foreign, Ours
<1>3. \A o \in cloud' : Ours(o) => o \in cloud
  BY <1>2 DEF Edit
<1> QED BY <1>1, <1>3, BetweenLedger

LEMMA BeginLedger ==
    ASSUME Ledger, NEW op, NEW pc \in {"plan", "remove"}, NEW todo, Begin(op, pc, todo),
           op = "cleanup" => todo = ServiceRows
    PROVE  Ledger'
<1>1. /\ call = Idle
      /\ call' = [op |-> op, pc |-> pc, kind |-> "dns", id |-> None,
                  made |-> FALSE, todo |-> todo]
      /\ rows' = rows /\ cloud' = cloud /\ mode' = mode /\ result' = "none"
      /\ lost' = lost \cap {Key(o) : o \in cloud}
  BY DEF Begin, Idle, service
<1>2. RowsOK'
  BY <1>1 DEF Ledger, Base, RowsOK, RowsShaped
<1>3. ASSUME NEW o \in cloud, Key(o) \in lost
      PROVE  Key(o) \in lost'
  <2>1. Key(o) \in {Key(x) : x \in cloud}
    OBVIOUS
  <2> QED BY <1>1, <1>3, <2>1
<1>4. ASSUME NEW o \in cloud, Ours(o)
      PROVE  Recorded(o)' \/ Key(o) \in lost'
  <2>1. Recorded(o) \/ Key(o) \in lost
    BY <1>1, <1>4, Settled
  <2> QED BY <1>1, <1>3, <2>1, StaysRecorded
<1>5. NothingForgotten'
  BY <1>1, <1>4 DEF NothingForgotten, Ours, Key
<1>6. OtherModes'
  BY <1>1, <1>3 DEF Ledger, Base, OtherModes, Ours, Key
<1>7. Told' /\ CleanedMeansGone' /\ Course'
  BY <1>1 DEF Told, CleanedMeansGone, Course
<1>8. Clearing'
  BY <1>1 DEF Clearing, ServiceRows
<1> QED BY <1>2, <1>5, <1>6, <1>7, <1>8 DEF Ledger, Base

LEMMA BeginningLedger ==
    ASSUME Ledger, Sync \/ BeginCleanup \/ SaveAccess \/ DeleteAccess
    PROVE  Ledger'
<1>1. CASE Sync
  BY <1>1, BeginLedger DEF Sync
<1>2. CASE BeginCleanup
  BY <1>2, BeginLedger DEF BeginCleanup
<1>3. CASE SaveAccess
  BY <1>3, BeginLedger DEF SaveAccess
<1>4. CASE DeleteAccess
  BY <1>4, BeginLedger DEF DeleteAccess
<1> QED BY <1>1, <1>2, <1>3, <1>4

LEMMA RestartLedger ==
    ASSUME Ledger, Restart
    PROVE  Ledger'
<1>1. /\ call' = Idle /\ result' = "none" /\ lost' = lost \cup Held \cup Unrecorded(cloud)
      /\ mode' = mode /\ cloud' = cloud /\ rows' = rows
  BY DEF Restart
<1>2. RowsOK'
  BY <1>1 DEF Ledger, Base, RowsOK, RowsShaped
<1>3. CleanedMeansGone'
  BY <1>1 DEF CleanedMeansGone
<1>4. Grown({})
  BY <1>1, Shrunk
<1> QED BY <1>1, <1>2, <1>3, <1>4, EndLedger DEF Ledger

LEMMA CallFailsLedger ==
    ASSUME Ledger, CallFails
    PROVE  Ledger'
<1>1. /\ mode' = mode /\ rows' = rows /\ cloud' = cloud /\ Fail("none", {})
      /\ call.pc \notin {"save", "undo"}
  BY DEF CallFails, service
<1>2. Grown({})
  BY <1>1, Shrunk
<1> QED BY <1>1, <1>2, FailLedger DEF Ledger

-------------------------------------------------------------------------------
(* Requests and the rows that follow them *)

\* The clauses of Course and Clearing are about the beginnings and ends of steps
\* that these do not lead to.
LEMMA FreeCourse ==
    ASSUME call'.pc \notin {"create", "save"},
           call'.op = "sync" => call'.pc \in {"plan", "put", "rule", "undo", "verify"},
           call'.op \notin {"cleanup", "unprotect"}
    PROVE  Course' /\ Clearing'
BY DEF Course, Clearing

LEMMA CreateLedger ==
    ASSUME IInv, Ledger, NEW i \in Ids, Create(i)
    PROVE  Ledger'
<1> DEFINE new == New(call.kind, i, IF call.kind = "spectrum" THEN address
                                    ELSE IF call.kind = "private_route" THEN call.id
                                    ELSE None)
           key == [kind |-> call.kind, id |-> i]
<1>1. /\ call.pc = "create" /\ call.op \in {"sync", "access"}
      /\ mode' = mode /\ rows' = rows
      /\ cloud' = cloud \cup {new}
      /\ \/ SaveNext(call.kind, i) /\ lost' = lost
         \/ Fail("none", {Key(new)})
  BY DEF Create, Request, service, IInv, CallOK
<1>2. /\ call.made = TRUE /\ RowOf(call.kind) = {}
      /\ call.kind \in {"tunnel", "private_route", "spectrum", "worker_route", "access"}
      /\ call.kind = "tunnel" => mode \in {"tunnel", "warp"}
  BY <1>1 DEF Ledger, Course
<1>3. Key(new) = key /\ new.kind = call.kind
  BY DEF New, Key
<1>4. Grown({key})
  BY <1>1, <1>2, <1>3 DEF Grown, DNSKinds
<1>5. CASE Fail("none", {Key(new)})
  BY <1>1, <1>3, <1>4, <1>5, FailLedger DEF Ledger
<1>6. CASE SaveNext(call.kind, i) /\ lost' = lost
  <2>1. /\ call' = [op |-> call.op, pc |-> "save", kind |-> call.kind, id |-> i,
                    made |-> call.made, todo |-> call.todo]
        /\ result' = result
    BY <1>6, MovesCall DEF IInv
  <2>2. Held' = {key}
    BY <1>2, <2>1 DEF Held
  <2>3. Base'
    <3>1. RowsOK'
      BY <1>1 DEF Ledger, Base, RowsOK, RowsShaped
    <3>2. Held = {}
      BY <1>1 DEF Held
    <3> QED BY <1>1, <1>4, <1>6, <2>1, <2>2, <3>1, <3>2, GoBase DEF Ledger
  <2>4. Course'
    BY <1>1, <1>2, <2>1 DEF Course, DerivedKinds, RowOf
  <2>5. Clearing'
    BY <1>1, <2>1 DEF Clearing
  <2> QED BY <2>3, <2>4, <2>5 DEF Ledger
<1> QED BY <1>1, <1>5, <1>6

LEMMA SaveResourceLedger ==
    ASSUME IInv, Possession, Ledger, SaveResource
    PROVE  Ledger'
<1>1. /\ call.pc = "save" /\ mode' = mode /\ cloud' = cloud
      /\ call.op \in {"sync", "access"}
      /\ call.op = "access" <=> call.kind = "access"
  BY DEF SaveResource, service, IInv, CallOK
<1>2. \/ /\ rows' = rows /\ call.made /\ call.kind # "access" /\ Goto("undo")
         /\ lost' = lost
      \/ rows' = rows /\ Fail("none", Held)
      \/ /\ rows' = Saved(call.kind, call.id) /\ lost' = lost
         /\ \/ call.kind = "tunnel" /\ Goto("configure")
            \/ call.kind = "access" /\ Goto("verify")
            \/ call.kind \notin {"tunnel", "access"} /\ End("synced")
  BY DEF SaveResource
<1>3. /\ \A r \in RowOf(call.kind) : r.id = call.id
      /\ call.kind \in DerivedKinds => call.id = Derived
      /\ call.kind = "tunnel" => mode \in {"tunnel", "warp"}
  BY <1>1 DEF Ledger, Course
<1>4. Grown({}) /\ Grown(Held)
  BY <1>1, Shrunk
<1>5. \A pc : Goto(pc) =>
        /\ call' = [op |-> call.op, pc |-> pc, kind |-> call.kind, id |-> call.id,
                    made |-> call.made, todo |-> call.todo]
        /\ result' = result
  BY MovesCall DEF IInv
<1>6. CASE rows' = rows /\ call.made /\ Goto("undo") /\ lost' = lost
  <2>1. /\ call' = [op |-> call.op, pc |-> "undo", kind |-> call.kind, id |-> call.id,
                    made |-> call.made, todo |-> call.todo]
        /\ result' = result
    BY <1>5, <1>6
  <2>2. Held' = Held
    BY <1>1, <2>1 DEF Held
  <2>3. RowsOK'
    BY <1>6 DEF Ledger, Base, RowsOK, RowsShaped
  <2>4. Base'
    BY <1>1, <1>4, <1>6, <2>1, <2>2, <2>3, GoBase DEF Ledger
  <2> QED BY <1>1, <2>1, <2>4, FreeCourse DEF Ledger
<1>7. CASE rows' = rows /\ Fail("none", Held)
  BY <1>1, <1>4, <1>7, FailLedger DEF Ledger
<1>8. ASSUME rows' = Saved(call.kind, call.id)
      PROVE  /\ RowsOK' /\ rows \subseteq rows'
             /\ \A o \in cloud' : Ours(o) /\ Key(o) \in Held => Recorded(o)'
             /\ call.kind # "access" => ServiceRows' # {}
  <2>1. RowsOK' /\ rows \subseteq rows' /\ [kind |-> call.kind, id |-> call.id] \in rows'
    BY <1>3, <1>8, SavedGrows DEF Ledger, Base
  <2>2. ASSUME NEW o, Key(o) \in Held
        PROVE  Recorded(o)'
    <3>1. Key(o) = [kind |-> call.kind, id |-> call.id]
      BY <2>2 DEF Held
    <3>2. Key(o) \in rows' /\ o.kind = call.kind
      BY <2>1, <3>1 DEF Key
    <3>3. o.kind # "access" => ServiceRows' # {}
      BY <1>8, <3>2, SavedNotEmpty
    <3> QED BY <3>2, <3>3 DEF Recorded, DNSKinds, Key
  <2> QED BY <1>8, <2>1, <2>2, SavedNotEmpty
<1>9. CASE rows' = Saved(call.kind, call.id) /\ lost' = lost /\ call.kind \notin {"tunnel", "access"}
           /\ End("synced")
  <2>1. call' = Idle /\ CleanedMeansGone'
    BY <1>9 DEF End, CleanedMeansGone
  <2> QED BY <1>1, <1>4, <1>8, <1>9, <2>1, EndLedger DEF Ledger
<1>10. CASE rows' = Saved(call.kind, call.id) /\ lost' = lost /\ call.kind = "tunnel"
            /\ Goto("configure")
  <2>1. /\ call' = [op |-> call.op, pc |-> "configure", kind |-> call.kind, id |-> call.id,
                    made |-> call.made, todo |-> call.todo]
        /\ result' = result
    BY <1>5, <1>10
  <2>2. Base'
    BY <1>1, <1>4, <1>8, <1>10, <2>1, GoBase DEF Ledger
  <2>3. Course' /\ Clearing'
    BY <1>1, <1>3, <1>10, <2>1 DEF Course, Clearing
  <2> QED BY <2>2, <2>3 DEF Ledger
<1>11. CASE rows' = Saved(call.kind, call.id) /\ lost' = lost /\ call.kind = "access"
            /\ Goto("verify")
  <2>1. /\ call' = [op |-> call.op, pc |-> "verify", kind |-> call.kind, id |-> call.id,
                    made |-> call.made, todo |-> call.todo]
        /\ result' = result
    BY <1>5, <1>11
  <2>2. Base'
    BY <1>1, <1>4, <1>8, <1>11, <2>1, GoBase DEF Ledger
  <2> QED BY <1>1, <2>1, <2>2, FreeCourse DEF Ledger
<1> QED BY <1>2, <1>6, <1>7, <1>9, <1>10, <1>11

LEMMA UndoLedger ==
    ASSUME Ledger, Undo
    PROVE  Ledger'
<1>1. mode' = mode /\ rows' = rows
  BY DEF Undo, service
<1>2. CASE cloud' = cloud /\ Fail("none", Held)
  <2>1. Grown(Held)
    BY <1>2, Shrunk
  <2> QED BY <1>1, <1>2, <2>1, FailLedger DEF Ledger
<1>3. CASE cloud' = cloud \ {o \in cloud : Key(o) \in Held} /\ Fail("none", {})
  <2>1. Grown({})
    BY <1>3, Shrunk
  <2>2. \A o \in cloud' : Key(o) \notin Held
    BY <1>3
  <2> QED BY <1>1, <1>3, <2>1, <2>2, FailLedger DEF Ledger
<1> QED BY <1>2, <1>3 DEF Undo

-------------------------------------------------------------------------------
(* Publications *)

\* A step that ends the call while it holds nothing.
LEMMA BrokenLedger ==
    ASSUME Ledger, call.pc \notin {"save", "undo"}, mode' = mode, rows' = rows, Grown({}),
           Fail("refused", {}) \/ Fail("none", {}) \/ Fail("stuck", {})
    PROVE  Ledger'
BY FailLedger DEF Ledger

LEMMA SyncedLedger ==
    ASSUME Ledger, call.pc \notin {"save", "undo"}, mode' = mode, rows' = rows,
           lost' = lost, Grown({}), End("synced") \/ End("none"),
           \/ ServiceRows # {}
           \/ call.op # "sync"
           \/ mode \notin {"dns", "redirect"}
    PROVE  Ledger'
<1>1. RowsOK' /\ ServiceRows' = ServiceRows
  BY DEF Ledger, Base, RowsOK, RowsShaped, ServiceRows
<1>2. call' = Idle /\ CleanedMeansGone'
  BY DEF End, CleanedMeansGone
<1>3. Held = {}
  BY DEF Held
<1>4. Unrecorded(cloud') = {} \/ ServiceRows' # {}
  BY <1>1 DEF Unrecorded
<1> QED BY <1>1, <1>2, <1>3, <1>4, EndLedger DEF Ledger

\* A step that creates a resource next.
LEMMA CreateNextLedger ==
    ASSUME IInv, Ledger, call.pc \notin {"save", "undo"}, call.op \in {"sync", "access"},
           mode' = mode, rows' = rows, lost' = lost, Grown({}),
           NEW kind \in {"tunnel", "private_route", "spectrum", "worker_route", "access"},
           CreateNext(kind), RowOf(kind) = {}, kind = "tunnel" => mode \in {"tunnel", "warp"}
    PROVE  Ledger'
<1>1. /\ call' = [op |-> call.op, pc |-> "create", kind |-> kind, id |-> call.id,
                  made |-> TRUE, todo |-> call.todo]
      /\ result' = result
  BY MovesCall DEF IInv
<1>2. Base'
  BY <1>1, GoOnBase DEF Ledger
<1>3. Course' /\ Clearing'
  BY <1>1 DEF Course, Clearing, RowOf
<1> QED BY <1>2, <1>3 DEF Ledger

\* A record of the service that was created or patched is accounted for.
LEMMA RecordGrown ==
    ASSUME NEW records, NEW kind \in DNSKinds, NEW link, NEW Done,
           EnsureRecord(records, kind, link, Done), mode \notin {"spectrum", "warp"},
           call.op = "sync", mode \in {"dns", "redirect"} \/ ServiceRows # {}
    PROVE  /\ Grown({})
           /\ (Done /\ lost' = lost) \/ Fail("refused", {}) \/ Fail("none", {})
<1>1. cloud' = cloud \/ cloud' = (cloud \ records) \cup {New(kind, Derived, link)}
  BY DEF EnsureRecord, Request, Refuses
<1>2. ASSUME NEW o \in cloud', Ours(o), o = New(kind, Derived, link)
      PROVE  Recorded(o) \/ Key(o) \in Unrecorded(cloud')
  <2>1. o.kind = kind
    BY <1>2 DEF New
  <2>2. CASE ServiceRows # {}
    BY <2>1, <2>2 DEF Recorded
  <2>3. CASE ServiceRows = {}
    BY <1>2, <2>1, <2>3 DEF Unrecorded
  <2> QED BY <2>2, <2>3
<1>3. New(kind, Derived, link).kind = kind /\ kind # "redirect"
  BY DEF New, DNSKinds
<1>4. Grown({})
  BY <1>1, <1>2, <1>3 DEF Grown
<1> QED BY <1>4 DEF EnsureRecord, Request, Refuses

LEMMA SyncEntryLedger ==
    ASSUME IInv, Ledger, SyncEntry
    PROVE  Ledger'
<1>1. /\ call.op = "sync" /\ call.pc = "entry" /\ mode' = mode /\ rows' = rows
      /\ mode \in {"tunnel", "workers", "dns", "redirect"}
      /\ mode \in {"dns", "redirect"} \/ ServiceRows # {}
  BY DEF SyncEntry, At, service, Ledger, Course, IInv, Recording, Underway
<1>2. /\ Grown({})
      /\ (EntryDone /\ lost' = lost) \/ Fail("refused", {}) \/ Fail("none", {})
  BY <1>1, RecordGrown DEF SyncEntry, DNSKinds
<1>3. CASE mode = "dns" /\ SaveNext("dns", Derived) /\ lost' = lost
  <2>1. /\ call' = [op |-> call.op, pc |-> "save", kind |-> "dns", id |-> Derived,
                    made |-> call.made, todo |-> call.todo]
        /\ result' = result
    BY <1>3, MovesCall DEF IInv
  <2>2. Base'
    BY <1>1, <1>2, <1>3, <2>1, GoOnBase DEF Ledger
  <2>3. \A r \in RowOf("dns")' : r.id = Derived
    BY <2>2 DEF Base, RowsOK, RowOf, DerivedKinds
  <2>4. Course' /\ Clearing'
    BY <1>1, <2>1, <2>3 DEF Course, Clearing
  <2> QED BY <2>2, <2>4 DEF Ledger
<1>4. CASE mode = "redirect" /\ Goto("origin") /\ lost' = lost
  <2>1. /\ call' = [op |-> call.op, pc |-> "origin", kind |-> call.kind, id |-> call.id,
                    made |-> call.made, todo |-> call.todo]
        /\ result' = result
    BY <1>4, MovesCall DEF IInv
  <2>2. Base'
    BY <1>1, <1>2, <1>4, <2>1, GoOnBase DEF Ledger
  <2>3. Course' /\ Clearing'
    BY <1>1, <1>4, <2>1 DEF Course, Clearing
  <2> QED BY <2>2, <2>3 DEF Ledger
<1>5. CASE mode \in {"tunnel", "workers"} /\ End("synced") /\ lost' = lost
  BY <1>1, <1>2, <1>5, SyncedLedger
<1>6. CASE mode = "workers" /\ RowOf("worker_route") = {} /\ CreateNext("worker_route")
           /\ lost' = lost
  BY <1>1, <1>2, <1>6, CreateNextLedger
<1>7. CASE Fail("refused", {}) \/ Fail("none", {})
  BY <1>1, <1>2, <1>7, BrokenLedger
<1> QED BY <1>2, <1>3, <1>4, <1>5, <1>6, <1>7 DEF EntryDone

LEMMA SyncOriginLedger ==
    ASSUME IInv, Ledger, SyncOrigin
    PROVE  Ledger'
<1> DEFINE next == IF mode = "redirect" THEN "rule" ELSE "upload"
<1>1. /\ call.op = "sync" /\ call.pc = "origin" /\ mode' = mode /\ rows' = rows
      /\ mode \in {"redirect", "workers"}
      /\ mode = "redirect" \/ [kind |-> "worker", id |-> Derived] \in rows
      /\ mode = "redirect" \/ ServiceRows # {}
  BY DEF SyncOrigin, At, service, Ledger, Course, IInv, Recording, Underway
<1>2. /\ Grown({})
      /\ (Goto(next) /\ lost' = lost) \/ Fail("refused", {}) \/ Fail("none", {})
  <2>1. EnsureRecord(ObjectsOf("origin"), "origin", address, Goto(next))
    BY Zenon DEF SyncOrigin
  <2>2. "origin" \in DNSKinds /\ mode \notin {"spectrum", "warp"}
        /\ (mode \in {"dns", "redirect"} \/ ServiceRows # {})
    BY <1>1 DEF DNSKinds
  <2> HIDE DEF next
  <2> QED BY <1>1, <2>1, <2>2, RecordGrown
<1>3. CASE Goto(next) /\ lost' = lost
  <2>1. /\ call' = [op |-> call.op, pc |-> next, kind |-> call.kind, id |-> call.id,
                    made |-> call.made, todo |-> call.todo]
        /\ result' = result
    BY <1>3, MovesCall DEF IInv
  <2>2. Base'
    BY <1>1, <1>2, <1>3, <2>1, GoOnBase DEF Ledger
  <2>3. Course' /\ Clearing'
    BY <1>1, <2>1 DEF Course, Clearing
  <2> QED BY <2>2, <2>3 DEF Ledger
<1>4. CASE Fail("refused", {}) \/ Fail("none", {})
  BY <1>1, <1>2, <1>4, BrokenLedger
<1> QED BY <1>2, <1>3, <1>4

LEMMA PlanTunnelLedger ==
    ASSUME IInv, Ledger, PlanTunnel
    PROVE  Ledger'
<1>1. /\ call.op = "sync" /\ call.pc = "plan" /\ mode \in {"tunnel", "warp"}
      /\ mode' = mode /\ rows' = rows /\ cloud' = cloud
  BY DEF PlanTunnel, At, Refuses, service
<1>2. \/ Fail("refused", {})
      \/ RowOf("tunnel") = {} /\ CreateNext("tunnel") /\ lost' = lost
      \/ /\ \E r \in RowOf("tunnel") : call' = [call EXCEPT !.pc = "configure", !.id = r.id]
         /\ lost' = lost /\ result' = result
  BY DEF PlanTunnel, Refuses
<1>3. Grown({})
  BY <1>1, Shrunk
<1>4. CASE Fail("refused", {})
  BY <1>1, <1>3, <1>4, BrokenLedger
<1>5. CASE RowOf("tunnel") = {} /\ CreateNext("tunnel") /\ lost' = lost
  BY <1>1, <1>3, <1>5, CreateNextLedger
<1>6. ASSUME NEW id, call' = [call EXCEPT !.pc = "configure", !.id = id],
             lost' = lost, result' = result
      PROVE  Ledger'
  <2>1. call' = [op |-> call.op, pc |-> "configure", kind |-> call.kind, id |-> id,
                 made |-> call.made, todo |-> call.todo]
    BY <1>6 DEF IInv, CallOK
  <2>2. Base'
    BY <1>1, <1>3, <1>6, <2>1, GoOnBase DEF Ledger
  <2>3. Course' /\ Clearing'
    BY <1>1, <2>1 DEF Course, Clearing
  <2> QED BY <2>2, <2>3 DEF Ledger
<1> QED BY <1>2, <1>4, <1>5, <1>6

LEMMA ConfigureLedger ==
    ASSUME IInv, Ledger, Configure
    PROVE  Ledger'
<1> DEFINE next == IF mode = "warp" THEN "put" ELSE "entry"
           old == {o \in ObjectsOf("tunnel") : o.id = call.id}
<1>1. /\ call.op = "sync" /\ call.pc = "configure" /\ mode' = mode /\ rows' = rows
      /\ mode \in {"tunnel", "warp"}
  BY DEF Configure, At, service, Ledger, Course
<1>2. /\ cloud' = (cloud \ old) \cup {[o EXCEPT !.link = Derived] : o \in old}
      /\ (Goto(next) /\ lost' = lost) \/ Fail("none", {})
  BY DEF Configure, Request
<1>3. Grown({})
  <2>1. \A o \in old : Key([o EXCEPT !.link = Derived]) = Key(o)
                       /\ (Ours([o EXCEPT !.link = Derived]) => Ours(o))
    BY DEF Key, Ours
  <2>2. \A o \in old : o \in cloud
    BY DEF ObjectsOf
  <2> QED BY <1>2, <2>1, <2>2, NotGrown
<1>4. CASE Fail("none", {})
  BY <1>1, <1>3, <1>4, BrokenLedger
<1>5. CASE Goto(next) /\ lost' = lost
  <2>1. /\ call' = [op |-> call.op, pc |-> next, kind |-> call.kind, id |-> call.id,
                    made |-> call.made, todo |-> call.todo]
        /\ result' = result
    BY <1>5, MovesCall DEF IInv
  <2>2. Base'
    BY <1>1, <1>3, <1>5, <2>1, GoOnBase DEF Ledger
  <2>3. Course' /\ Clearing'
    BY <1>1, <2>1 DEF Course, Clearing
  <2> QED BY <2>2, <2>3 DEF Ledger
<1> QED BY <1>2, <1>4, <1>5

LEMMA SyncPrivateRouteLedger ==
    ASSUME IInv, Ledger, SyncPrivateRoute
    PROVE  Ledger'
<1> DEFINE route == UNION {Named(r) : r \in RowOf("private_route")}
<1>1. /\ call.op = "sync" /\ call.pc = "put" /\ mode = "warp"
      /\ mode' = mode /\ rows' = rows /\ cloud' = cloud
  BY DEF SyncPrivateRoute, At, Refuses, service
<1>2. Grown({})
  BY <1>1, Shrunk
<1>3. \/ Fail("refused", {})
      \/ /\ ~Missing("private_route") /\ route = {} /\ CreateNext("private_route")
         /\ lost' = lost
      \/ End("synced") /\ lost' = lost
  BY DEF SyncPrivateRoute, Refuses
<1>4. CASE ~Missing("private_route") /\ route = {} /\ CreateNext("private_route")
           /\ lost' = lost
  <2>1. RowOf("private_route") = {}
    BY <1>4 DEF Missing
  <2> QED BY <1>1, <1>2, <1>4, <2>1, CreateNextLedger
<1> QED BY <1>1, <1>2, <1>3, <1>4, SyncedLedger, BrokenLedger

LEMMA PlanSpectrumLedger ==
    ASSUME IInv, Ledger, PlanSpectrum
    PROVE  Ledger'
<1>1. /\ call.op = "sync" /\ call.pc = "plan" /\ mode = "spectrum"
      /\ mode' = mode /\ rows' = rows /\ cloud' = cloud
  BY DEF PlanSpectrum, At, Refuses, service
<1>2. Grown({})
  BY <1>1, Shrunk
<1>3. \/ Fail("refused", {})
      \/ RowOf("spectrum") = {} /\ CreateNext("spectrum") /\ lost' = lost
      \/ Goto("put") /\ lost' = lost
  BY DEF PlanSpectrum, Refuses
<1>4. CASE Goto("put") /\ lost' = lost
  <2>1. /\ call' = [op |-> call.op, pc |-> "put", kind |-> call.kind, id |-> call.id,
                    made |-> call.made, todo |-> call.todo]
        /\ result' = result
    BY <1>4, MovesCall DEF IInv
  <2>2. Base'
    BY <1>1, <1>2, <1>4, <2>1, GoOnBase DEF Ledger
  <2> QED BY <1>1, <2>1, <2>2, FreeCourse DEF Ledger
<1> QED BY <1>1, <1>2, <1>3, <1>4, CreateNextLedger, BrokenLedger

LEMMA PutSpectrumLedger ==
    ASSUME IInv, Ledger, PutSpectrum
    PROVE  Ledger'
<1> DEFINE app == UNION {Named(r) : r \in RowOf("spectrum")}
<1>1. /\ call.op = "sync" /\ call.pc = "put" /\ mode = "spectrum"
      /\ mode' = mode /\ rows' = rows
  BY DEF PutSpectrum, At, service
<1>2. PICK o \in app :
        /\ cloud' = (cloud \ app) \cup {[o EXCEPT !.link = address]}
        /\ (SaveNext("spectrum", o.id) /\ lost' = lost) \/ Fail("none", {})
  BY DEF PutSpectrum, Request
<1>3. Grown({})
  <2>1. Key([o EXCEPT !.link = address]) = Key(o)
        /\ (Ours([o EXCEPT !.link = address]) => Ours(o))
    BY DEF Key, Ours
  <2>2. o \in cloud
    BY DEF Named
  <2> QED BY <1>2, <2>1, <2>2, NotGrown
<1>4. \A r \in RowOf("spectrum") : r.id = o.id
  <2>1. PICK q \in RowOf("spectrum") : o \in Named(q)
    OBVIOUS
  <2>2. q.id = o.id
    BY <2>1 DEF Named, Key
  <2>3. \A r \in RowOf("spectrum") : r = q
    BY DEF RowOf, Ledger, Base, RowsOK
  <2> QED BY <2>2, <2>3
<1>5. CASE Fail("none", {})
  BY <1>1, <1>3, <1>5, BrokenLedger
<1>6. CASE SaveNext("spectrum", o.id) /\ lost' = lost
  <2>1. /\ call' = [op |-> call.op, pc |-> "save", kind |-> "spectrum", id |-> o.id,
                    made |-> call.made, todo |-> call.todo]
        /\ result' = result
    BY <1>6, MovesCall DEF IInv
  <2>2. Base'
    BY <1>1, <1>3, <1>6, <2>1, GoOnBase DEF Ledger
  <2>3. \A r \in RowOf("spectrum")' : r.id = o.id
    BY <1>1, <1>4 DEF RowOf
  <2>4. Course' /\ Clearing'
    BY <1>1, <2>1, <2>3 DEF Course, Clearing, DerivedKinds
  <2> QED BY <2>2, <2>4 DEF Ledger
<1> QED BY <1>2, <1>5, <1>6

LEMMA PlanWorkerLedger ==
    ASSUME IInv, Ledger, PlanWorker
    PROVE  Ledger'
<1>1. /\ call.op = "sync" /\ call.pc = "plan" /\ mode = "workers"
      /\ mode' = mode /\ rows' = rows /\ cloud' = cloud
  BY DEF PlanWorker, At, Refuses, service
<1>2. Grown({})
  BY <1>1, Shrunk
<1>3. \/ Fail("refused", {})
      \/ /\ call' = [call EXCEPT !.pc = "intent", !.made = RowOf("worker") = {}]
         /\ lost' = lost /\ result' = result
  BY DEF PlanWorker, Refuses
<1>4. CASE /\ call' = [call EXCEPT !.pc = "intent", !.made = RowOf("worker") = {}]
           /\ lost' = lost /\ result' = result
  <2>1. call' = [op |-> call.op, pc |-> "intent", kind |-> call.kind, id |-> call.id,
                 made |-> RowOf("worker") = {}, todo |-> call.todo]
    BY <1>4 DEF IInv, CallOK
  <2>2. Base'
    BY <1>1, <1>2, <1>4, <2>1, GoOnBase DEF Ledger
  <2>3. Course' /\ Clearing'
    BY <1>1, <2>1 DEF Course, Clearing
  <2> QED BY <2>2, <2>3 DEF Ledger
<1> QED BY <1>1, <1>2, <1>3, <1>4, BrokenLedger

\* A row of a derived identifier.
LEMMA DerivedGrows ==
    ASSUME Ledger, NEW kind \in DerivedKinds, rows' = Saved(kind, Derived)
    PROVE  RowsOK' /\ rows \subseteq rows' /\ [kind |-> kind, id |-> Derived] \in rows'
<1>1. \A r \in RowOf(kind) : r.id = Derived
  BY DEF RowOf, Ledger, Base, RowsOK
<1> QED BY <1>1, SavedGrows DEF Ledger, Base

LEMMA SaveIntentLedger ==
    ASSUME IInv, Ledger, SaveIntent
    PROVE  Ledger'
<1>1. /\ call.op = "sync" /\ call.pc \in {"intent", "worker"} /\ mode = "workers"
      /\ mode' = mode /\ cloud' = cloud /\ lost' = lost
  BY DEF SaveIntent, service, Ledger, Course
<1>2. Grown({}) /\ Held = {}
  BY <1>1, Shrunk DEF Held
<1>3. \/ rows' = Saved("worker_dns", Derived) /\ Goto("worker")
      \/ rows' = Saved("worker", Derived) /\ Goto("origin")
      \/ rows' = rows /\ End("none")
  BY DEF SaveIntent
<1>4. CASE rows' = rows /\ End("none")
  BY <1>1, <1>2, <1>4, SyncedLedger
<1>5. CASE rows' = Saved("worker_dns", Derived) /\ Goto("worker")
  <2>1. /\ call' = [op |-> call.op, pc |-> "worker", kind |-> call.kind, id |-> call.id,
                    made |-> call.made, todo |-> call.todo]
        /\ result' = result
    BY <1>5, MovesCall DEF IInv
  <2>2. RowsOK' /\ rows \subseteq rows'
    BY <1>5, DerivedGrows DEF DerivedKinds
  <2>3. Base'
    BY <1>1, <1>2, <2>1, <2>2, GoBase DEF Ledger
  <2>4. Course' /\ Clearing'
    BY <1>1, <2>1 DEF Course, Clearing
  <2> QED BY <2>3, <2>4 DEF Ledger
<1>6. CASE rows' = Saved("worker", Derived) /\ Goto("origin")
  <2>1. /\ call' = [op |-> call.op, pc |-> "origin", kind |-> call.kind, id |-> call.id,
                    made |-> call.made, todo |-> call.todo]
        /\ result' = result
    BY <1>6, MovesCall DEF IInv
  <2>2. RowsOK' /\ rows \subseteq rows' /\ [kind |-> "worker", id |-> Derived] \in rows'
    BY <1>6, DerivedGrows DEF DerivedKinds
  <2>3. Base'
    BY <1>1, <1>2, <2>1, <2>2, GoBase DEF Ledger
  <2>4. Course' /\ Clearing'
    BY <1>1, <2>1, <2>2 DEF Course, Clearing
  <2> QED BY <2>3, <2>4 DEF Ledger
<1> QED BY <1>3, <1>4, <1>5, <1>6

LEMMA UploadWorkerLedger ==
    ASSUME IInv, Ledger, UploadWorker
    PROVE  Ledger'
<1>1. /\ call.op = "sync" /\ call.pc = "upload" /\ mode = "workers"
      /\ mode' = mode /\ rows' = rows
      /\ [kind |-> "worker", id |-> Derived] \in rows
  BY DEF UploadWorker, At, service, Ledger, Course
<1>2. /\ cloud' = (cloud \ ObjectsOf("worker")) \cup {New("worker", Derived, address)}
      /\ (Goto("keep") /\ lost' = lost) \/ Fail("none", {})
  BY DEF UploadWorker, Request
<1>3. Grown({})
  <2>1. Recorded(New("worker", Derived, address))
    BY <1>1 DEF Recorded, New, Key, DNSKinds
  <2>2. New("worker", Derived, address).kind = "worker"
    BY DEF New
  <2> QED BY <1>2, <2>1, <2>2 DEF Grown, DNSKinds
<1>4. CASE Fail("none", {})
  BY <1>1, <1>3, <1>4, BrokenLedger
<1>5. CASE Goto("keep") /\ lost' = lost
  <2>1. /\ call' = [op |-> call.op, pc |-> "keep", kind |-> call.kind, id |-> call.id,
                    made |-> call.made, todo |-> call.todo]
        /\ result' = result
    BY <1>5, MovesCall DEF IInv
  <2>2. Base'
    BY <1>1, <1>3, <1>5, <2>1, GoOnBase DEF Ledger
  <2>3. Course' /\ Clearing'
    BY <1>1, <2>1 DEF Course, Clearing
  <2> QED BY <2>2, <2>3 DEF Ledger
<1> QED BY <1>2, <1>4, <1>5

LEMMA SaveWorkerLedger ==
    ASSUME IInv, Ledger, SaveWorker
    PROVE  Ledger'
<1>1. /\ call.op = "sync" /\ call.pc = "keep" /\ mode = "workers"
      /\ mode' = mode /\ lost' = lost /\ cloud' \subseteq cloud
  BY DEF SaveWorker, At, service, Ledger, Course
<1>2. Grown({}) /\ Held = {}
  BY <1>1, Shrunk DEF Held
<1>3. \/ rows' = Saved("worker", Derived) /\ Goto("subdomain")
      \/ rows' = rows /\ End("none")
  BY DEF SaveWorker
<1>4. CASE rows' = rows /\ End("none")
  BY <1>1, <1>2, <1>4, SyncedLedger
<1>5. CASE rows' = Saved("worker", Derived) /\ Goto("subdomain")
  <2>1. /\ call' = [op |-> call.op, pc |-> "subdomain", kind |-> call.kind, id |-> call.id,
                    made |-> call.made, todo |-> call.todo]
        /\ result' = result
    BY <1>5, MovesCall DEF IInv
  <2>2. RowsOK' /\ rows \subseteq rows'
    BY <1>5, DerivedGrows DEF DerivedKinds
  <2>3. Base'
    BY <1>1, <1>2, <2>1, <2>2, GoBase DEF Ledger
  <2>4. Course' /\ Clearing'
    BY <1>1, <2>1 DEF Course, Clearing
  <2> QED BY <2>3, <2>4 DEF Ledger
<1> QED BY <1>3, <1>4, <1>5

LEMMA PassingLedger ==
    ASSUME IInv, Ledger, DisableSubdomain \/ PlanRecord
    PROVE  Ledger'
<1>1. /\ call.op = "sync" /\ call.pc \in {"subdomain", "plan"}
      /\ mode \in {"workers", "dns", "redirect"}
      /\ mode' = mode /\ rows' = rows /\ cloud' = cloud /\ lost' = lost /\ Goto("entry")
  BY DEF DisableSubdomain, PlanRecord, At, service, Ledger, Course
<1>2. /\ call' = [op |-> call.op, pc |-> "entry", kind |-> call.kind, id |-> call.id,
                  made |-> call.made, todo |-> call.todo]
      /\ result' = result
  BY <1>1, MovesCall DEF IInv
<1>3. Grown({})
  BY <1>1, Shrunk
<1>4. Base'
  BY <1>1, <1>2, <1>3, GoOnBase DEF Ledger
<1>5. Course' /\ Clearing'
  BY <1>1, <1>2 DEF Course, Clearing
<1> QED BY <1>4, <1>5 DEF Ledger

LEMMA SyncRuleLedger ==
    ASSUME IInv, Possession, Ledger, SyncRule
    PROVE  Ledger'
<1> DEFINE old == {o \in ObjectsOf("redirect") : Ours(o)}
           new == New("redirect", Derived, address)
<1>1. /\ call.op = "sync" /\ call.pc = "rule" /\ mode = "redirect"
      /\ mode' = mode /\ rows' = rows
      /\ cloud' = (cloud \ old) \cup {new}
      /\ (SaveNext("redirect", Derived) /\ lost' = lost) \/ Fail("none", {})
  BY DEF SyncRule, At, service, Request, Possession, Restrained
<1>2. Grown({})
  <2>1. new.kind = "redirect" /\ Ours(new) /\ new \in cloud'
    BY <1>1 DEF New, Ours
  <2>2. Recorded(new) \/ Key(new) \in Unrecorded(cloud')
    <3>1. CASE ServiceRows # {}
      BY <2>1, <3>1 DEF Recorded
    <3>2. CASE ServiceRows = {}
      BY <1>1, <2>1, <3>2 DEF Unrecorded
    <3> QED BY <3>1, <3>2
  <2> QED BY <1>1, <2>1, <2>2 DEF Grown, DNSKinds
<1>3. CASE Fail("none", {})
  BY <1>1, <1>2, <1>3, BrokenLedger
<1>4. CASE SaveNext("redirect", Derived) /\ lost' = lost
  <2>1. /\ call' = [op |-> call.op, pc |-> "save", kind |-> "redirect", id |-> Derived,
                    made |-> call.made, todo |-> call.todo]
        /\ result' = result
    BY <1>4, MovesCall DEF IInv
  <2>2. Base'
    BY <1>1, <1>2, <1>4, <2>1, GoOnBase DEF Ledger
  <2>3. \A r \in RowOf("redirect")' : r.id = Derived
    BY <2>2 DEF Base, RowsOK, RowOf, DerivedKinds
  <2>4. Course' /\ Clearing'
    BY <1>1, <2>1, <2>3 DEF Course, Clearing
  <2> QED BY <2>2, <2>4 DEF Ledger
<1> QED BY <1>1, <1>3, <1>4

-------------------------------------------------------------------------------
(* Cleanup *)

\* The clauses of Course are about publications.
LEMMA NoCourse ==
    ASSUME call'.op # "sync", call'.pc \notin {"create", "save"}
    PROVE  Course'
BY DEF Course

LEMMA StaysCleared ==
    ASSUME cloud' \subseteq cloud, NEW r, Cleared(r)
    PROVE  Cleared(r)'
BY DEF Cleared, Ours, Key

\* What a row entitles to delete is gone.
LEMMA RowCleared ==
    ASSUME NEW r, \A o \in cloud' : o \in cloud /\ o \notin Removable(r)
    PROVE  Cleared(r)'
<1>1. ASSUME NEW o \in cloud', Key(o) = r
      PROVE  ~Ours(o)
  <2>1. o \in cloud /\ o \notin Removable(r)
    OBVIOUS
  <2>2. o.kind = r.kind
    BY <1>1 DEF Key
  <2> QED BY <1>1, <2>1, <2>2 DEF Removable, ObjectsOf, Named
<1> QED BY <1>1 DEF Cleared, Ours, Key

LEMMA CleanupRowLedger ==
    ASSUME IInv, Ledger, NEW r, CleanupRow(r)
    PROVE  Ledger'
<1>1. /\ call.op = "cleanup" /\ call.pc = "remove" /\ mode' = mode /\ rows' = rows
      /\ r \in call.todo
  BY DEF CleanupRow, At, service
<1>2. \/ /\ call' = [call EXCEPT !.todo = @ \ {r}] /\ result' = result /\ lost' = lost
         /\ \/ Removable(r) = {} /\ cloud' = cloud
            \/ cloud' = cloud \ Removable(r)
      \/ cloud' \subseteq cloud /\ (Fail("stuck", {}) \/ Fail("none", {}))
  BY DEF CleanupRow, Request
<1>3. CASE cloud' \subseteq cloud /\ (Fail("stuck", {}) \/ Fail("none", {}))
  <2>1. Grown({})
    BY <1>3, Shrunk
  <2> QED BY <1>1, <1>3, <2>1, BrokenLedger
<1>4. CASE /\ call' = [call EXCEPT !.todo = @ \ {r}] /\ result' = result /\ lost' = lost
           /\ \/ Removable(r) = {} /\ cloud' = cloud
              \/ cloud' = cloud \ Removable(r)
  <2>1. call' = [op |-> call.op, pc |-> call.pc, kind |-> call.kind, id |-> call.id,
                 made |-> call.made, todo |-> call.todo \ {r}]
    BY <1>4 DEF IInv, CallOK
  <2>2. cloud' \subseteq cloud /\ Grown({})
    BY <1>4, Shrunk
  <2>3. Base'
    BY <1>1, <1>4, <2>1, <2>2, GoOnBase DEF Ledger
  <2>4. Course'
    BY <1>1, <2>1, NoCourse
  <2>5. Cleared(r)'
    BY <1>4, RowCleared
  <2>6. ASSUME NEW q \in ServiceRows', q \notin call'.todo
        PROVE  Cleared(q)'
    <3>1. q \in ServiceRows
      BY <1>1 DEF ServiceRows
    <3>2. CASE q = r
      BY <2>5, <3>2
    <3>3. CASE q # r
      <4>1. Cleared(q)
        BY <1>1, <2>1, <2>6, <3>1, <3>3 DEF Ledger, Clearing
      <4> QED BY <2>2, <4>1, StaysCleared
    <3> QED BY <3>2, <3>3
  <2>7. Clearing'
    BY <1>1, <2>1, <2>6 DEF Clearing
  <2> QED BY <2>3, <2>4, <2>7 DEF Ledger
<1> QED BY <1>2, <1>3, <1>4

LEMMA CleanupRowsDoneLedger ==
    ASSUME IInv, Ledger, CleanupRowsDone
    PROVE  Ledger'
<1> DEFINE next == IF mode = "redirect" THEN "rules" ELSE "records"
<1>1. /\ call.op = "cleanup" /\ call.pc = "remove" /\ call.todo = {} /\ mode' = mode
      /\ rows' = rows /\ cloud' = cloud /\ lost' = lost /\ Goto(next)
  BY DEF CleanupRowsDone, At, service
<1>2. /\ call' = [op |-> call.op, pc |-> next, kind |-> call.kind, id |-> call.id,
                  made |-> call.made, todo |-> call.todo]
      /\ result' = result
  BY <1>1, MovesCall DEF IInv
<1>3. Grown({})
  BY <1>1, Shrunk
<1>4. Base'
  BY <1>1, <1>2, <1>3, GoOnBase DEF Ledger
<1>5. Course'
  BY <1>1, <1>2, NoCourse
<1>6. ASSUME NEW q \in ServiceRows'
      PROVE  Cleared(q)'
  <2>1. q \in ServiceRows
    BY <1>1 DEF ServiceRows
  <2>2. Cleared(q)
    BY <1>1, <2>1 DEF Ledger, Clearing
  <2> QED BY <1>1, <2>2, StaysCleared
<1>7. mode # "redirect" =>
        \A o \in cloud' : Ours(o)' /\ o.kind = "redirect" => Key(o)' \in lost'
  BY <1>1, <1>4 DEF Base, OtherModes
<1>8. Clearing'
  BY <1>1, <1>2, <1>6, <1>7 DEF Clearing
<1> QED BY <1>4, <1>5, <1>8 DEF Ledger

\* A step of a cleanup after the rows' objects.
LEMMA CleanedOn ==
    ASSUME IInv, Ledger, call.op = "cleanup", call.pc \in {"rules", "records"},
           mode' = mode, rows' = rows, cloud' \subseteq cloud, lost' = lost, result' = result,
           call'.op = call.op, call'.pc \in {"records", "forget"},
           call.pc = "rules" =>
               \A o \in cloud' : Ours(o) /\ o.kind = "redirect" => Key(o) \in lost,
           call'.pc = "forget" =>
               /\ call.pc = "records"
               /\ \A o \in cloud' : Ours(o) /\ o.kind \in DNSKinds => Key(o) \in lost
    PROVE  Ledger'
<1>1. Grown({})
  BY Shrunk
<1>2. Base'
  BY <1>1, GoOnBase DEF Ledger
<1>3. Course'
  BY NoCourse
<1>4. ASSUME NEW q \in ServiceRows'
      PROVE  Cleared(q)'
  <2>1. q \in ServiceRows
    BY DEF ServiceRows
  <2>2. Cleared(q)
    BY <2>1 DEF Ledger, Clearing
  <2> QED BY <2>2, StaysCleared
<1>5. \A o \in cloud' : Ours(o) /\ o.kind = "redirect" => Key(o) \in lost
  BY DEF Ledger, Clearing
<1>6. Clearing'
  BY <1>4, <1>5 DEF Clearing, Ours, Key
<1> QED BY <1>2, <1>3, <1>6 DEF Ledger

LEMMA CleanupRulesLedger ==
    ASSUME IInv, Ledger, CleanupRules
    PROVE  Ledger'
<1> DEFINE rules == {o \in ObjectsOf("redirect") : Ours(o)}
<1>1. /\ call.op = "cleanup" /\ call.pc = "rules" /\ mode' = mode /\ rows' = rows
      /\ (cloud' = cloud /\ rules = {}) \/ cloud' = cloud \ rules
      /\ (Goto("records") /\ lost' = lost) \/ Fail("none", {})
  BY DEF CleanupRules, At, service, Request
<1>2. Grown({})
  BY <1>1, Shrunk
<1>3. CASE Goto("records") /\ lost' = lost
  <2>1. /\ call' = [op |-> call.op, pc |-> "records", kind |-> call.kind, id |-> call.id,
                    made |-> call.made, todo |-> call.todo]
        /\ result' = result
    BY <1>3, MovesCall DEF IInv
  <2>2. \A o \in cloud' : ~ (Ours(o) /\ o.kind = "redirect")
    BY <1>1 DEF ObjectsOf
  <2> QED BY <1>1, <1>3, <2>1, <2>2, CleanedOn
<1> QED BY <1>1, <1>2, <1>3, BrokenLedger

LEMMA CleanupRecordsLedger ==
    ASSUME IInv, Ledger, CleanupRecords
    PROVE  Ledger'
<1> DEFINE records == {o \in cloud : /\ o.kind \in DNSKinds
                                     /\ Ours(o)
                                     /\ mode \notin {"spectrum", "warp"}}
<1>1. /\ call.op = "cleanup" /\ call.pc = "records" /\ mode' = mode /\ rows' = rows
      /\ cloud' \subseteq cloud
      /\ \/ records = {} /\ Goto("forget") /\ lost' = lost
         \/ UNCHANGED <<call, result>> /\ lost' = lost
         \/ Fail("none", {})
  BY DEF CleanupRecords, At, service, Request
<1>2. Grown({})
  BY <1>1, Shrunk
<1>3. CASE records = {} /\ Goto("forget") /\ lost' = lost
  <2>1. /\ call' = [op |-> call.op, pc |-> "forget", kind |-> call.kind, id |-> call.id,
                    made |-> call.made, todo |-> call.todo]
        /\ result' = result
    BY <1>3, MovesCall DEF IInv
  <2>2. \A o \in cloud' : Ours(o) /\ o.kind \in DNSKinds => Key(o) \in lost
    BY <1>1, <1>3 DEF Ledger, Base, OtherModes
  <2> QED BY <1>1, <1>3, <2>1, <2>2, CleanedOn
<1>4. CASE UNCHANGED <<call, result>> /\ lost' = lost
  BY <1>1, <1>4, CleanedOn
<1> QED BY <1>1, <1>2, <1>3, <1>4, BrokenLedger

LEMMA ForgetRowLedger ==
    ASSUME IInv, Ledger, ForgetRow
    PROVE  Ledger'
<1>1. /\ call.op = "cleanup" /\ call.pc = "forget"
      /\ mode' = mode /\ cloud' = cloud /\ lost' = lost
  BY DEF ForgetRow, At, service
<1>2. Grown({})
  BY <1>1, Shrunk
<1>3. ASSUME NEW o \in cloud, Ours(o), Key(o) \notin lost
      PROVE  Key(o) \in rows /\ o.kind = "access"
  <2>1. o.kind \notin DNSKinds \cup {"redirect"}
    BY <1>1, <1>3 DEF Ledger, Clearing
  <2>2. Key(o) \in rows
    BY <1>1, <1>3, <2>1 DEF Ledger, Base, NothingForgotten, Recorded, Held, Unrecorded
  <2>3. Key(o) \notin ServiceRows
    BY <1>1, <1>3 DEF Ledger, Clearing, Cleared
  <2> QED BY <2>2, <2>3 DEF ServiceRows, Key
<1>4. \/ /\ \E r \in ServiceRows : rows' = rows \ {r}
         /\ UNCHANGED <<call, result>>
      \/ ServiceRows = {} /\ rows' = rows /\ End("cleaned")
      \/ rows' = rows /\ End("none")
  BY DEF ForgetRow
<1>5. ASSUME NEW r \in ServiceRows, rows' = rows \ {r}, UNCHANGED <<call, result>>
      PROVE  Ledger'
  <2>1. RowsOK'
    BY <1>5 DEF Ledger, Base, RowsOK, RowsShaped
  <2>2. OtherModes'
    BY <1>1 DEF Ledger, Base, OtherModes, Ours, Key
  <2>3. ASSUME NEW o \in cloud', Ours(o)
        PROVE  Recorded(o)' \/ Key(o) \in lost'
    <3>1. CASE Key(o) \in lost
      BY <1>1, <3>1
    <3>2. CASE Key(o) \notin lost
      <4>1. Key(o) \in rows /\ o.kind = "access"
        BY <1>1, <1>3, <2>3, <3>2
      <4>2. Key(o) # r
        BY <4>1 DEF Key, ServiceRows
      <4>3. Key(o) \in rows'
        BY <1>5, <4>1, <4>2
      <4> QED BY <4>1, <4>3 DEF Recorded, DNSKinds, Key
    <3> QED BY <3>1, <3>2
  <2>4. NothingForgotten'
    BY <2>3 DEF NothingForgotten, Ours, Key
  <2>5. result = "none"
    BY <1>1 DEF Ledger, Base, Told, Idle
  <2>6. Told' /\ CleanedMeansGone'
    BY <1>5, <2>5 DEF Told, CleanedMeansGone
  <2>7. Course'
    BY <1>1, <1>5, NoCourse
  <2>8. Clearing'
    BY <1>1, <1>5 DEF Ledger, Clearing, ServiceRows, Cleared, Ours, Key
  <2> QED BY <2>1, <2>2, <2>4, <2>6, <2>7, <2>8 DEF Ledger, Base
<1>6. CASE ServiceRows = {} /\ rows' = rows /\ End("cleaned")
  <2>1. CleanedMeansGone'
    BY <1>1, <1>3, <1>6 DEF CleanedMeansGone, ServiceRows, Ours, Key
  <2>2. RowsOK' /\ call' = Idle
    BY <1>6 DEF End, Ledger, Base, RowsOK, RowsShaped
  <2>3. Unrecorded(cloud') = {} /\ Held = {}
    BY <1>1 DEF Unrecorded, Held
  <2> QED BY <1>1, <1>2, <1>6, <2>1, <2>2, <2>3, EndLedger DEF Ledger
<1>7. CASE rows' = rows /\ End("none")
  BY <1>1, <1>2, <1>7, SyncedLedger
<1> QED BY <1>4, <1>5, <1>6, <1>7

-------------------------------------------------------------------------------
(* Access *)

LEMMA PlanAccessLedger ==
    ASSUME IInv, Ledger, PlanAccess
    PROVE  Ledger'
<1>1. /\ call.op = "access" /\ call.pc = "plan"
      /\ mode' = mode /\ rows' = rows /\ cloud' = cloud
  BY DEF PlanAccess, At, Refuses, service
<1>2. Grown({})
  BY <1>1, Shrunk
<1>3. \/ Fail("refused", {})
      \/ RowOf("access") = {} /\ CreateNext("access") /\ lost' = lost
      \/ Goto("put") /\ lost' = lost
  BY DEF PlanAccess, Refuses
<1>4. CASE Goto("put") /\ lost' = lost
  <2>1. /\ call' = [op |-> call.op, pc |-> "put", kind |-> call.kind, id |-> call.id,
                    made |-> call.made, todo |-> call.todo]
        /\ result' = result
    BY <1>4, MovesCall DEF IInv
  <2>2. Base'
    BY <1>1, <1>2, <1>4, <2>1, GoOnBase DEF Ledger
  <2> QED BY <1>1, <2>1, <2>2, FreeCourse DEF Ledger
<1> QED BY <1>1, <1>2, <1>3, <1>4, CreateNextLedger, BrokenLedger

LEMMA PutAccessLedger ==
    ASSUME IInv, Ledger, PutAccess
    PROVE  Ledger'
<1>1. /\ call.op = "access" /\ call.pc = "put"
      /\ mode' = mode /\ rows' = rows /\ cloud' = cloud
      /\ \/ \E r \in RowOf("access") : SaveNext("access", r.id) /\ lost' = lost
         \/ Fail("none", {})
  BY DEF PutAccess, At, Request, service
<1>2. Grown({})
  BY <1>1, Shrunk
<1>3. ASSUME NEW r \in RowOf("access"), SaveNext("access", r.id), lost' = lost
      PROVE  Ledger'
  <2>1. /\ call' = [op |-> call.op, pc |-> "save", kind |-> "access", id |-> r.id,
                    made |-> call.made, todo |-> call.todo]
        /\ result' = result
    BY <1>3, MovesCall DEF IInv
  <2>2. Base'
    BY <1>1, <1>2, <1>3, <2>1, GoOnBase DEF Ledger
  <2>3. \A q \in RowOf("access")' : q.id = r.id
    BY <1>1 DEF RowOf, Ledger, Base, RowsOK
  <2>4. Course' /\ Clearing'
    BY <1>1, <2>1, <2>3 DEF Course, Clearing, DerivedKinds
  <2> QED BY <2>2, <2>4 DEF Ledger
<1> QED BY <1>1, <1>2, <1>3, BrokenLedger

LEMMA VerifyAccessLedger ==
    ASSUME Ledger, VerifyAccess
    PROVE  Ledger'
<1>1. /\ call.op = "access" /\ call.pc = "verify" /\ End("none")
      /\ mode' = mode /\ rows' = rows /\ cloud' = cloud /\ lost' = lost
  BY DEF VerifyAccess, At, service
<1>2. Grown({})
  BY <1>1, Shrunk
<1> QED BY <1>1, <1>2, SyncedLedger

LEMMA RemoveAccessLedger ==
    ASSUME IInv, Ledger, RemoveAccess
    PROVE  Ledger'
<1> DEFINE app == UNION {Named(r) : r \in RowOf("access")}
<1>1. /\ call.op = "unprotect" /\ call.pc = "remove" /\ mode' = mode /\ rows' = rows
      /\ cloud' \subseteq cloud
      /\ \/ /\ Goto("forget") /\ lost' = lost
            /\ cloud' = cloud \ app
         \/ Fail("refused", {}) \/ Fail("none", {})
  BY DEF RemoveAccess, At, service, Refuses, Request
<1>2. Grown({})
  BY <1>1, Shrunk
<1>3. CASE Goto("forget") /\ lost' = lost /\ cloud' = cloud \ app
  <2>1. /\ call' = [op |-> call.op, pc |-> "forget", kind |-> call.kind, id |-> call.id,
                    made |-> call.made, todo |-> call.todo]
        /\ result' = result
    BY <1>3, MovesCall DEF IInv
  <2>2. Base'
    BY <1>1, <1>2, <1>3, <2>1, GoOnBase DEF Ledger
  <2>3. Course'
    BY <1>1, <2>1, NoCourse
  <2>4. \A r \in RowOf("access")' : Cleared(r)'
    BY <1>1, <1>3 DEF RowOf, Cleared, Named, Key
  <2>5. Clearing'
    BY <1>1, <2>1, <2>4 DEF Clearing
  <2> QED BY <2>2, <2>3, <2>5 DEF Ledger
<1> QED BY <1>1, <1>2, <1>3, BrokenLedger

LEMMA ForgetAccessLedger ==
    ASSUME IInv, Ledger, ForgetAccess
    PROVE  Ledger'
<1>1. /\ call.op = "unprotect" /\ call.pc = "forget"
      /\ mode' = mode /\ cloud' = cloud /\ lost' = lost /\ End("none")
      /\ rows' = ServiceRows \/ rows' = rows
  BY DEF ForgetAccess, At, service
<1>2. CASE rows' = rows
  <2>1. Grown({})
    BY <1>1, Shrunk
  <2> QED BY <1>1, <1>2, <2>1, SyncedLedger
<1>3. CASE rows' = ServiceRows
  <2>1. RowsOK' /\ ServiceRows' = ServiceRows
    BY <1>3 DEF Ledger, Base, RowsOK, RowsShaped, ServiceRows
  <2>2. OtherModes'
    BY <1>1 DEF Ledger, Base, OtherModes, Ours, Key
  <2>3. ASSUME NEW o \in cloud, Ours(o)
        PROVE  Recorded(o)' \/ Key(o) \in lost'
    <3>1. Recorded(o) \/ Key(o) \in lost
      BY <1>1, <2>3 DEF Ledger, Base, NothingForgotten, Held, Unrecorded
    <3>2. Key(o) \in rows => Key(o) \in ServiceRows
      <4>1. Key(o) \notin RowOf("access")
        BY <1>1, <2>3 DEF Ledger, Clearing, Cleared
      <4> QED BY <4>1 DEF RowOf, ServiceRows
    <3> QED BY <1>1, <1>3, <2>1, <3>1, <3>2 DEF Recorded, Key
  <2>4. NothingForgotten'
    BY <1>1, <2>3 DEF NothingForgotten, Ours, Key
  <2>5. Told' /\ CleanedMeansGone' /\ Course' /\ Clearing'
    BY <1>1 DEF End, Told, CleanedMeansGone, Course, Clearing, Idle
  <2> QED BY <2>1, <2>2, <2>4, <2>5 DEF Ledger, Base
<1> QED BY <1>1, <1>2, <1>3

-------------------------------------------------------------------------------
(* Every step *)

LEMMA NextLedger ==
    ASSUME IInv, Possession, Ledger, [Next]_vars
    PROVE  Ledger'
<1>1. CASE Publish
  BY <1>1, PlanTunnelLedger, ConfigureLedger, SyncPrivateRouteLedger,
     PlanSpectrumLedger, PutSpectrumLedger, PlanWorkerLedger, SaveIntentLedger,
     UploadWorkerLedger, SaveWorkerLedger, PassingLedger, SyncRuleLedger,
     SyncEntryLedger, SyncOriginLedger, PlanAccessLedger, PutAccessLedger,
     VerifyAccessLedger
  DEF Publish
<1>2. CASE Clean
  BY <1>2, CleanupRowLedger, CleanupRowsDoneLedger, CleanupRulesLedger,
     CleanupRecordsLedger, ForgetRowLedger, RemoveAccessLedger, ForgetAccessLedger
  DEF Clean
<1>3. CASE UNCHANGED vars
  BY <1>3 DEF vars, Ledger, Base, RowsOK, RowsShaped, OtherModes, NothingForgotten,
     Recorded, Unrecorded, Held, ServiceRows, RowOf, Told, CleanedMeansGone, Course,
     Clearing, Cleared, Ours, Key
<1> QED
  BY <1>1, <1>2, <1>3, ServiceLedger, EditLedger, BeginningLedger, CreateLedger,
     SaveResourceLedger, UndoLedger, CallFailsLedger, RestartLedger
  DEF Next

LEMMA LedgerKept == Spec => []Ledger
<1> DEFINE Inv == IInv /\ Possession /\ edits \in Nat /\ Ledger
<1>1. Init => Inv
  <2>1. Init => IInv
    BY Initially
  <2>2. Init => Possession
    BY DEF Init, Idle, Possession, RowsShaped, Restrained, Checked
  <2>3. Init => Ledger
    BY DEF Init, Idle, Ledger, Base, RowsOK, RowsShaped, OtherModes, NothingForgotten,
       Told, CleanedMeansGone, Course, Clearing
  <2> QED BY <2>1, <2>2, <2>3 DEF Init
<1>2. Inv /\ [Next]_vars => Inv'
  BY NextStep, NextCareful, EditsCount, NextLedger DEF Step, Careful
<1> QED BY <1>1, <1>2, PTL DEF Spec

\* Whatever fails, whenever the program ends and whatever others do: an object that
\* StunDeck has made has a row that leads to it, or belongs to the call under way,
\* or is one of those whose identifier a fault has lost.
THEOREM NothingIsForgotten == Spec => []NothingForgotten
<1>1. Ledger => NothingForgotten
  BY DEF Ledger, Base
<1> QED BY <1>1, LedgerKept, PTL

\* A cleanup reports success only when no row and no object of the service is left,
\* but what a fault has lost.
THEOREM CleanedIsGone == Spec => []CleanedMeansGone
<1>1. Ledger => CleanedMeansGone
  BY DEF Ledger, Base
<1> QED BY <1>1, LedgerKept, PTL

-------------------------------------------------------------------------------
(* Types *)

Identifiers == Ids \cup {Derived, None}

Results == {"none", "synced", "cleaned", "refused", "stuck"}

Pcs == {"idle", "plan", "create", "save", "undo", "put", "configure", "entry", "origin",
        "rule", "intent", "worker", "upload", "keep", "subdomain", "verify", "remove",
        "rules", "records", "forget"}

Calls == [op : {"none", "sync", "cleanup", "access", "unprotect"}, pc : Pcs,
          kind : RowKinds, id : Identifiers, made : BOOLEAN, todo : SUBSET Keys]

LEMMA KeysOf ==
    ASSUME NEW o \in Objects
    PROVE  Key(o) \in Keys
BY DEF Objects, Keys, Key

LEMMA MadeTyped ==
    ASSUME NEW kind \in ObjectKinds, NEW id \in Identifiers,
           NEW link \in Identifiers \cup Addresses
    PROVE  New(kind, id, link) \in Objects /\ Foreign(kind, id) \in Objects
BY DEF New, Foreign, Objects, Identifiers

LEMMA RowTyped ==
    ASSUME NEW kind \in RowKinds, NEW id \in Identifiers, rows \subseteq Keys
    PROVE  Saved(kind, id) \subseteq Keys
BY DEF Saved, Keys, Identifiers

LEMMA ReachedTyped ==
    ASSUME cloud' \subseteq Objects
    PROVE  Unrecorded(cloud') \subseteq Keys
BY KeysOf DEF Unrecorded

LEMMA HeldTyped ==
    ASSUME TypeOK
    PROVE  Held \subseteq Keys
BY DEF TypeOK, Held, Keys

LEMMA IdleTyped == Idle \in Calls
BY DEF Idle, Calls, Pcs, RowKinds, ServiceKinds, Identifiers

\* A step within or at the end of a call.
LEMMA StepTyped ==
    ASSUME TypeOK, UNCHANGED service, rows' \subseteq Keys, cloud' \subseteq Objects,
           lost' \subseteq Keys, call' \in Calls, result' \in Results,
           torn' \subseteq {"service", "access"}
    PROVE  TypeOK'
BY DEF TypeOK, service, Calls, Results, Pcs, Identifiers

LEMMA FailTyped ==
    ASSUME TypeOK, UNCHANGED <<service, rows>>, cloud' \subseteq Objects,
           torn' \subseteq {"service", "access"}, NEW keys \in SUBSET Keys,
           NEW r \in {"none", "refused", "stuck"}, Fail(r, keys)
    PROVE  TypeOK'
<1>1. call' \in Calls /\ result' \in Results
  BY IdleTyped DEF Fail, End, Results
<1>2. lost' \subseteq Keys
  BY ReachedTyped DEF TypeOK, Fail
<1> QED BY <1>1, <1>2, StepTyped DEF TypeOK

\* What the steps of a call make of it.
LEMMA MovedTyped ==
    ASSUME IInv, TypeOK, NEW pc \in Pcs, NEW kind \in RowKinds, NEW id \in Identifiers,
           \/ Goto(pc)
           \/ CreateNext(kind)
           \/ SaveNext(kind, id)
           \/ \E r \in Results : End(r)
    PROVE  call' \in Calls /\ result' \in Results
<1>1. /\ call.op \in {"none", "sync", "cleanup", "access", "unprotect"}
      /\ call.kind \in RowKinds /\ call.id \in Identifiers /\ call.made \in BOOLEAN
      /\ call.todo \in SUBSET Keys /\ result \in Results
  BY DEF TypeOK, Identifiers, Results
<1>2. "create" \in Pcs /\ "save" \in Pcs
  BY DEF Pcs
<1>3. CASE Goto(pc)
  <2>1. /\ call' = [op |-> call.op, pc |-> pc, kind |-> call.kind, id |-> call.id,
                    made |-> call.made, todo |-> call.todo]
        /\ result' = result
    BY <1>3, MovesCall DEF IInv
  <2> QED BY <1>1, <2>1 DEF Calls
<1>4. CASE CreateNext(kind)
  <2>1. /\ call' = [op |-> call.op, pc |-> "create", kind |-> kind, id |-> call.id,
                    made |-> TRUE, todo |-> call.todo]
        /\ result' = result
    BY <1>4, MovesCall DEF IInv
  <2> QED BY <1>1, <1>2, <2>1 DEF Calls
<1>5. CASE SaveNext(kind, id)
  <2>1. /\ call' = [op |-> call.op, pc |-> "save", kind |-> kind, id |-> id,
                    made |-> call.made, todo |-> call.todo]
        /\ result' = result
    BY <1>5, MovesCall DEF IInv
  <2> QED BY <1>1, <1>2, <2>1 DEF Calls
<1>6. CASE \E r \in Results : End(r)
  BY <1>6, IdleTyped DEF End
<1> QED BY <1>3, <1>4, <1>5, <1>6

LEMMA MoveTyped ==
    ASSUME IInv, TypeOK, UNCHANGED service, rows' \subseteq Keys, cloud' \subseteq Objects,
           lost' = lost, torn' \subseteq {"service", "access"},
           NEW pc \in Pcs, NEW kind \in RowKinds, NEW id \in Identifiers,
           \/ Goto(pc)
           \/ CreateNext(kind)
           \/ SaveNext(kind, id)
           \/ \E r \in Results : End(r)
    PROVE  TypeOK'
<1>1. call' \in Calls /\ result' \in Results
  BY MovedTyped
<1> QED BY <1>1, StepTyped DEF TypeOK

LEMMA ServiceTyped ==
    ASSUME TypeOK, \/ \E m \in Modes \cup {"direct"} : UpdateService(m)
                   \/ DeleteService
                   \/ \E x \in Addresses : Remap(x)
    PROVE  TypeOK'
<1>1. mode' \in Modes \cup {"direct", "deleted"} /\ address' \in Addresses
      /\ UNCHANGED <<cloud, rows, call, lost, torn, edits>> /\ result' = "none"
  BY DEF UpdateService, DeleteService, Remap, TypeOK
<1> QED BY <1>1 DEF TypeOK

LEMMA EditTyped ==
    ASSUME TypeOK, Edit
    PROVE  TypeOK'
<1>1. \A kind \in InTheWay \cup {o.kind : o \in cloud} : kind \in ObjectKinds
  BY DEF InTheWay, ObjectKinds, DNSKinds, ServiceKinds, TypeOK, Objects
<1>2. cloud' \subseteq Objects
  <2>1. ASSUME NEW kind \in InTheWay, NEW id \in {Derived, None},
               cloud' = cloud \cup {Foreign(kind, id)}
        PROVE  cloud' \subseteq Objects
    <3>1. Foreign(kind, id) \in Objects
      BY <1>1, MadeTyped DEF Identifiers
    <3> QED BY <2>1, <3>1 DEF TypeOK
  <2>2. ASSUME NEW o \in cloud, cloud' = (cloud \ {o}) \cup {Foreign(o.kind, o.id)}
        PROVE  cloud' \subseteq Objects
    <3>1. o.kind \in ObjectKinds /\ o.id \in Identifiers
      BY DEF TypeOK, Objects, Identifiers
    <3>2. Foreign(o.kind, o.id) \in Objects
      BY <3>1, MadeTyped DEF Identifiers
    <3> QED BY <2>2, <3>2 DEF TypeOK
  <2>3. \/ \E kind \in InTheWay : \E id \in {Derived, None} :
             cloud' = cloud \cup {Foreign(kind, id)}
        \/ \E o \in cloud : cloud' = (cloud \ {o}) \cup {Foreign(o.kind, o.id)}
        \/ cloud' \subseteq cloud
    BY DEF Edit
  <2> QED BY <2>1, <2>2, <2>3 DEF TypeOK
<1>3. edits' \in Nat /\ result' = "none" /\ UNCHANGED <<mode, address, rows, call, lost, torn>>
  BY DEF Edit, TypeOK
<1> QED BY <1>2, <1>3 DEF TypeOK

LEMMA BeginTyped ==
    ASSUME TypeOK, NEW op \in Ops, NEW pc \in {"plan", "remove"}, NEW todo \in SUBSET Keys,
           Begin(op, pc, todo)
    PROVE  TypeOK'
<1>1. /\ call' = [op |-> op, pc |-> pc, kind |-> "dns", id |-> None,
                  made |-> FALSE, todo |-> todo]
      /\ result' = "none" /\ lost' \subseteq lost
      /\ UNCHANGED <<service, cloud, rows, torn>>
  BY DEF Begin, Idle
<1>2. call' \in Calls /\ result' \in Results
  BY <1>1 DEF Calls, Ops, Pcs, RowKinds, ServiceKinds, Identifiers, Results
<1> QED BY <1>1, <1>2, StepTyped DEF TypeOK

LEMMA BeginningTyped ==
    ASSUME TypeOK, Sync \/ BeginCleanup \/ SaveAccess \/ DeleteAccess
    PROVE  TypeOK'
<1>1. ServiceRows \in SUBSET Keys /\ {} \in SUBSET Keys
  BY DEF TypeOK, ServiceRows
<1>2. CASE Sync
  BY <1>1, <1>2, BeginTyped DEF Sync, Ops
<1>3. CASE BeginCleanup
  BY <1>1, <1>3, BeginTyped DEF BeginCleanup, Ops
<1>4. CASE SaveAccess
  BY <1>1, <1>4, BeginTyped DEF SaveAccess, Ops
<1>5. CASE DeleteAccess
  BY <1>1, <1>5, BeginTyped DEF DeleteAccess, Ops
<1> QED BY <1>2, <1>3, <1>4, <1>5

LEMMA RestartTyped ==
    ASSUME TypeOK, Restart
    PROVE  TypeOK'
<1>1. Unrecorded(cloud) \subseteq Keys
  BY KeysOf DEF Unrecorded, TypeOK
<1>2. lost' \subseteq Keys
  BY <1>1, HeldTyped DEF Restart, TypeOK
<1>3. call' \in Calls /\ result' \in Results
  BY IdleTyped DEF Restart, Results
<1> QED BY <1>2, <1>3, StepTyped DEF Restart, TypeOK, service

LEMMA CreateTyped ==
    ASSUME IInv, Ledger, TypeOK, NEW i \in Ids, Create(i)
    PROVE  TypeOK'
<1> DEFINE link == IF call.kind = "spectrum" THEN address
                   ELSE IF call.kind = "private_route" THEN call.id ELSE None
           new == New(call.kind, i, link)
<1>1. /\ call.pc = "create" /\ UNCHANGED <<service, rows, torn>>
      /\ cloud' = cloud \cup {new}
      /\ (SaveNext(call.kind, i) /\ lost' = lost) \/ Fail("none", {Key(new)})
  BY DEF Create, Request
<1>2. call.kind \in ObjectKinds \cap RowKinds
  BY <1>1 DEF Ledger, Course, ObjectKinds, RowKinds, ServiceKinds
<1>3. new \in Objects
  <2>1. link \in Identifiers \cup Addresses
    BY DEF TypeOK, Identifiers
  <2>2. i \in Identifiers
    BY DEF Identifiers
  <2> QED BY <1>2, <2>1, <2>2, MadeTyped
<1>4. cloud' \subseteq Objects /\ rows' \subseteq Keys /\ torn' \subseteq {"service", "access"}
  BY <1>1, <1>3 DEF TypeOK
<1>5. CASE Fail("none", {Key(new)})
  <2>1. {Key(new)} \in SUBSET Keys
    BY <1>3, KeysOf
  <2> QED BY <1>1, <1>4, <1>5, <2>1, FailTyped
<1>6. CASE SaveNext(call.kind, i) /\ lost' = lost
  <2>1. i \in Identifiers /\ "idle" \in Pcs
    BY DEF Identifiers, Pcs
  <2> QED BY <1>1, <1>2, <1>4, <1>6, <2>1, MoveTyped
<1> QED BY <1>1, <1>5, <1>6

LEMMA SaveResourceTyped ==
    ASSUME IInv, TypeOK, SaveResource
    PROVE  TypeOK'
<1>1. /\ UNCHANGED <<service, cloud, torn>>
      /\ rows' = rows \/ rows' = Saved(call.kind, call.id)
      /\ \/ Goto("configure") /\ lost' = lost
         \/ Goto("verify") /\ lost' = lost
         \/ Goto("undo") /\ lost' = lost
         \/ End("synced") /\ lost' = lost
         \/ Fail("none", Held) /\ rows' = rows
  BY DEF SaveResource
<1>2. rows' \subseteq Keys
  BY <1>1, RowTyped DEF TypeOK, Identifiers
<1>3. cloud' \subseteq Objects /\ torn' \subseteq {"service", "access"}
  BY <1>1 DEF TypeOK
<1>4. CASE Fail("none", Held) /\ rows' = rows
  BY <1>1, <1>3, <1>4, HeldTyped, FailTyped
<1>5. /\ "configure" \in Pcs /\ "verify" \in Pcs /\ "undo" \in Pcs /\ "synced" \in Results
      /\ "dns" \in RowKinds /\ Derived \in Identifiers
  BY DEF Pcs, Results, RowKinds, Identifiers
<1> QED BY <1>1, <1>2, <1>3, <1>4, <1>5, MoveTyped

LEMMA UndoTyped ==
    ASSUME TypeOK, Undo \/ CallFails
    PROVE  TypeOK'
<1>1. /\ UNCHANGED <<service, rows, torn>> /\ cloud' \subseteq cloud
      /\ Fail("none", {}) \/ Fail("none", Held)
  BY DEF Undo, CallFails
<1>2. cloud' \subseteq Objects /\ torn' \subseteq {"service", "access"}
      /\ {} \in SUBSET Keys
  BY <1>1 DEF TypeOK
<1> QED BY <1>1, <1>2, HeldTyped, FailTyped

\* A step within or at the end of a call that leaves the table alone.
LEMMA GoesTyped ==
    ASSUME IInv, TypeOK, UNCHANGED <<service, rows>>, cloud' \subseteq Objects,
           torn' \subseteq {"service", "access"},
           \/ Fail("refused", {}) \/ Fail("none", {}) \/ Fail("stuck", {})
           \/ /\ lost' = lost
              /\ \/ \E pc \in Pcs : Goto(pc)
                 \/ \E kind \in RowKinds : CreateNext(kind)
                 \/ \E kind \in RowKinds, id \in Identifiers : SaveNext(kind, id)
                 \/ \E r \in Results : End(r)
    PROVE  TypeOK'
<1>1. /\ {} \in SUBSET Keys /\ rows' \subseteq Keys
      /\ "idle" \in Pcs /\ "dns" \in RowKinds /\ None \in Identifiers
  BY DEF TypeOK, Pcs, RowKinds, Identifiers
<1>2. CASE Fail("refused", {}) \/ Fail("none", {}) \/ Fail("stuck", {})
  BY <1>1, <1>2, FailTyped
<1>3. CASE /\ lost' = lost
           /\ \/ \E pc \in Pcs : Goto(pc)
              \/ \E kind \in RowKinds : CreateNext(kind)
              \/ \E kind \in RowKinds, id \in Identifiers : SaveNext(kind, id)
              \/ \E r \in Results : End(r)
  BY <1>1, <1>3, MoveTyped
<1> QED BY <1>2, <1>3

LEMMA RecordTyped ==
    ASSUME TypeOK, NEW records, NEW kind \in DNSKinds,
           NEW link \in Identifiers \cup Addresses, NEW Done,
           EnsureRecord(records, kind, link, Done)
    PROVE  /\ cloud' \subseteq Objects
           /\ (Done /\ lost' = lost) \/ Fail("refused", {}) \/ Fail("none", {})
<1>1. New(kind, Derived, link) \in Objects
  BY MadeTyped DEF ObjectKinds, Identifiers
<1>2. cloud' \subseteq cloud \cup {New(kind, Derived, link)}
  BY DEF EnsureRecord, Request, Refuses
<1> QED BY <1>1, <1>2 DEF TypeOK, EnsureRecord, Request, Refuses

LEMMA RecordsTyped ==
    ASSUME IInv, TypeOK, SyncEntry \/ SyncOrigin
    PROVE  TypeOK'
<1>1. UNCHANGED <<service, rows, torn>> /\ torn' \subseteq {"service", "access"}
  BY DEF SyncEntry, SyncOrigin, TypeOK
<1>2. /\ call.id \in Identifiers \cup Addresses /\ address \in Identifiers \cup Addresses
      /\ Derived \in Identifiers
  BY DEF TypeOK, Identifiers
<1>3. CASE SyncEntry
  <2>1. /\ cloud' \subseteq Objects
        /\ (EntryDone /\ lost' = lost) \/ Fail("refused", {}) \/ Fail("none", {})
    BY <1>2, <1>3, RecordTyped DEF SyncEntry, DNSKinds
  <2>2. EntryDone => \/ SaveNext("dns", Derived) \/ Goto("origin") \/ End("synced")
                     \/ CreateNext("worker_route")
    BY DEF EntryDone
  <2>3. /\ "dns" \in RowKinds /\ "worker_route" \in RowKinds
        /\ "origin" \in Pcs /\ "synced" \in Results
    BY DEF RowKinds, ServiceKinds, Pcs, Results
  <2> QED BY <1>1, <1>2, <2>1, <2>2, <2>3, GoesTyped
<1>4. CASE SyncOrigin
  <2> DEFINE next == IF mode = "redirect" THEN "rule" ELSE "upload"
  <2>1. EnsureRecord(ObjectsOf("origin"), "origin", address, Goto(next))
    BY <1>4, Zenon DEF SyncOrigin
  <2>2. next \in Pcs /\ "origin" \in DNSKinds
    BY DEF Pcs, DNSKinds
  <2> HIDE DEF next
  <2>3. /\ cloud' \subseteq Objects
        /\ (Goto(next) /\ lost' = lost) \/ Fail("refused", {}) \/ Fail("none", {})
    BY <1>2, <2>1, <2>2, RecordTyped
  <2> QED BY <1>1, <2>2, <2>3, GoesTyped
<1> QED BY <1>3, <1>4

LEMMA PlanTyped ==
    ASSUME IInv, TypeOK,
           PlanTunnel \/ SyncPrivateRoute \/ PlanSpectrum \/ PlanWorker \/ PlanAccess
    PROVE  TypeOK'
<1>1. /\ UNCHANGED <<service, rows, torn>> /\ cloud' \subseteq Objects
      /\ torn' \subseteq {"service", "access"} /\ rows' \subseteq Keys
      /\ \/ Fail("refused", {})
         \/ /\ lost' = lost
            /\ \/ CreateNext("tunnel") \/ CreateNext("private_route")
               \/ CreateNext("spectrum") \/ CreateNext("access")
               \/ Goto("put") \/ End("synced")
               \/ /\ result' = result
                  /\ \/ \E r \in RowOf("tunnel") :
                          call' = [call EXCEPT !.pc = "configure", !.id = r.id]
                     \/ call' = [call EXCEPT !.pc = "intent", !.made = RowOf("worker") = {}]
  BY DEF PlanTunnel, SyncPrivateRoute, PlanSpectrum, PlanWorker, PlanAccess, Refuses, TypeOK
<1>2. /\ {"tunnel", "private_route", "spectrum", "access"} \subseteq RowKinds
      /\ "put" \in Pcs /\ "synced" \in Results
  BY DEF RowKinds, ServiceKinds, Pcs, Results
<1>3. ASSUME lost' = lost, result' = result,
             \/ \E r \in RowOf("tunnel") :
                  call' = [call EXCEPT !.pc = "configure", !.id = r.id]
             \/ call' = [call EXCEPT !.pc = "intent", !.made = RowOf("worker") = {}]
      PROVE  TypeOK'
  <2>1. PICK pc \in Pcs, id \in Identifiers, made \in BOOLEAN :
          call' = [op |-> call.op, pc |-> pc, kind |-> call.kind, id |-> id,
                   made |-> made, todo |-> call.todo]
    <3>1. \A r \in RowOf("tunnel") : r.id \in Identifiers
      BY DEF RowOf, TypeOK, Keys, Identifiers
    <3>2. "configure" \in Pcs /\ "intent" \in Pcs /\ call.id \in Identifiers
          /\ call.made \in BOOLEAN /\ (RowOf("worker") = {}) \in BOOLEAN
      BY DEF Pcs, TypeOK, Identifiers
    <3>3. CASE \E r \in RowOf("tunnel") :
                 call' = [call EXCEPT !.pc = "configure", !.id = r.id]
      BY <3>1, <3>2, <3>3 DEF IInv, CallOK
    <3>4. CASE call' = [call EXCEPT !.pc = "intent", !.made = RowOf("worker") = {}]
      <4>1. call' = [op |-> call.op, pc |-> "intent", kind |-> call.kind, id |-> call.id,
                     made |-> RowOf("worker") = {}, todo |-> call.todo]
        BY <3>4 DEF IInv, CallOK
      <4> QED BY <3>2, <4>1
    <3> QED BY <1>3, <3>3, <3>4
  <2>2. call' \in Calls /\ result' \in Results
    BY <1>3, <2>1 DEF Calls, TypeOK, Results
  <2> QED BY <1>1, <1>3, <2>2, StepTyped DEF TypeOK
<1> QED BY <1>1, <1>2, <1>3, GoesTyped

LEMMA WriteTyped ==
    ASSUME IInv, TypeOK, Configure \/ PutSpectrum \/ UploadWorker \/ SyncRule \/ PutAccess
    PROVE  TypeOK'
<1>1. UNCHANGED <<service, rows, torn>> /\ torn' \subseteq {"service", "access"}
      /\ Derived \in Identifiers /\ address \in Identifiers \cup Addresses
  BY DEF Configure, PutSpectrum, UploadWorker, SyncRule, PutAccess, TypeOK, Identifiers
<1>2. \A o \in Objects : \A link \in Identifiers \cup Addresses :
        [o EXCEPT !.link = link] \in Objects /\ o.id \in Identifiers
  BY DEF Objects, Identifiers
<1>3. /\ New("worker", Derived, address) \in Objects
      /\ New("redirect", Derived, address) \in Objects
  BY <1>1, MadeTyped DEF ObjectKinds, ServiceKinds
<1>4. {"put", "entry", "keep"} \subseteq Pcs
      /\ {"spectrum", "redirect", "access"} \subseteq RowKinds
  BY DEF Pcs, RowKinds, ServiceKinds
<1>5. CASE Configure
  <2> DEFINE old == {o \in ObjectsOf("tunnel") : o.id = call.id}
             next == IF mode = "warp" THEN "put" ELSE "entry"
  <2>1. /\ cloud' = (cloud \ old) \cup {[o EXCEPT !.link = Derived] : o \in old}
        /\ (Goto(next) /\ lost' = lost) \/ Fail("none", {})
    BY <1>5 DEF Configure, Request
  <2>2. old \subseteq Objects /\ cloud \subseteq Objects
    BY DEF ObjectsOf, TypeOK
  <2>3. cloud' \subseteq Objects
    BY <1>1, <1>2, <2>1, <2>2
  <2> QED BY <1>1, <1>4, <2>1, <2>3, GoesTyped
<1>6. CASE PutSpectrum
  <2> DEFINE app == UNION {Named(r) : r \in RowOf("spectrum")}
  <2>1. PICK o \in app : /\ cloud' = (cloud \ app) \cup {[o EXCEPT !.link = address]}
                         /\ (SaveNext("spectrum", o.id) /\ lost' = lost) \/ Fail("none", {})
    BY <1>6 DEF PutSpectrum, Request
  <2>2. o \in Objects /\ cloud \subseteq Objects
    BY DEF Named, TypeOK
  <2>3. cloud' \subseteq Objects /\ o.id \in Identifiers
    BY <1>1, <1>2, <2>1, <2>2
  <2> QED BY <1>1, <1>4, <2>1, <2>3, GoesTyped
<1>7. CASE UploadWorker
  <2>1. /\ cloud' \subseteq Objects
        /\ (Goto("keep") /\ lost' = lost) \/ Fail("none", {})
    BY <1>3, <1>7 DEF UploadWorker, Request, TypeOK
  <2> QED BY <1>1, <1>4, <2>1, GoesTyped
<1>8. CASE SyncRule
  <2>1. /\ cloud' \subseteq Objects
        /\ (SaveNext("redirect", Derived) /\ lost' = lost) \/ Fail("none", {})
    BY <1>3, <1>8 DEF SyncRule, Request, TypeOK
  <2> QED BY <1>1, <1>4, <2>1, GoesTyped
<1>9. CASE PutAccess
  <2>1. PICK r \in RowOf("access") :
          /\ cloud' \subseteq Objects
          /\ (SaveNext("access", r.id) /\ lost' = lost) \/ Fail("none", {})
    BY <1>9 DEF PutAccess, Request, TypeOK
  <2>2. r.id \in Identifiers
    BY DEF RowOf, TypeOK, Keys, Identifiers
  <2> QED BY <1>1, <1>4, <2>1, <2>2, GoesTyped
<1> QED BY <1>5, <1>6, <1>7, <1>8, <1>9

LEMMA PassTyped ==
    ASSUME IInv, TypeOK, DisableSubdomain \/ PlanRecord \/ VerifyAccess \/ CleanupRowsDone
                         \/ CleanupRules \/ RemoveAccess
    PROVE  TypeOK'
<1>1. /\ UNCHANGED <<service, rows>> /\ cloud' \subseteq Objects
      /\ torn' \subseteq {"service", "access"}
      /\ \/ Fail("refused", {}) \/ Fail("none", {})
         \/ /\ lost' = lost
            /\ \/ Goto("entry") \/ Goto("rules") \/ Goto("records") \/ Goto("forget")
               \/ End("none")
  BY DEF DisableSubdomain, PlanRecord, VerifyAccess, CleanupRowsDone, CleanupRules,
     RemoveAccess, Refuses, Request, TypeOK
<1>2. {"entry", "rules", "records", "forget"} \subseteq Pcs /\ "none" \in Results
  BY DEF Pcs, Results
<1> QED BY <1>1, <1>2, GoesTyped

LEMMA SaveTyped ==
    ASSUME IInv, TypeOK, SaveIntent \/ SaveWorker \/ ForgetAccess
    PROVE  TypeOK'
<1>1. /\ UNCHANGED service /\ cloud' \subseteq Objects /\ lost' = lost
      /\ torn' \subseteq {"service", "access"}
      /\ \/ rows' \subseteq rows \/ rows' = Saved("worker_dns", Derived)
         \/ rows' = Saved("worker", Derived)
      /\ Goto("worker") \/ Goto("origin") \/ Goto("subdomain") \/ End("none")
  BY DEF SaveIntent, SaveWorker, ForgetAccess, ServiceRows, TypeOK
<1>2. /\ {"worker", "origin", "subdomain"} \subseteq Pcs /\ "none" \in Results
      /\ {"worker", "worker_dns"} \subseteq RowKinds /\ Derived \in Identifiers
  BY DEF Pcs, Results, RowKinds, ServiceKinds, Identifiers
<1>3. rows' \subseteq Keys
  BY <1>1, <1>2, RowTyped DEF TypeOK
<1> QED BY <1>1, <1>2, <1>3, MoveTyped

LEMMA CleanupTyped ==
    ASSUME IInv, TypeOK, (\E r \in rows : CleanupRow(r)) \/ CleanupRecords \/ ForgetRow
    PROVE  TypeOK'
<1>1. /\ UNCHANGED service /\ cloud' \subseteq Objects /\ rows' \subseteq Keys
      /\ torn' \subseteq {"service", "access"}
      /\ \/ rows' = rows /\ (Fail("stuck", {}) \/ Fail("none", {}))
         \/ /\ lost' = lost
            /\ \/ Goto("forget") \/ End("cleaned") \/ End("none")
               \/ result' = result /\ \E r : call' = [call EXCEPT !.todo = @ \ {r}]
               \/ UNCHANGED <<call, result>>
  BY DEF CleanupRow, CleanupRecords, ForgetRow, ServiceRows, Request, TypeOK
<1>2. {"forget"} \subseteq Pcs /\ {"none", "cleaned"} \subseteq Results
      /\ "dns" \in RowKinds /\ None \in Identifiers
  BY DEF Pcs, Results, RowKinds, Identifiers
<1>3. CASE lost' = lost /\ (Goto("forget") \/ End("cleaned") \/ End("none"))
  BY <1>1, <1>2, <1>3, MoveTyped
<1>4. CASE rows' = rows /\ (Fail("stuck", {}) \/ Fail("none", {}))
  BY <1>1, <1>4, GoesTyped
<1>5. ASSUME lost' = lost, result' = result, NEW r, call' = [call EXCEPT !.todo = @ \ {r}]
      PROVE  TypeOK'
  <2>1. call' = [op |-> call.op, pc |-> call.pc, kind |-> call.kind, id |-> call.id,
                 made |-> call.made, todo |-> call.todo \ {r}]
    BY <1>5 DEF IInv, CallOK
  <2>2. call' \in Calls /\ result' \in Results
    BY <1>5, <2>1 DEF Calls, TypeOK, Results, Pcs, Identifiers
  <2> QED BY <1>1, <1>5, <2>2, StepTyped DEF TypeOK
<1>6. CASE lost' = lost /\ UNCHANGED <<call, result>>
  BY <1>1, <1>6, StepTyped DEF TypeOK, Calls, Results, Pcs, Identifiers
<1> QED BY <1>1, <1>3, <1>4, <1>5, <1>6

LEMMA NextTyped ==
    ASSUME IInv, Ledger, TypeOK, [Next]_vars
    PROVE  TypeOK'
<1>1. CASE Publish
  BY <1>1, RecordsTyped, PlanTyped, WriteTyped, PassTyped, SaveTyped DEF Publish
<1>2. CASE Clean
  BY <1>2, CleanupTyped, PassTyped, SaveTyped DEF Clean
<1>3. CASE UNCHANGED vars
  BY <1>3 DEF vars, TypeOK
<1> QED
  BY <1>1, <1>2, <1>3, ServiceTyped, EditTyped, BeginningTyped, CreateTyped,
     SaveResourceTyped, UndoTyped, RestartTyped
  DEF Next

\* The variables keep their types.
THEOREM TypeCorrect == Spec => []TypeOK
<1>1. Init => TypeOK
  BY IdleTyped DEF Init, TypeOK, Calls, Pcs, Identifiers
<1>2. IInv /\ Ledger /\ TypeOK /\ [Next]_vars => TypeOK'
  BY NextTyped
<1> QED BY <1>1, <1>2, Inductive, LedgerKept, PTL DEF Spec

-------------------------------------------------------------------------------
(* Complete publications.  What a Sync has built so far, step by step; nobody  *)
(* else acts until it ends.                                                    *)

Entry(kind, link) == EntryRecords = {New(kind, Derived, link)}

TunnelUp(id) == [kind |-> "tunnel", id |-> id] \in rows /\ New("tunnel", id, Derived) \in cloud

Exists(kind, id) == \E o \in cloud : Key(o) = [kind |-> kind, id |-> id]

WorkerUp ==
    {New("origin", Derived, address), New("worker", Derived, address)} \subseteq cloud

BuiltTunnel ==
    /\ call.pc = "save" /\ call.kind = "tunnel" => Exists("tunnel", call.id)
    /\ call.pc = "configure" =>
         [kind |-> "tunnel", id |-> call.id] \in rows /\ Exists("tunnel", call.id)
    /\ mode = "warp" /\ call.pc = "put" => TunnelUp(call.id)
    /\ mode = "tunnel" /\ call.pc = "entry" => TunnelUp(call.id)
    /\ call.pc = "create" /\ call.kind = "private_route" => mode = "warp" /\ TunnelUp(call.id)
    /\ call.pc = "save" /\ call.kind = "private_route" =>
         /\ mode = "warp"
         /\ \E t \in RowOf("tunnel") :
              {New("tunnel", t.id, Derived), New("private_route", call.id, t.id)}
                \subseteq cloud

BuiltRecords ==
    /\ call.pc = "create" /\ call.kind = "spectrum" => mode = "spectrum"
    /\ call.pc = "save" /\ call.kind = "spectrum" =>
         mode = "spectrum" /\ New("spectrum", call.id, address) \in cloud
    /\ call.pc = "save" /\ call.kind = "dns" => mode = "dns" /\ Entry("a", address)
    /\ mode = "redirect" /\ call.pc \in {"origin", "rule"} => Entry("a", address)
    /\ call.pc = "save" /\ call.kind = "redirect" =>
         mode = "redirect" /\ Entry("a", address)
         /\ New("redirect", Derived, address) \in cloud

BuiltWorker ==
    /\ mode = "workers" /\ call.pc \in {"intent", "worker", "origin", "upload", "keep",
                                        "subdomain", "entry"} =>
         \A r \in RowOf("worker_route") : Exists("worker_route", r.id)
    /\ mode = "workers" /\ call.pc = "upload" => New("origin", Derived, address) \in cloud
    /\ mode = "workers" /\ call.pc \in {"keep", "subdomain", "entry"} => WorkerUp
    /\ call.pc = "create" /\ call.kind = "worker_route" =>
         mode = "workers" /\ Entry("a", Derived) /\ WorkerUp
    /\ call.pc = "save" /\ call.kind = "worker_route" =>
         /\ mode = "workers" /\ Entry("a", Derived) /\ WorkerUp
         /\ Exists("worker_route", call.id)

Built ==
    call.op = "sync" =>
        /\ BuiltTunnel /\ BuiltRecords /\ BuiltWorker
        /\ call.pc = "save" => call.kind \in {"tunnel", "private_route", "spectrum", "dns",
                                              "redirect", "worker_route"}

Whole == Built /\ PublishedIsComplete

\* Of other calls nothing is claimed, and a call that does not report success
\* claims nothing either.
LEMMA NoneClaimed ==
    ASSUME call'.op # "sync" \/ call'.pc = "plan" \/ call'.pc = "undo", result' # "synced"
    PROVE  Whole'
BY DEF Whole, Built, BuiltTunnel, BuiltRecords, BuiltWorker, PublishedIsComplete

LEMMA EndClaims ==
    ASSUME NEW r, End(r), r # "synced"
    PROVE  Whole'
BY NoneClaimed DEF End, Idle

LEMMA FailClaims ==
    ASSUME Fail("refused", {}) \/ Fail("none", {}) \/ Fail("stuck", {}) \/ Fail("none", Held)
    PROVE  Whole'
BY EndClaims DEF Fail

\* A call that goes on has no result yet.
LEMMA NoResult ==
    ASSUME Ledger, call.op # "none", result' = result
    PROVE  PublishedIsComplete'
BY DEF Ledger, Base, Told, Idle, PublishedIsComplete

\* The service's object of a key, but for what it points to.
LEMMA OwnObject ==
    ASSUME TypeOK, NEW o \in cloud, Ours(o), NEW kind, NEW id,
           Key(o) = [kind |-> kind, id |-> id], NEW link
    PROVE  /\ [o EXCEPT !.link = link] = New(kind, id, link)
           /\ o.link = link => o = New(kind, id, link)
<1>1. o = [kind |-> o.kind, id |-> o.id, mark |-> "ours", link |-> o.link]
  BY DEF TypeOK, Objects, Ours
<1>2. o.kind = kind /\ o.id = id
  BY DEF Key
<1> QED BY <1>1, <1>2 DEF New

\* A record that has been ensured.
LEMMA RecordDone ==
    ASSUME NEW records, records \subseteq cloud, NEW kind, NEW link, NEW Done,
           EnsureRecord(records, kind, link, Done)
    PROVE  \/ /\ Done
              /\ cloud' = (cloud \ records) \cup {New(kind, Derived, link)}
           \/ Fail("refused", {}) \/ Fail("none", {})
BY DEF EnsureRecord, Request, Refuses

LEMMA EntryIs ==
    ASSUME NEW kind \in {"a", "cname"}, NEW link,
           cloud' = (cloud \ EntryRecords) \cup {New(kind, Derived, link)}
    PROVE  EntryRecords' = {New(kind, Derived, link)}
BY DEF EntryRecords, New

\* What stays when records, a rule or a script are written.
LEMMA EntryStays ==
    ASSUME NEW kind, NEW link, Entry(kind, link),
           \A o : o.kind \in {"a", "cname"} => (o \in cloud' <=> o \in cloud)
    PROVE  EntryRecords' = {New(kind, Derived, link)}
<1>1. EntryRecords' = EntryRecords
  BY DEF EntryRecords
<1> QED BY <1>1 DEF Entry

LEMMA CreateWhole ==
    ASSUME IInv, Ledger, Whole, NEW i \in Ids, Create(i)
    PROVE  Whole'
<1> DEFINE link == IF call.kind = "spectrum" THEN address
                   ELSE IF call.kind = "private_route" THEN call.id ELSE None
           new == New(call.kind, i, link)
<1>1. /\ call.pc = "create" /\ call.op \in {"sync", "access"}
      /\ UNCHANGED <<mode, address, rows>>
      /\ cloud' = cloud \cup {new}
      /\ SaveNext(call.kind, i) \/ Fail("none", {Key(new)})
  BY DEF Create, Request, service, IInv, CallOK
<1>2. call.kind \in {"tunnel", "private_route", "spectrum", "worker_route", "access"}
  BY <1>1 DEF Ledger, Course
<1>3. CASE Fail("none", {Key(new)})
  BY <1>3, EndClaims DEF Fail
<1>4. CASE SaveNext(call.kind, i)
  <2>1. /\ call' = [op |-> call.op, pc |-> "save", kind |-> call.kind, id |-> i,
                    made |-> call.made, todo |-> call.todo]
        /\ result' = result
    BY <1>4, MovesCall DEF IInv
  <2>2. PublishedIsComplete'
    BY <1>1, <2>1, NoResult
  <2>3. new \in cloud' /\ new.kind = call.kind /\ Key(new) = [kind |-> call.kind, id |-> i]
    BY <1>1 DEF New, Key
  <2>4. CASE call.op # "sync"
    BY <2>1, <2>2, <2>4 DEF Whole, Built
  <2>5. CASE call.op = "sync" /\ call.kind = "tunnel"
    <3>1. BuiltTunnel' /\ BuiltRecords' /\ BuiltWorker'
      BY <2>1, <2>3, <2>5 DEF BuiltTunnel, BuiltRecords, BuiltWorker, Exists, Key
    <3> QED BY <2>1, <2>2, <2>5, <3>1 DEF Whole, Built
  <2>6. CASE call.op = "sync" /\ call.kind = "private_route"
    <3>1. mode = "warp" /\ TunnelUp(call.id)
      BY <1>1, <2>6 DEF Whole, Built, BuiltTunnel
    <3>2. [kind |-> "tunnel", id |-> call.id] \in RowOf("tunnel")'
      BY <1>1, <3>1 DEF TunnelUp, RowOf
    <3>3. {New("tunnel", call.id, Derived), New("private_route", i, call.id)} \subseteq cloud'
      BY <1>1, <2>6, <3>1 DEF TunnelUp
    <3>4. \E t \in RowOf("tunnel")' :
            {New("tunnel", t.id, Derived), New("private_route", i, t.id)} \subseteq cloud'
      BY <3>2, <3>3
    <3>5. BuiltTunnel' /\ BuiltRecords' /\ BuiltWorker'
      BY <1>1, <2>1, <2>6, <3>1, <3>4 DEF BuiltTunnel, BuiltRecords, BuiltWorker, New
    <3> QED BY <2>1, <2>2, <2>6, <3>5 DEF Whole, Built
  <2>7. CASE call.op = "sync" /\ call.kind = "spectrum"
    <3>1. mode = "spectrum"
      BY <1>1, <2>7 DEF Whole, Built, BuiltRecords
    <3>2. New("spectrum", i, address) \in cloud'
      BY <1>1, <2>7
    <3>3. BuiltTunnel' /\ BuiltRecords' /\ BuiltWorker'
      BY <1>1, <2>1, <2>7, <3>1, <3>2 DEF BuiltTunnel, BuiltRecords, BuiltWorker, New
    <3> QED BY <2>1, <2>2, <2>7, <3>3 DEF Whole, Built
  <2>8. CASE call.op = "sync" /\ call.kind = "worker_route"
    <3>1. mode = "workers" /\ Entry("a", Derived) /\ WorkerUp
      BY <1>1, <2>8 DEF Whole, Built, BuiltWorker
    <3>2. EntryRecords' = {New("a", Derived, Derived)}
      <4>1. \A o : o.kind \in {"a", "cname"} => (o \in cloud' <=> o \in cloud)
        BY <1>1, <2>3, <2>8
      <4> QED BY <3>1, <4>1, EntryStays
    <3>3. Entry("a", Derived)'
      BY <3>2 DEF Entry, New
    <3>4. WorkerUp'
      BY <1>1, <3>1 DEF WorkerUp, New
    <3>5. BuiltTunnel' /\ BuiltRecords' /\ BuiltWorker'
      BY <1>1, <2>1, <2>3, <2>8, <3>1, <3>3, <3>4
      DEF BuiltTunnel, BuiltRecords, BuiltWorker, Exists, Key
    <3> QED BY <2>1, <2>2, <2>8, <3>5 DEF Whole, Built
  <2>9. call.op = "sync" => call.kind # "access"
    BY <1>1 DEF IInv, CallOK
  <2> QED BY <1>1, <1>2, <2>4, <2>5, <2>6, <2>7, <2>8, <2>9
<1> QED BY <1>1, <1>3, <1>4

LEMMA SaveResourceWhole ==
    ASSUME IInv, Ledger, Whole, SaveResource
    PROVE  Whole'
<1>1. /\ call.pc = "save" /\ UNCHANGED <<mode, address, cloud>>
      /\ call.op \in {"sync", "access"}
      /\ call.op = "access" <=> call.kind = "access"
  BY DEF SaveResource, service, IInv, CallOK
<1>2. \/ Goto("undo")
      \/ Fail("none", Held)
      \/ /\ rows' = Saved(call.kind, call.id)
         /\ \/ call.kind = "tunnel" /\ Goto("configure")
            \/ call.kind = "access" /\ Goto("verify")
            \/ call.kind \notin {"tunnel", "access"} /\ End("synced")
  BY DEF SaveResource
<1>3. \A pc : Goto(pc) =>
        /\ call' = [op |-> call.op, pc |-> pc, kind |-> call.kind, id |-> call.id,
                    made |-> call.made, todo |-> call.todo]
        /\ result' = result
  BY MovesCall DEF IInv
<1>4. result = "none"
  BY <1>1 DEF Ledger, Base, Told, Idle
<1>5. CASE Goto("undo")
  BY <1>3, <1>4, <1>5, NoneClaimed
<1>6. CASE Fail("none", Held)
  BY <1>6, FailClaims
<1>7. CASE call.kind = "access" /\ Goto("verify")
  BY <1>1, <1>3, <1>4, <1>7, NoneClaimed
<1>8. CASE rows' = Saved(call.kind, call.id) /\ call.kind = "tunnel" /\ Goto("configure")
  <2>1. /\ call' = [op |-> call.op, pc |-> "configure", kind |-> call.kind, id |-> call.id,
                    made |-> call.made, todo |-> call.todo]
        /\ result' = result
    BY <1>3, <1>8
  <2>2. [kind |-> "tunnel", id |-> call.id] \in rows'
    BY <1>8 DEF Saved
  <2>3. Exists("tunnel", call.id)
    BY <1>1, <1>8 DEF Whole, Built, BuiltTunnel
  <2>4. BuiltTunnel' /\ BuiltRecords' /\ BuiltWorker'
    BY <1>1, <2>1, <2>2, <2>3 DEF BuiltTunnel, BuiltRecords, BuiltWorker, Exists, Key
  <2>5. PublishedIsComplete'
    BY <1>1, <2>1, NoResult
  <2> QED BY <2>1, <2>4, <2>5 DEF Whole, Built
<1>9. CASE rows' = Saved(call.kind, call.id) /\ call.kind \notin {"tunnel", "access"}
           /\ End("synced")
  <2>1. call.op = "sync" /\ BuiltTunnel /\ BuiltRecords /\ BuiltWorker
        /\ call.kind \in {"private_route", "spectrum", "dns", "redirect", "worker_route"}
    BY <1>1, <1>9 DEF Whole, Built
  <2>2. Built'
    BY <1>9 DEF End, Idle, Built
  <2>3. PICK row : /\ row = [kind |-> call.kind, id |-> call.id]
                   /\ row \in rows' /\ row.kind = call.kind /\ row.id = call.id
                   /\ row \in {r \in rows' : r.kind = call.kind}
                   /\ ServiceRows' # {}
    <3>1. [kind |-> call.kind, id |-> call.id] \in rows'
      BY <1>9 DEF Saved
    <3> QED BY <1>9, <3>1, SavedNotEmpty
  <2>4. CASE call.kind = "private_route"
    <3>1. PICK t \in RowOf("tunnel") :
            {New("tunnel", t.id, Derived), New("private_route", call.id, t.id)} \subseteq cloud
      BY <1>1, <2>1, <2>4 DEF BuiltTunnel
    <3>2. mode = "warp"
      BY <1>1, <2>1, <2>4 DEF BuiltTunnel
    <3>3. t \in RowOf("tunnel")'
      BY <1>9, <2>4 DEF RowOf, Saved
    <3>4. New("tunnel", t.id, Derived) \in cloud' /\ New("private_route", row.id, t.id) \in cloud'
      BY <1>1, <2>3, <3>1
    <3>5. PublishedIsComplete'
      BY <1>1, <2>3, <2>4, <3>2, <3>3, <3>4 DEF PublishedIsComplete, New, RowOf
    <3> QED BY <2>2, <3>5 DEF Whole
  <2>5. CASE call.kind = "spectrum"
    <3>1. mode = "spectrum" /\ New("spectrum", row.id, address) \in cloud'
      BY <1>1, <2>1, <2>3, <2>5 DEF BuiltRecords
    <3>2. PublishedIsComplete'
      BY <1>1, <2>3, <2>5, <3>1 DEF PublishedIsComplete, New, RowOf
    <3> QED BY <2>2, <3>2 DEF Whole
  <2>6. CASE call.kind \in {"dns", "redirect"}
    <3>1. /\ mode \in {"dns", "redirect"} /\ Entry("a", address)
          /\ mode = "redirect" => New("redirect", Derived, address) \in cloud
      BY <1>1, <2>1, <2>6 DEF BuiltRecords
    <3>2. (EntryRecords = {New("a", Derived, address)})'
      BY <1>1, <3>1 DEF Entry, EntryRecords, New
    <3>3. PublishedIsComplete'
      BY <1>1, <2>3, <3>1, <3>2 DEF PublishedIsComplete, New
    <3> QED BY <2>2, <3>3 DEF Whole
  <2>7. CASE call.kind = "worker_route"
    <3>1. /\ mode = "workers" /\ Entry("a", Derived) /\ WorkerUp
          /\ Exists("worker_route", call.id)
      BY <1>1, <2>1, <2>7 DEF BuiltWorker
    <3>2. (EntryRecords = {New("a", Derived, Derived)})'
      BY <1>1, <3>1 DEF Entry, EntryRecords, New
    <3>3. ({New("origin", Derived, address), New("worker", Derived, address)} \subseteq cloud)'
      BY <1>1, <3>1 DEF WorkerUp, New
    <3>4. Named(row)' # {}
      BY <1>1, <2>3, <2>7, <3>1 DEF Named, Exists, Key
    <3>5. PublishedIsComplete'
      BY <1>1, <2>3, <2>7, <3>1, <3>2, <3>3, <3>4 DEF PublishedIsComplete, RowOf
    <3> QED BY <2>2, <3>5 DEF Whole
  <2> QED BY <2>1, <2>4, <2>5, <2>6, <2>7
<1> QED BY <1>2, <1>5, <1>6, <1>7, <1>8, <1>9

\* The parts of a worker's publication that a step leaves alone.
LEMMA RouteStays ==
    ASSUME rows' = rows \/ rows' = Saved("worker", Derived) \/ rows' = Saved("worker_dns", Derived),
           \A r \in RowOf("worker_route") : Exists("worker_route", r.id),
           \A o \in cloud : o.kind = "worker_route" => o \in cloud'
    PROVE  \A r \in RowOf("worker_route")' : Exists("worker_route", r.id)'
<1>1. ASSUME NEW r \in RowOf("worker_route")'
      PROVE  \E o \in cloud' : Key(o) = [kind |-> "worker_route", id |-> r.id]
  <2>1. r \in RowOf("worker_route")
    BY DEF RowOf, Saved
  <2>2. PICK o \in cloud : Key(o) = [kind |-> "worker_route", id |-> r.id]
    BY <2>1 DEF Exists
  <2>3. o.kind = "worker_route"
    BY <2>2 DEF Key
  <2> QED BY <2>2, <2>3
<1> QED BY <1>1 DEF Exists, Key

LEMMA SyncEntryWhole ==
    ASSUME IInv, Ledger, Whole, SyncEntry
    PROVE  Whole'
<1> DEFINE kind == IF mode = "tunnel" THEN "cname" ELSE "a"
           link == IF mode = "tunnel" THEN call.id
                   ELSE IF mode = "workers" THEN Derived ELSE address
<1>1. /\ call.op = "sync" /\ call.pc = "entry" /\ UNCHANGED <<mode, address, rows>>
      /\ mode \in {"tunnel", "workers", "dns", "redirect"}
      /\ BuiltTunnel /\ BuiltRecords /\ BuiltWorker
  BY DEF SyncEntry, At, service, Ledger, Course, Whole, Built
<1>2. \/ EntryDone /\ cloud' = (cloud \ EntryRecords) \cup {New(kind, Derived, link)}
      \/ Fail("refused", {}) \/ Fail("none", {})
  <2>1. EnsureRecord(EntryRecords, kind, link, EntryDone)
    BY DEF SyncEntry
  <2>2. EntryRecords \subseteq cloud
    BY DEF EntryRecords
  <2> HIDE DEF kind, link
  <2> QED BY <2>1, <2>2, RecordDone
<1>3. CASE Fail("refused", {}) \/ Fail("none", {})
  BY <1>3, FailClaims
<1>4. CASE cloud' = (cloud \ EntryRecords) \cup {New(kind, Derived, link)} /\ EntryDone
  <2>1. EntryRecords' = {New(kind, Derived, link)}
    BY <1>4, EntryIs
  <2>2. \A o \in cloud : o.kind \notin {"a", "cname"} => o \in cloud'
    BY <1>4 DEF EntryRecords
  <2>3. ServiceRows' = ServiceRows /\ RowOf("tunnel")' = RowOf("tunnel")
        /\ RowOf("worker_route")' = RowOf("worker_route")
    BY <1>1 DEF ServiceRows, RowOf
  <2>4. CASE mode = "dns" /\ SaveNext("dns", Derived)
    <3>1. /\ call' = [op |-> call.op, pc |-> "save", kind |-> "dns", id |-> Derived,
                      made |-> call.made, todo |-> call.todo]
          /\ result' = result
      BY <2>4, MovesCall DEF IInv
    <3>2. Entry("a", address)'
      BY <1>1, <2>1, <2>4 DEF Entry, New
    <3>3. BuiltTunnel' /\ BuiltRecords' /\ BuiltWorker'
      BY <1>1, <2>4, <3>1, <3>2 DEF BuiltTunnel, BuiltRecords, BuiltWorker
    <3>4. PublishedIsComplete'
      BY <1>1, <3>1, NoResult
    <3> QED BY <3>1, <3>3, <3>4 DEF Whole, Built
  <2>5. CASE mode = "redirect" /\ Goto("origin")
    <3>1. /\ call' = [op |-> call.op, pc |-> "origin", kind |-> call.kind, id |-> call.id,
                      made |-> call.made, todo |-> call.todo]
          /\ result' = result
      BY <2>5, MovesCall DEF IInv
    <3>2. Entry("a", address)'
      BY <1>1, <2>1, <2>5 DEF Entry, New
    <3>3. BuiltTunnel' /\ BuiltRecords' /\ BuiltWorker'
      BY <1>1, <2>5, <3>1, <3>2 DEF BuiltTunnel, BuiltRecords, BuiltWorker
    <3>4. PublishedIsComplete'
      BY <1>1, <3>1, NoResult
    <3> QED BY <3>1, <3>3, <3>4 DEF Whole, Built
  <2>6. CASE mode = "tunnel" /\ End("synced")
    <3> DEFINE t == [kind |-> "tunnel", id |-> call.id]
    <3>1. t \in RowOf("tunnel") /\ New("tunnel", call.id, Derived) \in cloud /\ t.id = call.id
      BY <1>1, <2>6 DEF BuiltTunnel, TunnelUp, RowOf
    <3>2. New("tunnel", call.id, Derived) \in cloud'
      BY <2>2, <3>1 DEF New
    <3>3. EntryRecords' = {New("cname", Derived, call.id)}
      BY <2>1, <2>6
    <3>4. Built'
      BY <2>6 DEF End, Idle, Built
    <3>5. t \in RowOf("tunnel")' /\ ServiceRows' # {}
      BY <1>1, <3>1 DEF RowOf, ServiceRows
    <3>6. PublishedIsComplete'
      BY <1>1, <2>6, <3>1, <3>2, <3>3, <3>5 DEF PublishedIsComplete, New
    <3> QED BY <3>4, <3>6 DEF Whole
  <2>7. ASSUME mode = "workers"
        PROVE  /\ EntryRecords' = {New("a", Derived, Derived)}
               /\ WorkerUp'
    <3>1. WorkerUp
      BY <1>1, <2>7 DEF BuiltWorker
    <3>2. New("origin", Derived, address) \in cloud' /\ New("worker", Derived, address) \in cloud'
      BY <2>2, <3>1 DEF WorkerUp, New
    <3> QED BY <1>1, <2>1, <2>7, <3>2 DEF WorkerUp, New
  <2>8. CASE mode = "workers" /\ CreateNext("worker_route")
    <3>1. /\ call' = [op |-> call.op, pc |-> "create", kind |-> "worker_route", id |-> call.id,
                      made |-> TRUE, todo |-> call.todo]
          /\ result' = result
      BY <2>8, MovesCall DEF IInv
    <3>2. Entry("a", Derived)' /\ WorkerUp'
      BY <2>7, <2>8 DEF Entry, New
    <3>3. BuiltTunnel' /\ BuiltRecords' /\ BuiltWorker'
      BY <1>1, <2>8, <3>1, <3>2 DEF BuiltTunnel, BuiltRecords, BuiltWorker
    <3>4. PublishedIsComplete'
      BY <1>1, <3>1, NoResult
    <3> QED BY <3>1, <3>3, <3>4 DEF Whole, Built
  <2>9. CASE mode = "workers" /\ RowOf("worker_route") # {} /\ End("synced")
    <3>1. PICK r \in RowOf("worker_route") : TRUE
      BY <2>9
    <3>2. r = [kind |-> "worker_route", id |-> r.id]
      BY DEF RowOf, Ledger, Base, RowsOK, RowsShaped
    <3>3. PICK o \in cloud : Key(o) = [kind |-> "worker_route", id |-> r.id]
      BY <1>1, <2>9 DEF BuiltWorker, Exists
    <3>4. o.kind = "worker_route"
      BY <3>3 DEF Key
    <3>5. o \in cloud' /\ Key(o) = r
      BY <2>2, <3>2, <3>3, <3>4
    <3>6. Named(r)' # {} /\ r \in RowOf("worker_route")'
      BY <2>3, <3>5 DEF Named, Key
    <3>7. Built'
      BY <2>9 DEF End, Idle, Built
    <3>8. ServiceRows' # {}
      BY <2>3 DEF RowOf, ServiceRows
    <3>9. PublishedIsComplete'
      BY <1>1, <2>7, <2>9, <3>6, <3>8 DEF PublishedIsComplete, New, WorkerUp
    <3> QED BY <3>7, <3>9 DEF Whole
  <2>10. EntryDone => \/ mode = "dns" /\ SaveNext("dns", Derived)
                      \/ mode = "redirect" /\ Goto("origin")
                      \/ mode = "tunnel" /\ End("synced")
                      \/ mode = "workers" /\ CreateNext("worker_route")
                      \/ mode = "workers" /\ RowOf("worker_route") # {} /\ End("synced")
    BY DEF EntryDone
  <2> QED BY <1>4, <2>4, <2>5, <2>6, <2>8, <2>9, <2>10
<1> QED BY <1>2, <1>3, <1>4

LEMMA SyncOriginWhole ==
    ASSUME IInv, Ledger, Whole, SyncOrigin
    PROVE  Whole'
<1> DEFINE next == IF mode = "redirect" THEN "rule" ELSE "upload"
           origins == ObjectsOf("origin")
<1>1. /\ call.op = "sync" /\ call.pc = "origin" /\ UNCHANGED <<mode, address, rows>>
      /\ mode \in {"redirect", "workers"}
      /\ BuiltTunnel /\ BuiltRecords /\ BuiltWorker
  BY DEF SyncOrigin, At, service, Ledger, Course, Whole, Built
<1>2. \/ Goto(next) /\ cloud' = (cloud \ origins) \cup {New("origin", Derived, address)}
      \/ Fail("refused", {}) \/ Fail("none", {})
  <2>1. EnsureRecord(origins, "origin", address, Goto(next))
    BY Zenon DEF SyncOrigin
  <2>2. origins \subseteq cloud
    BY DEF ObjectsOf
  <2> HIDE DEF next, origins
  <2> QED BY <2>1, <2>2, RecordDone
<1>3. CASE Fail("refused", {}) \/ Fail("none", {})
  BY <1>3, FailClaims
<1>4. CASE Goto(next) /\ cloud' = (cloud \ origins) \cup {New("origin", Derived, address)}
  <2>1. /\ call' = [op |-> call.op, pc |-> next, kind |-> call.kind, id |-> call.id,
                    made |-> call.made, todo |-> call.todo]
        /\ result' = result
    BY <1>4, MovesCall DEF IInv
  <2>2. PublishedIsComplete'
    BY <1>1, <2>1, NoResult
  <2>3. New("origin", Derived, address).kind = "origin"
    BY DEF New
  <2>4. \A o : o.kind # "origin" => (o \in cloud' <=> o \in cloud)
    BY <1>4, <2>3 DEF ObjectsOf
  <2>5. CASE mode = "redirect"
    <3>1. Entry("a", address)
      BY <1>1, <2>5 DEF BuiltRecords
    <3>2. EntryRecords' = {New("a", Derived, address)}
      BY <2>4, <3>1, EntryStays
    <3>3. Entry("a", address)'
      BY <1>1, <3>2 DEF Entry, New
    <3>4. BuiltTunnel' /\ BuiltRecords' /\ BuiltWorker'
      BY <1>1, <2>1, <2>5, <3>3 DEF BuiltTunnel, BuiltRecords, BuiltWorker
    <3> QED BY <2>1, <2>2, <2>5, <3>4 DEF Whole, Built
  <2>6. CASE mode = "workers"
    <3>1. \A r \in RowOf("worker_route") : Exists("worker_route", r.id)
      BY <1>1, <2>6 DEF BuiltWorker
    <3>2. \A r \in RowOf("worker_route")' : Exists("worker_route", r.id)'
      BY <1>1, <2>4, <3>1, RouteStays
    <3>3. New("origin", Derived, address)' \in cloud'
      BY <1>1, <1>4 DEF New
    <3>4. BuiltTunnel' /\ BuiltRecords' /\ BuiltWorker'
      BY <1>1, <2>1, <2>6, <3>2, <3>3 DEF BuiltTunnel, BuiltRecords, BuiltWorker
    <3> QED BY <2>1, <2>2, <2>6, <3>4 DEF Whole, Built
  <2> QED BY <1>1, <2>5, <2>6
<1> QED BY <1>2, <1>3, <1>4

LEMMA PlanTunnelWhole ==
    ASSUME IInv, Ledger, Whole, PlanTunnel
    PROVE  Whole'
<1>1. /\ call.op = "sync" /\ UNCHANGED <<mode, address, rows, cloud>>
      /\ mode \in {"tunnel", "warp"}
  BY DEF PlanTunnel, At, Refuses, service
<1>2. \/ Fail("refused", {})
      \/ CreateNext("tunnel")
      \/ /\ ~Missing("tunnel")
         /\ \E r \in RowOf("tunnel") : call' = [call EXCEPT !.pc = "configure", !.id = r.id]
         /\ result' = result
  BY DEF PlanTunnel, Refuses
<1>3. CASE Fail("refused", {})
  BY <1>3, FailClaims
<1>4. CASE CreateNext("tunnel")
  <2>1. /\ call' = [op |-> call.op, pc |-> "create", kind |-> "tunnel", id |-> call.id,
                    made |-> TRUE, todo |-> call.todo]
        /\ result' = result
    BY <1>4, MovesCall DEF IInv
  <2>2. BuiltTunnel' /\ BuiltRecords' /\ BuiltWorker'
    BY <1>1, <2>1 DEF BuiltTunnel, BuiltRecords, BuiltWorker
  <2>3. PublishedIsComplete'
    BY <1>1, <2>1, NoResult
  <2> QED BY <2>1, <2>2, <2>3 DEF Whole, Built
<1>5. ASSUME ~Missing("tunnel"), NEW r \in RowOf("tunnel"), result' = result,
             call' = [call EXCEPT !.pc = "configure", !.id = r.id]
      PROVE  Whole'
  <2>1. call' = [op |-> call.op, pc |-> "configure", kind |-> call.kind, id |-> r.id,
                 made |-> call.made, todo |-> call.todo]
    BY <1>5 DEF IInv, CallOK
  <2>2. r = [kind |-> "tunnel", id |-> r.id] /\ r \in rows
    BY DEF RowOf, Ledger, Base, RowsOK, RowsShaped
  <2>3. Named(r) # {}
    BY <1>5 DEF Missing
  <2>4. Exists("tunnel", r.id)
    BY <2>2, <2>3 DEF Named, Exists
  <2>5. BuiltTunnel' /\ BuiltRecords' /\ BuiltWorker'
    BY <1>1, <2>1, <2>2, <2>4 DEF BuiltTunnel, BuiltRecords, BuiltWorker, Exists, Key
  <2>6. PublishedIsComplete'
    BY <1>1, <1>5, NoResult
  <2> QED BY <2>1, <2>5, <2>6 DEF Whole, Built
<1> QED BY <1>2, <1>3, <1>4, <1>5

LEMMA ConfigureWhole ==
    ASSUME IInv, Possession, Ledger, TypeOK, Whole, Configure
    PROVE  Whole'
<1> DEFINE next == IF mode = "warp" THEN "put" ELSE "entry"
           old == {o \in ObjectsOf("tunnel") : o.id = call.id}
<1>1. /\ call.op = "sync" /\ call.pc = "configure" /\ UNCHANGED <<mode, address, rows>>
      /\ mode \in {"tunnel", "warp"}
      /\ [kind |-> "tunnel", id |-> call.id] \in rows /\ Exists("tunnel", call.id)
  BY DEF Configure, At, service, Ledger, Course, Whole, Built, BuiltTunnel
<1>2. /\ cloud' = (cloud \ old) \cup {[o EXCEPT !.link = Derived] : o \in old}
      /\ Goto(next) \/ Fail("none", {})
  BY DEF Configure, Request
<1>3. CASE Fail("none", {})
  BY <1>3, FailClaims
<1>4. CASE Goto(next)
  <2>1. /\ call' = [op |-> call.op, pc |-> next, kind |-> call.kind, id |-> call.id,
                    made |-> call.made, todo |-> call.todo]
        /\ result' = result
    BY <1>4, MovesCall DEF IInv
  <2>2. New("tunnel", call.id, Derived) \in cloud'
    <3>1. PICK o \in cloud : Key(o) = [kind |-> "tunnel", id |-> call.id]
      BY <1>1 DEF Exists
    <3>2. o.kind = "tunnel" /\ o.id = call.id /\ o \in old
      BY <3>1 DEF Key, ObjectsOf
    <3>3. Ours(o)
      BY <1>1, <3>2 DEF Possession, Checked, OwnOf
    <3>4. [o EXCEPT !.link = Derived] = New("tunnel", call.id, Derived)
      BY <3>1, <3>3, OwnObject
    <3> QED BY <1>2, <3>2, <3>4
  <2>3. TunnelUp(call.id)'
    BY <1>1, <2>1, <2>2 DEF TunnelUp, New
  <2>4. BuiltTunnel' /\ BuiltRecords' /\ BuiltWorker'
    BY <1>1, <2>1, <2>3 DEF BuiltTunnel, BuiltRecords, BuiltWorker
  <2>5. PublishedIsComplete'
    BY <1>1, <2>1, NoResult
  <2> QED BY <2>1, <2>4, <2>5 DEF Whole, Built
<1> QED BY <1>2, <1>3, <1>4

LEMMA SyncPrivateRouteWhole ==
    ASSUME IInv, Ledger, TypeOK, Whole, SyncPrivateRoute
    PROVE  Whole'
<1> DEFINE route == UNION {Named(r) : r \in RowOf("private_route")}
           t == [kind |-> "tunnel", id |-> call.id]
<1>1. /\ call.op = "sync" /\ call.pc = "put" /\ mode = "warp"
      /\ UNCHANGED <<mode, address, rows, cloud>>
      /\ TunnelUp(call.id)
  BY DEF SyncPrivateRoute, At, Refuses, service, Whole, Built, BuiltTunnel
<1>2. \/ Fail("refused", {})
      \/ CreateNext("private_route")
      \/ /\ route # {} /\ \A o \in route : o.link = call.id
         /\ ~TakenOver("private_route")
         /\ End("synced")
  BY DEF SyncPrivateRoute, Refuses
<1>3. CASE Fail("refused", {})
  BY <1>3, FailClaims
<1>4. CASE CreateNext("private_route")
  <2>1. /\ call' = [op |-> call.op, pc |-> "create", kind |-> "private_route", id |-> call.id,
                    made |-> TRUE, todo |-> call.todo]
        /\ result' = result
    BY <1>4, MovesCall DEF IInv
  <2>2. TunnelUp(call.id)'
    BY <1>1, <2>1 DEF TunnelUp, New
  <2>3. BuiltTunnel' /\ BuiltRecords' /\ BuiltWorker'
    BY <1>1, <2>1, <2>2 DEF BuiltTunnel, BuiltRecords, BuiltWorker
  <2>4. PublishedIsComplete'
    BY <1>1, <2>1, NoResult
  <2> QED BY <2>1, <2>3, <2>4 DEF Whole, Built
<1>5. CASE /\ route # {} /\ \A o \in route : o.link = call.id
           /\ ~TakenOver("private_route")
           /\ End("synced")
  <2>1. PICK r \in RowOf("private_route"), o \in cloud : o \in Named(r)
    BY <1>5 DEF Named
  <2>2. r = [kind |-> "private_route", id |-> r.id]
    BY DEF RowOf, Ledger, Base, RowsOK, RowsShaped
  <2>3. Ours(o) /\ Key(o) = r /\ o.link = call.id
    BY <1>5, <2>1, NamedOurs DEF Named
  <2>4. o = New("private_route", r.id, call.id)
    BY <2>2, <2>3, OwnObject
  <2>5. /\ t \in RowOf("tunnel")' /\ t.id = call.id
        /\ New("tunnel", call.id, Derived) \in cloud'
        /\ r \in RowOf("private_route")' /\ New("private_route", r.id, call.id) \in cloud'
        /\ ServiceRows' # {}
    BY <1>1, <2>4 DEF TunnelUp, RowOf, ServiceRows
  <2>6. PublishedIsComplete'
    BY <1>1, <2>5 DEF PublishedIsComplete, New
  <2>7. Built'
    BY <1>5 DEF End, Idle, Built
  <2> QED BY <2>6, <2>7 DEF Whole
<1> QED BY <1>2, <1>3, <1>4, <1>5

LEMMA PlanSpectrumWhole ==
    ASSUME IInv, Ledger, Whole, PlanSpectrum
    PROVE  Whole'
<1>1. call.op = "sync" /\ mode = "spectrum" /\ UNCHANGED mode
      /\ (Fail("refused", {}) \/ CreateNext("spectrum") \/ Goto("put"))
  BY DEF PlanSpectrum, At, service, Refuses
<1>2. CASE Fail("refused", {})
  BY <1>2, FailClaims
<1>3. CASE CreateNext("spectrum") \/ Goto("put")
  <2>1. /\ \/ call' = [op |-> call.op, pc |-> "create", kind |-> "spectrum", id |-> call.id,
                       made |-> TRUE, todo |-> call.todo]
           \/ call' = [op |-> call.op, pc |-> "put", kind |-> call.kind, id |-> call.id,
                       made |-> call.made, todo |-> call.todo]
        /\ result' = result
    BY <1>3, MovesCall DEF IInv
  <2>2. BuiltTunnel' /\ BuiltRecords' /\ BuiltWorker'
    BY <1>1, <2>1 DEF BuiltTunnel, BuiltRecords, BuiltWorker
  <2>3. PublishedIsComplete'
    BY <1>1, <2>1, NoResult
  <2> QED BY <2>1, <2>2, <2>3 DEF Whole, Built
<1> QED BY <1>1, <1>2, <1>3

LEMMA PutSpectrumWhole ==
    ASSUME IInv, Possession, Ledger, TypeOK, Whole, PutSpectrum
    PROVE  Whole'
<1> DEFINE app == UNION {Named(r) : r \in RowOf("spectrum")}
<1>1. /\ call.op = "sync" /\ call.pc = "put" /\ mode = "spectrum"
      /\ UNCHANGED <<mode, address, rows>>
  BY DEF PutSpectrum, At, service
<1>2. PICK o \in app :
        /\ cloud' = (cloud \ app) \cup {[o EXCEPT !.link = address]}
        /\ SaveNext("spectrum", o.id) \/ Fail("none", {})
  BY DEF PutSpectrum, Request
<1>3. CASE Fail("none", {})
  BY <1>3, FailClaims
<1>4. CASE SaveNext("spectrum", o.id)
  <2>1. /\ call' = [op |-> call.op, pc |-> "save", kind |-> "spectrum", id |-> o.id,
                    made |-> call.made, todo |-> call.todo]
        /\ result' = result
    BY <1>4, MovesCall DEF IInv
  <2>2. o \in cloud /\ o.kind = "spectrum" /\ Ours(o)
    BY <1>1 DEF Named, RowOf, Key, Possession, Checked
  <2>3. Key(o) = [kind |-> "spectrum", id |-> o.id]
    BY <2>2 DEF Key
  <2>4. [o EXCEPT !.link = address] = New("spectrum", o.id, address)
    BY <2>2, <2>3, OwnObject
  <2>5. New("spectrum", o.id, address)' \in cloud'
    BY <1>1, <1>2, <2>4 DEF New
  <2>6. BuiltTunnel' /\ BuiltRecords' /\ BuiltWorker'
    BY <1>1, <2>1, <2>5 DEF BuiltTunnel, BuiltRecords, BuiltWorker, New
  <2>7. PublishedIsComplete'
    BY <1>1, <2>1, NoResult
  <2> QED BY <2>1, <2>6, <2>7 DEF Whole, Built
<1> QED BY <1>2, <1>3, <1>4

LEMMA PlanWorkerWhole ==
    ASSUME IInv, Ledger, Whole, PlanWorker
    PROVE  Whole'
<1>1. /\ call.op = "sync" /\ mode = "workers" /\ UNCHANGED <<mode, address, rows, cloud>>
      /\ \/ Fail("refused", {})
         \/ /\ ~Missing("worker_route") /\ result' = result
            /\ call' = [call EXCEPT !.pc = "intent", !.made = RowOf("worker") = {}]
  BY DEF PlanWorker, At, Refuses, service
<1>2. CASE Fail("refused", {})
  BY <1>2, FailClaims
<1>3. CASE /\ ~Missing("worker_route") /\ result' = result
           /\ call' = [call EXCEPT !.pc = "intent", !.made = RowOf("worker") = {}]
  <2>1. call' = [op |-> call.op, pc |-> "intent", kind |-> call.kind, id |-> call.id,
                 made |-> RowOf("worker") = {}, todo |-> call.todo]
    BY <1>3 DEF IInv, CallOK
  <2>2. ASSUME NEW r \in RowOf("worker_route")
        PROVE  Exists("worker_route", r.id)
    <3>1. r = [kind |-> "worker_route", id |-> r.id]
      BY DEF RowOf, Ledger, Base, RowsOK, RowsShaped
    <3>2. Named(r) # {}
      BY <1>3 DEF Missing
    <3> QED BY <3>1, <3>2 DEF Named, Exists
  <2>3. \A r \in RowOf("worker_route")' : Exists("worker_route", r.id)'
    BY <1>1, <2>2, RouteStays
  <2>4. BuiltTunnel' /\ BuiltRecords' /\ BuiltWorker'
    BY <1>1, <2>1, <2>3 DEF BuiltTunnel, BuiltRecords, BuiltWorker
  <2>5. PublishedIsComplete'
    BY <1>1, <1>3, NoResult
  <2> QED BY <2>1, <2>4, <2>5 DEF Whole, Built
<1> QED BY <1>1, <1>2, <1>3

LEMMA WorkerStepsWhole ==
    ASSUME IInv, Ledger, Whole,
           SaveIntent \/ UploadWorker \/ SaveWorker \/ DisableSubdomain
    PROVE  Whole'
<1>1. /\ call.op = "sync" /\ UNCHANGED <<mode, address>> /\ mode = "workers"
      /\ call.pc \in {"intent", "worker", "upload", "keep", "subdomain"}
      /\ BuiltTunnel /\ BuiltRecords /\ BuiltWorker
  BY DEF SaveIntent, UploadWorker, SaveWorker, DisableSubdomain, At, service, Ledger,
     Course, Whole, Built
<1>2. \/ End("none") \/ Fail("none", {})
      \/ (Goto("worker") \/ Goto("origin")) /\ cloud' = cloud
      \/ /\ call.pc = "upload" /\ Goto("keep")
         /\ cloud' = (cloud \ ObjectsOf("worker")) \cup {New("worker", Derived, address)}
      \/ call.pc = "keep" /\ Goto("subdomain") /\ cloud' = cloud
      \/ call.pc = "subdomain" /\ Goto("entry") /\ cloud' = cloud
  BY DEF SaveIntent, UploadWorker, SaveWorker, DisableSubdomain, At, Request
<1>3. \/ rows' = rows
      \/ rows' = Saved("worker", Derived) \/ rows' = Saved("worker_dns", Derived)
  BY DEF SaveIntent, UploadWorker, SaveWorker, DisableSubdomain
<1>4. CASE End("none") \/ Fail("none", {})
  BY <1>4, EndClaims, FailClaims
<1>5. ASSUME NEW pc \in {"worker", "origin", "keep", "subdomain", "entry"}, Goto(pc),
             \A o \in cloud : o.kind = "worker_route" => o \in cloud',
             pc \in {"keep", "subdomain", "entry"} => WorkerUp'
      PROVE  Whole'
  <2>1. /\ call' = [op |-> call.op, pc |-> pc, kind |-> call.kind, id |-> call.id,
                    made |-> call.made, todo |-> call.todo]
        /\ result' = result
    BY <1>5, MovesCall DEF IInv
  <2>2. \A r \in RowOf("worker_route") : Exists("worker_route", r.id)
    BY <1>1 DEF BuiltWorker
  <2>3. \A r \in RowOf("worker_route")' : Exists("worker_route", r.id)'
    BY <1>3, <1>5, <2>2, RouteStays
  <2>4. BuiltTunnel' /\ BuiltRecords' /\ BuiltWorker'
    BY <1>1, <1>5, <2>1, <2>3 DEF BuiltTunnel, BuiltRecords, BuiltWorker
  <2>5. PublishedIsComplete'
    BY <1>1, <2>1, NoResult
  <2> QED BY <1>5, <2>1, <2>4, <2>5 DEF Whole, Built
<1>6. CASE (Goto("worker") \/ Goto("origin")) /\ cloud' = cloud
  BY <1>5, <1>6
<1>7. CASE /\ call.pc = "upload" /\ Goto("keep")
           /\ cloud' = (cloud \ ObjectsOf("worker")) \cup {New("worker", Derived, address)}
  <2>1. New("origin", Derived, address) \in cloud
    BY <1>1, <1>7 DEF BuiltWorker
  <2>2. New("origin", Derived, address).kind = "origin"
    BY DEF New
  <2>3. WorkerUp'
    BY <1>1, <1>7, <2>1, <2>2 DEF WorkerUp, ObjectsOf, New
  <2>4. \A o \in cloud : o.kind = "worker_route" => o \in cloud'
    BY <1>7 DEF ObjectsOf
  <2> QED BY <1>5, <1>7, <2>3, <2>4
<1>8. CASE /\ call.pc \in {"keep", "subdomain"} /\ (Goto("subdomain") \/ Goto("entry"))
           /\ cloud' = cloud
  <2>1. WorkerUp
    BY <1>1, <1>8 DEF BuiltWorker
  <2>2. WorkerUp'
    BY <1>1, <1>8, <2>1 DEF WorkerUp, New
  <2> QED BY <1>5, <1>8, <2>2
<1> QED BY <1>2, <1>4, <1>6, <1>7, <1>8

LEMMA PlanRecordWhole ==
    ASSUME IInv, Ledger, Whole, PlanRecord
    PROVE  Whole'
<1>1. call.op = "sync" /\ mode' = mode /\ mode \in {"dns", "redirect"} /\ Goto("entry")
  BY DEF PlanRecord, At, service
<1>2. /\ call' = [op |-> call.op, pc |-> "entry", kind |-> call.kind, id |-> call.id,
                  made |-> call.made, todo |-> call.todo]
      /\ result' = result
  BY <1>1, MovesCall DEF IInv
<1>3. BuiltTunnel' /\ BuiltRecords' /\ BuiltWorker'
  BY <1>1, <1>2 DEF BuiltTunnel, BuiltRecords, BuiltWorker
<1>4. PublishedIsComplete'
  BY <1>1, <1>2, NoResult
<1> QED BY <1>2, <1>3, <1>4 DEF Whole, Built

LEMMA SyncRuleWhole ==
    ASSUME IInv, Possession, Ledger, Whole, SyncRule
    PROVE  Whole'
<1> DEFINE old == {o \in ObjectsOf("redirect") : Ours(o)}
<1>1. /\ call.op = "sync" /\ call.pc = "rule" /\ mode = "redirect"
      /\ UNCHANGED <<mode, address, rows>>
      /\ cloud' = (cloud \ old) \cup {New("redirect", Derived, address)}
      /\ SaveNext("redirect", Derived) \/ Fail("none", {})
  BY DEF SyncRule, At, service, Request, Possession, Restrained
<1>2. CASE Fail("none", {})
  BY <1>2, FailClaims
<1>3. CASE SaveNext("redirect", Derived)
  <2>1. /\ call' = [op |-> call.op, pc |-> "save", kind |-> "redirect", id |-> Derived,
                    made |-> call.made, todo |-> call.todo]
        /\ result' = result
    BY <1>3, MovesCall DEF IInv
  <2>2. Entry("a", address)
    BY <1>1 DEF Whole, Built, BuiltRecords
  <2>3. EntryRecords' = {New("a", Derived, address)}
    <3>1. New("redirect", Derived, address).kind = "redirect"
      BY DEF New
    <3>2. \A o : o.kind \in {"a", "cname"} => (o \in cloud' <=> o \in cloud)
      BY <1>1, <3>1 DEF ObjectsOf
    <3> QED BY <2>2, <3>2, EntryStays
  <2>4. Entry("a", address)' /\ New("redirect", Derived, address)' \in cloud'
    BY <1>1, <2>3 DEF Entry, New
  <2>5. BuiltTunnel' /\ BuiltRecords' /\ BuiltWorker'
    BY <1>1, <2>1, <2>4 DEF BuiltTunnel, BuiltRecords, BuiltWorker
  <2>6. PublishedIsComplete'
    BY <1>1, <2>1, NoResult
  <2> QED BY <2>1, <2>5, <2>6 DEF Whole, Built
<1> QED BY <1>1, <1>2, <1>3

\* A cleanup, an Access change, and whatever happens between calls claims nothing.
LEMMA CleanWhole ==
    ASSUME IInv, Ledger, Clean
    PROVE  Whole'
<1>1. call.op \in {"cleanup", "unprotect"} /\ result = "none"
  <2>1. ASSUME NEW r \in rows, CleanupRow(r)
        PROVE  call.op = "cleanup"
    BY <2>1 DEF CleanupRow, At
  <2>2. CleanupRowsDone \/ CleanupRules \/ CleanupRecords \/ ForgetRow => call.op = "cleanup"
    BY DEF CleanupRowsDone, CleanupRules, CleanupRecords, ForgetRow, At
  <2>3. RemoveAccess \/ ForgetAccess => call.op = "unprotect"
    BY DEF RemoveAccess, ForgetAccess, At
  <2>4. call.op \in {"cleanup", "unprotect"}
    BY <2>1, <2>2, <2>3 DEF Clean
  <2> QED BY <2>4 DEF Ledger, Base, Told, Idle
<1>2. ASSUME NEW r \in rows, CleanupRow(r)
      PROVE  Whole'
  <2>1. \/ Fail("stuck", {}) \/ Fail("none", {})
        \/ call' = [call EXCEPT !.todo = @ \ {r}] /\ result' = result
    BY <1>2 DEF CleanupRow, Request
  <2>2. CASE call' = [call EXCEPT !.todo = @ \ {r}] /\ result' = result
    <3>1. call' = [op |-> call.op, pc |-> call.pc, kind |-> call.kind, id |-> call.id,
                   made |-> call.made, todo |-> call.todo \ {r}]
      BY <2>2 DEF IInv, CallOK
    <3> QED BY <1>1, <2>2, <3>1, NoneClaimed
  <2> QED BY <2>1, <2>2, FailClaims
<1>3. ASSUME CleanupRowsDone \/ CleanupRules \/ CleanupRecords \/ ForgetRow \/ RemoveAccess
             \/ ForgetAccess
      PROVE  Whole'
  <2>1. \/ Goto("rules") \/ Goto("records") \/ Goto("forget") \/ UNCHANGED <<call, result>>
        \/ End("none") \/ End("cleaned") \/ Fail("none", {}) \/ Fail("refused", {})
    BY <1>3 DEF CleanupRowsDone, CleanupRules, CleanupRecords, ForgetRow, RemoveAccess,
       ForgetAccess, Request, Refuses
  <2>2. CASE Goto("rules") \/ Goto("records") \/ Goto("forget")
    <3>1. call'.op = call.op /\ result' = result
      BY <2>2, MovesCall DEF IInv
    <3> QED BY <1>1, <3>1, NoneClaimed
  <2>3. CASE UNCHANGED <<call, result>>
    BY <1>1, <2>3, NoneClaimed
  <2> QED BY <2>1, <2>2, <2>3, EndClaims, FailClaims
<1> QED BY <1>2, <1>3 DEF Clean

LEMMA AccessWhole ==
    ASSUME IInv, Ledger, PlanAccess \/ PutAccess \/ VerifyAccess
    PROVE  Whole'
<1>1. /\ call.op = "access" /\ result = "none"
      /\ \/ Fail("refused", {}) \/ Fail("none", {}) \/ End("none")
         \/ CreateNext("access") \/ Goto("put") \/ (\E id : SaveNext("access", id))
  BY DEF PlanAccess, PutAccess, VerifyAccess, At, Refuses, Request, Ledger, Base, Told, Idle
<1>2. CASE CreateNext("access") \/ Goto("put") \/ (\E id : SaveNext("access", id))
  <2>1. call'.op = call.op /\ result' = result
    BY <1>2, MovesCall DEF IInv
  <2> QED BY <1>1, <2>1, NoneClaimed
<1> QED BY <1>1, <1>2, EndClaims, FailClaims

LEMMA BetweenWhole ==
    ASSUME \/ \E m \in Modes \cup {"direct"} : UpdateService(m)
           \/ DeleteService
           \/ \E x \in Addresses : Remap(x)
           \/ Edit
           \/ Sync \/ BeginCleanup \/ SaveAccess \/ DeleteAccess
           \/ Undo \/ CallFails \/ Restart
    PROVE  Whole'
<1>1. CASE \/ \E m \in Modes \cup {"direct"} : UpdateService(m)
           \/ DeleteService
           \/ \E x \in Addresses : Remap(x)
           \/ Edit
  <2>1. call = Idle /\ call' = call /\ result' = "none"
    BY <1>1 DEF UpdateService, DeleteService, Remap, Edit
  <2> QED BY <2>1, NoneClaimed DEF Idle
<1>2. CASE Sync \/ BeginCleanup \/ SaveAccess \/ DeleteAccess
  <2>1. PICK op, pc, todo :
          /\ call' = [op |-> op, pc |-> pc, kind |-> "dns", id |-> None,
                      made |-> FALSE, todo |-> todo]
          /\ result' = "none"
          /\ op # "sync" \/ pc = "plan"
    BY <1>2 DEF Sync, BeginCleanup, SaveAccess, DeleteAccess, Begin, Idle
  <2> QED BY <2>1, NoneClaimed
<1>3. CASE Undo \/ CallFails
  BY <1>3, FailClaims DEF Undo, CallFails
<1>4. CASE Restart
  BY <1>4, NoneClaimed DEF Restart, Idle
<1> QED BY <1>1, <1>2, <1>3, <1>4

LEMMA NextWhole ==
    ASSUME IInv, Possession, Ledger, TypeOK, Whole, [Next]_vars
    PROVE  Whole'
<1>1. CASE Publish
  BY <1>1, PlanTunnelWhole, ConfigureWhole, SyncPrivateRouteWhole, PlanSpectrumWhole,
     PutSpectrumWhole, PlanWorkerWhole, WorkerStepsWhole, PlanRecordWhole, SyncRuleWhole,
     SyncEntryWhole, SyncOriginWhole, AccessWhole
  DEF Publish
<1>2. CASE UNCHANGED vars
  <2>1. UNCHANGED <<mode, address, cloud, rows, call, result>>
    BY <1>2 DEF vars
  <2>2. call.op = "sync" => BuiltTunnel'
    BY <2>1 DEF Whole, Built, BuiltTunnel, TunnelUp, Exists, RowOf, Key, New
  <2>3. call.op = "sync" => BuiltRecords'
    BY <2>1 DEF Whole, Built, BuiltRecords, Entry, EntryRecords, New
  <2>4. call.op = "sync" => BuiltWorker'
    BY <2>1 DEF Whole, Built, BuiltWorker, Entry, EntryRecords, WorkerUp, Exists, RowOf, Key, New
  <2>5. PublishedIsComplete'
    BY <2>1 DEF Whole, PublishedIsComplete, EntryRecords, ServiceRows, RowOf, Named, Key, New
  <2> QED BY <2>1, <2>2, <2>3, <2>4, <2>5 DEF Whole, Built
<1> QED
  BY <1>1, <1>2, CleanWhole, BetweenWhole, CreateWhole, SaveResourceWhole DEF Next

\* When Sync reports success, in whatever mode and whatever has failed before, the
\* whole publication is at Cloudflare, has its rows and points to the present mapping.
THEOREM PublicationsComplete == Spec => []PublishedIsComplete
<1> DEFINE Inv == IInv /\ Possession /\ edits \in Nat /\ Whole
<1>1. Init => Inv
  <2>1. Init => IInv
    BY Initially
  <2>2. Init => Possession
    BY DEF Init, Idle, Possession, RowsShaped, Restrained, Checked
  <2>3. Init => Whole
    BY DEF Init, Idle, Whole, Built, PublishedIsComplete
  <2> QED BY <2>1, <2>2, <2>3 DEF Init
<1>2. Inv /\ Ledger /\ TypeOK /\ [Next]_vars => Inv'
  BY NextStep, NextCareful, EditsCount, NextWhole DEF Step, Careful
<1>3. Inv => PublishedIsComplete
  BY DEF Whole
<1> QED BY <1>1, <1>2, <1>3, LedgerKept, TypeCorrect, PTL DEF Spec

-------------------------------------------------------------------------------
(* Refusals.  As long as nobody else has changed anything at Cloudflare, what  *)
(* Sync and SaveAccess refuse is something lost or half removed.               *)

\* The rows whose objects a call takes for granted.
Standing == {"tunnel", "private_route", "spectrum", "worker_route"}

OwnerOf(r) == IF r.kind = "access" THEN "access" ELSE "service"

EntryKind == IF mode = "tunnel" THEN "cname" ELSE "a"

\* Cloudflare as StunDeck alone leaves it.
Tidy ==
    /\ \A o \in cloud : Ours(o)
    /\ \A o, p \in EntryRecords : o = p
    /\ \A o, p \in ObjectsOf("origin") : o = p
    /\ \A o \in EntryRecords : o.kind = EntryKind \/ Key(o) \in lost
    /\ \A o \in cloud : o.kind = "private_route" /\ Key(o) \in rows =>
         [kind |-> "tunnel", id |-> o.link] \in rows
    /\ \A r \in rows : r.kind \in Standing \cup {"access"} /\ OwnerOf(r) \notin torn =>
         \E o \in cloud : Key(o) = r

\* What a call that is about to write a row, or to delete what it has created,
\* knows of the table.
Awaited ==
    /\ call.pc \in {"save", "undo"} /\ call.made => RowOf(call.kind) = {}
    /\ \/ call.pc = "plan"
       \/ call.pc = "put" /\ (call.op = "access" \/ mode = "spectrum")
       => call.made = FALSE
    /\ call.op = "access" /\ call.pc = "save" => Exists("access", call.id)
    /\ call.op = "access" /\ call.pc = "put" =>
         \A r \in RowOf("access") : Exists("access", r.id)
    /\ call.pc = "save" /\ call.kind = "private_route" =>
         \A o \in cloud : Key(o) = [kind |-> "private_route", id |-> call.id] =>
            [kind |-> "tunnel", id |-> o.link] \in rows

Excused == (result = "refused" => lost # {} \/ torn # {}) /\ result # "stuck"

Orderly == Tidy /\ Awaited /\ Excused

\* The table as it was, and objects that are new or gone.
LEMMA TidyStays ==
    ASSUME Tidy, UNCHANGED <<mode, rows>>, lost \subseteq lost', torn \subseteq torn',
           \A o \in cloud' :
              \/ o \in cloud
              \/ /\ Ours(o) /\ o.kind \notin DNSKinds
                 /\ o.kind = "private_route" => Key(o) \notin rows,
           \A r \in rows : \A o \in cloud :
              Key(o) = r /\ r.kind \in Standing \cup {"access"} =>
                \/ OwnerOf(r) \in torn'
                \/ \E p \in cloud' : Key(p) = r
    PROVE  Tidy'
<1>1. \A o : Ours(o)' = Ours(o) /\ Key(o)' = Key(o) /\ OwnerOf(o)' = OwnerOf(o)
  BY DEF Ours, Key, OwnerOf
<1>2. EntryRecords' \subseteq EntryRecords /\ ObjectsOf("origin")' \subseteq ObjectsOf("origin")
  BY DEF EntryRecords, ObjectsOf, DNSKinds
<1>3. EntryKind' = EntryKind
  BY DEF EntryKind
<1>4. \A o \in cloud' : Ours(o)
  BY DEF Tidy
<1>5. /\ \A o, p \in EntryRecords' : o = p
      /\ \A o, p \in ObjectsOf("origin")' : o = p
      /\ \A o \in EntryRecords' : o.kind = EntryKind \/ Key(o) \in lost
  BY <1>2 DEF Tidy
<1>6. \A o \in cloud' : o.kind = "private_route" /\ Key(o) \in rows =>
        [kind |-> "tunnel", id |-> o.link] \in rows
  BY DEF Tidy
<1>7. \A r \in rows : r.kind \in Standing \cup {"access"} /\ OwnerOf(r) \notin torn' =>
        \E o \in cloud' : Key(o) = r
  BY DEF Tidy
<1> QED BY <1>1, <1>3, <1>4, <1>5, <1>6, <1>7 DEF Tidy

LEMMA SameCloud ==
    ASSUME Tidy, UNCHANGED <<mode, rows, cloud, torn>>, lost \subseteq lost'
    PROVE  Tidy'
BY TidyStays

\* The call ends without a refusal, or goes on.
Onward ==
    \/ call' = Idle /\ result' \in {"none", "synced", "cleaned"}
    \/ /\ result' = result
       /\ call'.pc \notin {"save", "undo", "plan"}
       /\ call'.pc = "put" => call'.op = "sync" /\ mode' # "spectrum"

LEMMA NotRefused ==
    ASSUME Ledger, call.op # "none", result' = result
    PROVE  Excused'
BY DEF Ledger, Base, Told, Idle, Excused

LEMMA GoesOnward ==
    ASSUME Ledger, call.op # "none", Onward
    PROVE  Awaited' /\ Excused'
<1>1. CASE call' = Idle /\ result' \in {"none", "synced", "cleaned"}
  BY <1>1 DEF Idle, Awaited, Excused
<1>2. CASE /\ result' = result
           /\ call'.pc \notin {"save", "undo", "plan"}
           /\ call'.pc = "put" => call'.op = "sync" /\ mode' # "spectrum"
  BY <1>2, NotRefused DEF Awaited
<1> QED BY <1>1, <1>2 DEF Onward

\* The ways to go on.
LEMMA OnwardWays ==
    ASSUME IInv, NEW pc, NEW kind, NEW keys
    PROVE  /\ End("none") \/ End("synced") \/ End("cleaned") => Onward
           /\ Fail("none", keys) => Onward /\ lost \subseteq lost'
           /\ Goto(pc) /\ pc \notin {"save", "undo", "plan", "put"} => Onward
           /\ CreateNext(kind) => Onward
<1>1. Fail("none", keys) => End("none") /\ lost \subseteq lost'
  BY DEF Fail
<1>2. \A r : End(r) => call' = Idle /\ result' = r
  BY DEF End
<1> QED BY <1>1, <1>2, MovesCall DEF Onward, IInv

LEMMA RefusesOrderly ==
    ASSUME Tidy, UNCHANGED <<service, rows, torn>>, Refuses, lost # {} \/ torn # {}
    PROVE  Orderly'
<1>1. /\ cloud' = cloud /\ lost \subseteq lost' /\ call' = Idle
      /\ result' = "refused"
  BY DEF Refuses, Fail, End
<1>2. Tidy'
  BY <1>1, SameCloud DEF service
<1>3. Awaited' /\ Excused'
  BY <1>1 DEF Idle, Awaited, Excused
<1> QED BY <1>2, <1>3 DEF Orderly

-------------------------------------------------------------------------------
(* What a refusal is about *)

LEMMA NotTaken ==
    ASSUME Tidy, NEW records, records \subseteq cloud, \A o, p \in records : o = p
    PROVE  ~Taken(records)
<1>1. CASE records = {}
  <2>1. Cardinality(records) = 0
    BY <1>1, FS_EmptySet
  <2> QED BY <1>1, <2>1 DEF Taken
<1>2. ASSUME NEW x \in records
      PROVE  ~Taken(records)
  <2>1. records = {x}
    OBVIOUS
  <2>2. Cardinality(records) = 1
    BY <2>1, FS_Singleton
  <2> QED BY <2>2 DEF Taken, Tidy
<1> QED BY <1>1, <1>2

LEMMA NotTakenOver ==
    ASSUME Tidy, NEW kind
    PROVE  ~TakenOver(kind)
BY DEF Tidy, TakenOver, Named

LEMMA OthersAreLost ==
    ASSUME Ledger, Tidy, call.pc \notin {"save", "undo"},
           NEW kind \in RowKinds, kind \notin DNSKinds \cup {"redirect"}, Others(kind) # {}
    PROVE  lost # {}
<1>1. PICK o \in cloud : o.kind = kind /\ Key(o) \notin rows
  BY DEF Others, ObjectsOf
<1>2. Ours(o)
  BY DEF Tidy
<1>3. ~Recorded(o)
  BY <1>1 DEF Recorded
<1>4. Held = {}
  BY DEF Held
<1>5. Key(o) \notin Unrecorded(cloud)
  BY <1>1, UnrecordedKind
<1> QED BY <1>1, <1>2, <1>3, <1>4, <1>5 DEF Ledger, Base, NothingForgotten

LEMMA MissingIsTorn ==
    ASSUME Tidy, NEW kind \in Standing \cup {"access"}, Missing(kind)
    PROVE  torn # {}
BY DEF Tidy, Missing, RowOf, Named
-------------------------------------------------------------------------------
(* Each action, as long as there were no foreign changes. *)

LEMMA CreateOrderly ==
    ASSUME IInv, Ledger, Whole, Orderly, NEW i \in Ids, Create(i)
    PROVE  Orderly'
<1> DEFINE new == New(call.kind, i, IF call.kind = "spectrum" THEN address
                                    ELSE IF call.kind = "private_route" THEN call.id
                                    ELSE None)
<1>1. /\ call.pc = "create" /\ call.op \in {"sync", "access"}
      /\ UNCHANGED <<mode, rows, torn>>
      /\ cloud' = cloud \cup {new}
      /\ \/ SaveNext(call.kind, i) /\ lost' = lost
         \/ Fail("none", {Key(new)})
  BY DEF Create, Request, service, IInv, CallOK
<1>2. /\ call.kind \in {"tunnel", "private_route", "spectrum", "worker_route", "access"}
      /\ RowOf(call.kind) = {}
  BY <1>1 DEF Ledger, Course
<1>3. Ours(new) /\ new.kind = call.kind /\ Key(new) = [kind |-> call.kind, id |-> i]
  BY DEF New, Ours, Key
<1>4. Key(new) \notin rows
  BY <1>2, <1>3 DEF RowOf
<1>5. lost \subseteq lost'
  BY <1>1, OnwardWays
<1>6. Tidy'
  <2>1. new.kind \notin DNSKinds
    BY <1>2, <1>3 DEF DNSKinds
  <2> HIDE DEF new
  <2> QED BY <1>1, <1>3, <1>4, <1>5, <2>1, TidyStays DEF Orderly
<1>7. CASE Fail("none", {Key(new)})
  <2>1. Onward
    BY <1>7, OnwardWays
  <2> QED BY <1>1, <1>6, <2>1, GoesOnward DEF Orderly
<1>8. CASE SaveNext(call.kind, i)
  <2>1. /\ call' = [op |-> call.op, pc |-> "save", kind |-> call.kind, id |-> i,
                    made |-> call.made, todo |-> call.todo]
        /\ result' = result
    BY <1>8, MovesCall DEF IInv
  <2>2. Excused'
    BY <1>1, <2>1, NotRefused
  <2>3. RowOf(call.kind)' = {}
    BY <1>1, <1>2, <2>1 DEF RowOf
  <2>4. \E o \in cloud' : Key(o)' = [kind |-> call.kind, id |-> i]
    BY <1>1, <1>3 DEF Key
  <2>5. ASSUME call.kind = "private_route", NEW o \in cloud', Key(o) = Key(new)
        PROVE  [kind |-> "tunnel", id |-> o.link] \in rows
    <3>1. o \notin cloud
      <4>1. SUFFICES ASSUME o \in cloud PROVE FALSE
        OBVIOUS
      <4>2. Unused(i)
        BY DEF Create
      <4>3. Key(o) \in {Key(x) : x \in cloud}
        BY <4>1
      <4>4. Key(o).id # i
        BY <4>2, <4>3 DEF Unused
      <4> QED BY <1>3, <2>5, <4>4
    <3>2. o.link = call.id
      BY <1>1, <2>5, <3>1 DEF New
    <3>3. call.op = "sync"
      BY <1>1, <2>5 DEF IInv, CallOK
    <3> QED BY <1>1, <2>5, <3>2, <3>3 DEF Whole, Built, BuiltTunnel, TunnelUp
  <2>6. call.kind = "private_route" =>
          \A o \in cloud' : Key(o)' = [kind |-> "private_route", id |-> i] =>
             [kind |-> "tunnel", id |-> o.link] \in rows'
    <3>1. \A o : Key(o)' = Key(o)
      BY DEF Key
    <3> HIDE DEF new
    <3> QED BY <1>1, <1>3, <2>5, <3>1
  <2>7. call.op = "access" => call.kind = "access"
    BY <1>1 DEF IInv, CallOK
  <2>8. Awaited'
    BY <1>1, <2>1, <2>3, <2>4, <2>6, <2>7 DEF Awaited, Exists
  <2> QED BY <1>6, <2>2, <2>8 DEF Orderly
<1> QED BY <1>1, <1>7, <1>8

\* A row that is written names an object; what a route leads to has a row.
LEMMA SavedTidy ==
    ASSUME Tidy, Possession, UNCHANGED <<mode, cloud, torn, lost>>,
           NEW kind, NEW id, rows' = Saved(kind, id),
           \A r \in RowOf(kind) : r.id = id,
           kind \in Standing \cup {"access"} => Exists(kind, id),
           kind = "private_route" =>
             \A o \in cloud : Key(o) = [kind |-> kind, id |-> id] =>
                [kind |-> "tunnel", id |-> o.link] \in rows
    PROVE  Tidy'
<1>1. \A o : Ours(o)' = Ours(o) /\ Key(o)' = Key(o) /\ OwnerOf(o)' = OwnerOf(o)
  BY DEF Ours, Key, OwnerOf
<1>2. /\ EntryRecords' = EntryRecords /\ ObjectsOf("origin")' = ObjectsOf("origin")
      /\ EntryKind' = EntryKind
  BY DEF EntryRecords, ObjectsOf, EntryKind
<1>3. rows' = rows \cup {[kind |-> kind, id |-> id]}
  <2>1. \A r \in RowOf(kind) : r = [kind |-> kind, id |-> id]
    BY DEF RowOf, Possession, RowsShaped
  <2> QED BY <2>1 DEF Saved, RowOf
<1>4. \A o \in cloud : o.kind = "private_route" /\ Key(o) \in rows' =>
        [kind |-> "tunnel", id |-> o.link] \in rows'
  <2>1. ASSUME NEW o \in cloud, o.kind = "private_route",
               Key(o) = [kind |-> kind, id |-> id]
        PROVE  kind = "private_route"
    BY <2>1 DEF Key
  <2> QED BY <1>3, <2>1 DEF Tidy
<1>5. ASSUME NEW r \in rows', r.kind \in Standing \cup {"access"}, OwnerOf(r) \notin torn
      PROVE  \E o \in cloud : Key(o) = r
  <2>1. CASE r \in rows
    BY <1>5, <2>1 DEF Tidy
  <2>2. CASE r = [kind |-> kind, id |-> id]
    BY <1>5, <2>2 DEF Exists
  <2> QED BY <1>3, <2>1, <2>2
<1> QED BY <1>1, <1>2, <1>4, <1>5 DEF Tidy

LEMMA SaveResourceOrderly ==
    ASSUME IInv, Possession, Ledger, Whole, Orderly, SaveResource
    PROVE  Orderly'
<1>1. /\ call.pc = "save" /\ UNCHANGED <<mode, cloud, torn>>
      /\ call.op \in {"sync", "access"}
      /\ call.op = "access" <=> call.kind = "access"
  BY DEF SaveResource, service, IInv, CallOK
<1>2. \/ /\ rows' = Saved(call.kind, call.id) /\ lost' = lost
         /\ Goto("configure") \/ Goto("verify") \/ End("synced")
      \/ rows' = rows /\ lost' = lost /\ call.made /\ Goto("undo")
      \/ rows' = rows /\ Fail("none", Held)
  BY DEF SaveResource
<1>3. CASE /\ rows' = Saved(call.kind, call.id) /\ lost' = lost
           /\ Goto("configure") \/ Goto("verify") \/ End("synced")
  <2>1. \A r \in RowOf(call.kind) : r.id = call.id
    BY <1>1 DEF Ledger, Course
  <2>2. call.kind \in Standing \cup {"access"} => Exists(call.kind, call.id)
    <3>1. ASSUME NEW kind, NEW id, NEW link, New(kind, id, link) \in cloud
          PROVE  Exists(kind, id)
      BY <3>1 DEF Exists, New, Key
    <3>2. call.kind \in {"tunnel", "worker_route"} => Exists(call.kind, call.id)
      BY <1>1 DEF Whole, Built, BuiltTunnel, BuiltWorker
    <3>3. call.kind = "spectrum" => New("spectrum", call.id, address) \in cloud
      BY <1>1 DEF Whole, Built, BuiltRecords
    <3>4. call.kind = "private_route" =>
            \E t \in RowOf("tunnel") : New("private_route", call.id, t.id) \in cloud
      BY <1>1 DEF Whole, Built, BuiltTunnel
    <3>5. call.kind = "access" => Exists("access", call.id)
      BY <1>1 DEF Orderly, Awaited
    <3> QED BY <3>1, <3>2, <3>3, <3>4, <3>5 DEF Standing
  <2>3. Tidy'
    BY <1>1, <1>3, <2>1, <2>2, SavedTidy DEF Orderly, Awaited
  <2>4. Onward
    BY <1>3, OnwardWays
  <2> QED BY <1>1, <2>3, <2>4, GoesOnward DEF Orderly
<1>4. CASE rows' = rows /\ lost' = lost /\ call.made /\ Goto("undo")
  <2>1. /\ call' = [op |-> call.op, pc |-> "undo", kind |-> call.kind, id |-> call.id,
                    made |-> call.made, todo |-> call.todo]
        /\ result' = result
    BY <1>4, MovesCall DEF IInv
  <2>2. Tidy' /\ Excused'
    BY <1>1, <1>4, <2>1, SameCloud, NotRefused DEF Orderly
  <2>3. RowOf(call.kind)' = {}
    BY <1>1, <1>4, <2>1 DEF Orderly, Awaited, RowOf
  <2>4. Awaited'
    BY <2>1, <2>3 DEF Awaited
  <2> QED BY <2>2, <2>4 DEF Orderly
<1>5. CASE rows' = rows /\ Fail("none", Held)
  <2>1. Onward /\ lost \subseteq lost'
    BY <1>5, OnwardWays
  <2> QED BY <1>1, <1>5, <2>1, SameCloud, GoesOnward DEF Orderly
<1> QED BY <1>2, <1>3, <1>4, <1>5

LEMMA UndoOrderly ==
    ASSUME IInv, Ledger, Orderly, Undo
    PROVE  Orderly'
<1>1. /\ call.pc = "undo" /\ UNCHANGED <<mode, rows, torn>>
      /\ Fail("none", {}) \/ Fail("none", Held)
      /\ cloud' \subseteq cloud
      /\ \A o \in cloud : o \in cloud' \/ Key(o) \in Held
  BY DEF Undo, service
<1>2. call.op # "none"
  BY <1>1 DEF IInv, CallOK, Ops
<1>3. Onward /\ lost \subseteq lost'
  BY <1>1, OnwardWays
<1>4. ASSUME NEW r \in rows, r \in Held
      PROVE  FALSE
  <2>1. call.made /\ r = [kind |-> call.kind, id |-> call.id]
    BY <1>4 DEF Held
  <2> QED BY <1>1, <2>1 DEF Orderly, Awaited, RowOf
<1>5. Tidy'
  BY <1>1, <1>3, <1>4, TidyStays DEF Orderly
<1> QED BY <1>2, <1>3, <1>5, GoesOnward DEF Orderly

LEMMA BrokenOrderly ==
    ASSUME IInv, Ledger, Orderly, CallFails \/ Restart
    PROVE  Orderly'
<1>1. CASE CallFails
  <2>1. /\ UNCHANGED <<mode, rows, cloud, torn>>
        /\ Fail("none", {}) /\ call.op # "none"
    BY <1>1 DEF CallFails, service, IInv, CallOK, Ops
  <2>2. Onward /\ lost \subseteq lost'
    BY <2>1, OnwardWays
  <2> QED BY <2>1, <2>2, SameCloud, GoesOnward DEF Orderly
<1>2. CASE Restart
  <2>1. /\ UNCHANGED <<mode, rows, cloud, torn>>
        /\ call' = Idle /\ result' = "none" /\ lost \subseteq lost'
    BY <1>2 DEF Restart
  <2>2. Awaited' /\ Excused'
    BY <2>1 DEF Idle, Awaited, Excused
  <2> QED BY <2>1, <2>2, SameCloud DEF Orderly
<1> QED BY <1>1, <1>2

\* The entry's or the origin's record is ensured, by one whose type the mode wants.
LEMMA EnsureOrderly ==
    ASSUME IInv, Ledger, Orderly, UNCHANGED <<service, rows, torn>>, call.op = "sync",
           NEW records, NEW kind, NEW link, NEW Done, EnsureRecord(records, kind, link, Done),
           \/ records = EntryRecords /\ kind = EntryKind
           \/ records = ObjectsOf("origin") /\ kind = "origin"
    PROVE  \/ Orderly'
           \/ Tidy' /\ Done
<1> DEFINE new == New(kind, Derived, link)
<1>1. Ours(new) /\ new.kind = kind /\ Key(new) = [kind |-> kind, id |-> Derived]
  BY DEF New, Ours, Key
<1>2. /\ kind \in DNSKinds
      /\ records \subseteq cloud /\ \A o \in records : o.kind \in DNSKinds
      /\ \A o, p \in records : o = p
  BY DEF EntryKind, EntryRecords, ObjectsOf, DNSKinds, Orderly, Tidy
<1>3. ~Taken(records)
  BY <1>2, NotTaken DEF Orderly
<1>4. \/ (\E o \in records : o.kind # kind) /\ Refuses
      \/ cloud' = cloud /\ lost' = lost /\ Done
      \/ /\ cloud' = (cloud \ records) \cup {new}
         /\ (lost' = lost /\ Done) \/ Fail("none", {})
  BY <1>3 DEF EnsureRecord, Request
<1>5. CASE (\E o \in records : o.kind # kind) /\ Refuses
  <2>1. PICK o \in records : o.kind # kind
    BY <1>5
  <2>2. o \in EntryRecords /\ kind = EntryKind
    BY <2>1 DEF ObjectsOf
  <2>3. lost # {}
    BY <2>1, <2>2 DEF Orderly, Tidy
  <2> QED BY <1>5, <2>3, RefusesOrderly DEF Orderly
<1>6. CASE cloud' = cloud /\ lost' = lost /\ Done
  BY <1>6, SameCloud DEF Orderly, service
<1>7. CASE /\ cloud' = (cloud \ records) \cup {new}
           /\ (lost' = lost /\ Done) \/ Fail("none", {})
  <2>1. lost \subseteq lost' /\ UNCHANGED <<mode, rows, torn>>
    BY <1>7, OnwardWays DEF service
  <2>2. \A o : Ours(o)' = Ours(o) /\ Key(o)' = Key(o) /\ OwnerOf(o)' = OwnerOf(o)
    BY DEF Ours, Key, OwnerOf
  <2>3. \A o \in cloud' : Ours(o)
    BY <1>1, <1>7 DEF Orderly, Tidy
  <2>4. /\ \A o, p \in EntryRecords' : o = p
        /\ \A o, p \in ObjectsOf("origin")' : o = p
        /\ \A o \in EntryRecords' : o.kind = EntryKind' \/ Key(o) \in lost'
    <3>1. EntryKind' = EntryKind /\ EntryKind \in {"a", "cname"}
      BY <2>1 DEF EntryKind
    <3>2. CASE records = EntryRecords /\ kind = EntryKind
      <4>1. EntryRecords' = {new} /\ ObjectsOf("origin")' = ObjectsOf("origin")
        <5> HIDE DEF new
        <5> QED BY <1>1, <1>7, <3>1, <3>2 DEF EntryRecords, ObjectsOf
      <4> HIDE DEF new
      <4> QED BY <1>1, <3>1, <3>2, <4>1 DEF Orderly, Tidy
    <3>3. CASE records = ObjectsOf("origin") /\ kind = "origin"
      <4>1. EntryRecords' = EntryRecords /\ ObjectsOf("origin")' = {new}
        <5> HIDE DEF new
        <5> QED BY <1>1, <1>7, <3>3 DEF EntryRecords, ObjectsOf
      <4> HIDE DEF new
      <4> QED BY <2>1, <3>1, <4>1 DEF Orderly, Tidy
    <3> QED BY <3>2, <3>3
  <2>5. \A o \in cloud' : o.kind = "private_route" /\ Key(o) \in rows =>
          [kind |-> "tunnel", id |-> o.link] \in rows
    <3> HIDE DEF new
    <3> QED BY <1>1, <1>2, <1>7 DEF Orderly, Tidy, DNSKinds
  <2>6. ASSUME NEW r \in rows, r.kind \in Standing \cup {"access"}, OwnerOf(r) \notin torn
        PROVE  \E o \in cloud' : Key(o) = r
    <3>1. PICK o \in cloud : Key(o) = r
      BY <2>6 DEF Orderly, Tidy
    <3>2. o.kind = r.kind
      BY <3>1 DEF Key
    <3>3. o \notin records
      BY <1>2, <2>6, <3>2 DEF DNSKinds, Standing
    <3> QED BY <1>7, <3>1, <3>3
  <2>7. Tidy'
    <3> HIDE DEF new
    <3> QED BY <2>1, <2>2, <2>3, <2>4, <2>5, <2>6 DEF Tidy
  <2>8. CASE Fail("none", {})
    <3>1. Onward
      BY <2>8, OnwardWays
    <3> QED BY <2>7, <3>1, GoesOnward DEF Orderly
  <2> QED BY <1>7, <2>7, <2>8
<1> QED BY <1>4, <1>5, <1>6, <1>7

LEMMA SyncEntryOrderly ==
    ASSUME IInv, Possession, Ledger, Orderly, SyncEntry
    PROVE  Orderly'
<1>1. /\ call.op = "sync" /\ call.pc = "entry" /\ UNCHANGED <<service, rows, torn>>
      /\ mode \in {"tunnel", "workers", "dns", "redirect"}
  BY DEF SyncEntry, At, Ledger, Course
<1>2. Orderly' \/ (Tidy' /\ EntryDone)
  <2>1. \/ mode = "tunnel" /\ EnsureRecord(EntryRecords, "cname", call.id, EntryDone)
        \/ mode # "tunnel" /\ EnsureRecord(EntryRecords, "a", Derived, EntryDone)
        \/ mode # "tunnel" /\ EnsureRecord(EntryRecords, "a", address, EntryDone)
    BY DEF SyncEntry
  <2> QED BY <1>1, <2>1, EnsureOrderly DEF EntryKind
<1>3. ASSUME Tidy', EntryDone
      PROVE  Orderly'
  <2>1. \/ mode = "dns" /\ SaveNext("dns", Derived)
        \/ Onward
    BY <1>3, OnwardWays DEF EntryDone
  <2>2. CASE mode = "dns" /\ SaveNext("dns", Derived)
    <3>1. /\ call' = [op |-> call.op, pc |-> "save", kind |-> "dns", id |-> Derived,
                      made |-> call.made, todo |-> call.todo]
          /\ result' = result
      BY <2>2, MovesCall DEF IInv
    <3>2. call.made = FALSE
      BY <1>1, <2>2 DEF Possession, Restrained
    <3>3. Awaited'
      BY <1>1, <3>1, <3>2 DEF Awaited
    <3>4. Excused'
      BY <1>1, <3>1, NotRefused
    <3> QED BY <1>3, <3>3, <3>4 DEF Orderly
  <2> QED BY <1>1, <1>3, <2>1, <2>2, GoesOnward DEF Orderly
<1> QED BY <1>2, <1>3

LEMMA SyncOriginOrderly ==
    ASSUME IInv, Ledger, Orderly, SyncOrigin
    PROVE  Orderly'
<1> DEFINE next == IF mode = "redirect" THEN "rule" ELSE "upload"
<1>1. /\ call.op = "sync" /\ UNCHANGED <<service, rows, torn>>
      /\ EnsureRecord(ObjectsOf("origin"), "origin", address, Goto(next))
  BY Zenon DEF SyncOrigin, At
<1>2. next \in {"rule", "upload"}
  OBVIOUS
<1> HIDE DEF next
<1>3. Orderly' \/ (Tidy' /\ Goto(next))
  BY <1>1, EnsureOrderly
<1>4. Goto(next) => Onward
  BY <1>2, OnwardWays
<1> QED BY <1>1, <1>3, <1>4, GoesOnward DEF Orderly

LEMMA PlanTunnelOrderly ==
    ASSUME IInv, Ledger, Orderly, PlanTunnel
    PROVE  Orderly'
<1>1. /\ call.op = "sync" /\ call.pc = "plan" /\ UNCHANGED <<service, rows, torn>>
      /\ \/ /\ \/ Taken(EntryRecords) \/ Missing("tunnel") \/ TakenOver("tunnel")
            /\ Refuses
         \/ UNCHANGED <<cloud, lost>> /\ CreateNext("tunnel")
         \/ /\ UNCHANGED <<cloud, lost, result>>
            /\ \E id : call' = [call EXCEPT !.pc = "configure", !.id = id]
  BY DEF PlanTunnel, At
<1>2. CASE /\ \/ Taken(EntryRecords) \/ Missing("tunnel") \/ TakenOver("tunnel")
           /\ Refuses
  <2>1. ~Taken(EntryRecords)
    BY NotTaken DEF Orderly, Tidy, EntryRecords
  <2>2. torn # {}
    BY <1>2, <2>1, NotTakenOver, MissingIsTorn DEF Orderly, Standing
  <2> QED BY <1>1, <1>2, <2>2, RefusesOrderly DEF Orderly
<1>3. CASE UNCHANGED <<cloud, lost>> /\ CreateNext("tunnel")
  <2>1. Onward
    BY <1>3, OnwardWays
  <2> QED BY <1>1, <1>3, <2>1, SameCloud, GoesOnward DEF Orderly, service
<1>4. CASE /\ UNCHANGED <<cloud, lost, result>>
           /\ \E id : call' = [call EXCEPT !.pc = "configure", !.id = id]
  <2>1. PICK id : call' = [op |-> call.op, pc |-> "configure", kind |-> call.kind, id |-> id,
                           made |-> call.made, todo |-> call.todo]
    BY <1>4 DEF IInv, CallOK
  <2>2. Onward
    BY <1>4, <2>1 DEF Onward
  <2> QED BY <1>1, <1>4, <2>2, SameCloud, GoesOnward DEF Orderly, service
<1> QED BY <1>1, <1>2, <1>3, <1>4

LEMMA ConfigureOrderly ==
    ASSUME IInv, Ledger, TypeOK, Orderly, Configure
    PROVE  Orderly'
<1> DEFINE old == {o \in ObjectsOf("tunnel") : o.id = call.id}
           next == IF mode = "warp" THEN "put" ELSE "entry"
           new == New("tunnel", call.id, Derived)
<1>1. /\ call.op = "sync" /\ call.pc = "configure" /\ UNCHANGED <<mode, rows, torn>>
      /\ cloud' = (cloud \ old) \cup {[o EXCEPT !.link = Derived] : o \in old}
      /\ (Goto(next) /\ lost' = lost) \/ Fail("none", {})
  BY DEF Configure, At, Request, service
<1>2. \A o \in old : /\ Key(o) = [kind |-> "tunnel", id |-> call.id]
                     /\ [o EXCEPT !.link = Derived] = new
  <2>1. ASSUME NEW o \in old
        PROVE  /\ Key(o) = [kind |-> "tunnel", id |-> call.id]
               /\ [o EXCEPT !.link = Derived] = new
    <3>1. o \in cloud /\ Ours(o) /\ Key(o) = [kind |-> "tunnel", id |-> call.id]
      BY DEF ObjectsOf, Orderly, Tidy, Key
    <3> QED BY <3>1, OwnObject
  <2> QED BY <2>1
<1>3. Ours(new) /\ new.kind = "tunnel" /\ Key(new) = [kind |-> "tunnel", id |-> call.id]
  BY DEF New, Ours, Key
<1>4. lost \subseteq lost'
  BY <1>1, OnwardWays
<1>5. next \in {"put", "entry"} /\ (next = "put" => mode = "warp")
  OBVIOUS
<1>6. Tidy'
  <2>1. \A o \in cloud' : o \in cloud \/ o = new
    BY <1>1, <1>2
  <2>2. \A o \in cloud : o \in cloud' \/ (Key(o) = Key(new) /\ new \in cloud')
    BY <1>1, <1>2, <1>3
  <2> HIDE DEF old, new
  <2> QED BY <1>1, <1>3, <1>4, <2>1, <2>2, TidyStays DEF Orderly, DNSKinds
<1>7. Onward
  <2> HIDE DEF next
  <2>1. CASE Goto(next)
    <3>1. /\ call' = [op |-> call.op, pc |-> next, kind |-> call.kind, id |-> call.id,
                      made |-> call.made, todo |-> call.todo]
          /\ result' = result
      BY <2>1, MovesCall DEF IInv
    <3> QED BY <1>1, <1>5, <3>1 DEF Onward
  <2> QED BY <1>1, <2>1, OnwardWays
<1> QED BY <1>1, <1>6, <1>7, GoesOnward DEF Orderly

LEMMA SyncPrivateRouteOrderly ==
    ASSUME IInv, Possession, Ledger, Whole, Orderly, SyncPrivateRoute
    PROVE  Orderly'
<1> DEFINE route == UNION {Named(r) : r \in RowOf("private_route")}
<1>1. /\ call.op = "sync" /\ call.pc = "put" /\ mode = "warp"
      /\ UNCHANGED <<service, rows, torn>>
      /\ \/ /\ \/ Others("private_route") # {}
               \/ Missing("private_route") \/ TakenOver("private_route")
               \/ \E o \in route : o.link # call.id
            /\ Refuses
         \/ /\ UNCHANGED <<cloud, lost>>
            /\ CreateNext("private_route") \/ End("synced")
  BY DEF SyncPrivateRoute, At
<1>2. ASSUME NEW o \in route
      PROVE  o.link = call.id
  <2>1. PICK r \in RowOf("private_route") : o \in cloud /\ Key(o) = r
    BY DEF Named
  <2>2. o.kind = "private_route" /\ Key(o) \in rows
    BY <2>1 DEF RowOf, Key
  <2>3. [kind |-> "tunnel", id |-> o.link] \in rows
    BY <2>1, <2>2 DEF Orderly, Tidy
  <2>4. [kind |-> "tunnel", id |-> call.id] \in rows
    BY <1>1 DEF Whole, Built, BuiltTunnel, TunnelUp
  <2>5. [kind |-> "tunnel", id |-> o.link] = [kind |-> "tunnel", id |-> call.id]
    BY <2>3, <2>4 DEF Ledger, Base, RowsOK
  <2> QED BY <2>5
<1>3. CASE /\ \/ Others("private_route") # {}
              \/ Missing("private_route") \/ TakenOver("private_route")
              \/ \E o \in route : o.link # call.id
           /\ Refuses
  <2>1. CASE Others("private_route") # {}
    <3>1. lost # {}
      BY <1>1, <2>1, OthersAreLost DEF Orderly, RowKinds, ServiceKinds, DNSKinds
    <3> QED BY <1>1, <1>3, <3>1, RefusesOrderly DEF Orderly
  <2>2. CASE Missing("private_route")
    <3>1. torn # {}
      BY <2>2, MissingIsTorn DEF Orderly, Standing
    <3> QED BY <1>1, <1>3, <3>1, RefusesOrderly DEF Orderly
  <2> QED BY <1>2, <1>3, <2>1, <2>2, NotTakenOver DEF Orderly
<1>4. CASE /\ UNCHANGED <<cloud, lost>>
           /\ CreateNext("private_route") \/ End("synced")
  <2>1. Onward
    BY <1>4, OnwardWays
  <2> QED BY <1>1, <1>4, <2>1, SameCloud, GoesOnward DEF Orderly, service
<1> QED BY <1>1, <1>3, <1>4

LEMMA PlanSpectrumOrderly ==
    ASSUME IInv, Ledger, Orderly, PlanSpectrum
    PROVE  Orderly'
<1>1. /\ call.op = "sync" /\ call.pc = "plan" /\ mode = "spectrum"
      /\ UNCHANGED <<service, rows, torn>>
      /\ \/ /\ \/ Others("spectrum") # {} \/ Missing("spectrum") \/ TakenOver("spectrum")
               \/ EntryRecords # {}
            /\ Refuses
         \/ UNCHANGED <<cloud, lost>> /\ CreateNext("spectrum")
         \/ UNCHANGED <<cloud, lost>> /\ Goto("put")
  BY DEF PlanSpectrum, At
<1>2. CASE /\ \/ Others("spectrum") # {} \/ Missing("spectrum") \/ TakenOver("spectrum")
              \/ EntryRecords # {}
           /\ Refuses
  <2>1. CASE Others("spectrum") # {}
    <3>1. lost # {}
      BY <1>1, <2>1, OthersAreLost DEF Orderly, RowKinds, ServiceKinds, DNSKinds
    <3> QED BY <1>1, <1>2, <3>1, RefusesOrderly DEF Orderly
  <2>2. CASE Missing("spectrum")
    <3>1. torn # {}
      BY <2>2, MissingIsTorn DEF Orderly, Standing
    <3> QED BY <1>1, <1>2, <3>1, RefusesOrderly DEF Orderly
  <2>3. CASE EntryRecords # {}
    <3>1. PICK o \in cloud : o.kind \in DNSKinds
      BY <2>3 DEF EntryRecords, DNSKinds
    <3>2. Ours(o)
      BY DEF Orderly, Tidy
    <3>3. lost # {}
      BY <1>1, <3>1, <3>2 DEF Ledger, Base, OtherModes
    <3> QED BY <1>1, <1>2, <3>3, RefusesOrderly DEF Orderly
  <2> QED BY <1>2, <2>1, <2>2, <2>3, NotTakenOver DEF Orderly
<1>3. CASE UNCHANGED <<cloud, lost>> /\ CreateNext("spectrum")
  <2>1. Onward
    BY <1>3, OnwardWays
  <2> QED BY <1>1, <1>3, <2>1, SameCloud, GoesOnward DEF Orderly, service
<1>4. CASE UNCHANGED <<cloud, lost>> /\ Goto("put")
  <2>1. /\ call' = [op |-> call.op, pc |-> "put", kind |-> call.kind, id |-> call.id,
                    made |-> call.made, todo |-> call.todo]
        /\ result' = result
    BY <1>4, MovesCall DEF IInv
  <2>2. call.made = FALSE
    BY <1>1 DEF Orderly, Awaited
  <2>3. Awaited'
    BY <1>1, <2>1, <2>2 DEF Awaited
  <2>4. Excused'
    BY <1>1, <2>1, NotRefused
  <2> QED BY <1>1, <1>4, <2>3, <2>4, SameCloud DEF Orderly, service
<1> QED BY <1>1, <1>2, <1>3, <1>4

LEMMA PutSpectrumOrderly ==
    ASSUME IInv, Ledger, TypeOK, Orderly, PutSpectrum
    PROVE  Orderly'
<1> DEFINE app == UNION {Named(r) : r \in RowOf("spectrum")}
<1>1. PICK o \in app : Request((cloud \ app) \cup {[o EXCEPT !.link = address]},
                               SaveNext("spectrum", o.id), {})
  BY DEF PutSpectrum
<1> DEFINE new == New("spectrum", o.id, address)
<1>2. /\ call.op = "sync" /\ call.pc = "put" /\ mode = "spectrum"
      /\ UNCHANGED <<mode, rows, torn>>
  BY DEF PutSpectrum, At, service
<1>3. \A x \in app : x \in cloud /\ Key(x) = [kind |-> "spectrum", id |-> x.id] /\ Key(x) \in rows
  <2>1. ASSUME NEW x \in app
        PROVE  x \in cloud /\ Key(x) = [kind |-> "spectrum", id |-> x.id] /\ Key(x) \in rows
    <3>1. PICK r \in RowOf("spectrum") : x \in cloud /\ Key(x) = r
      BY DEF Named
    <3> QED BY <3>1 DEF RowOf, Key
  <2> QED BY <2>1
<1>4. [o EXCEPT !.link = address] = new
  <2>1. Ours(o)
    BY <1>3 DEF Orderly, Tidy
  <2> QED BY <1>3, <2>1, OwnObject
<1>5. \A x \in app : Key(x) = Key(o)
  BY <1>3 DEF Ledger, Base, RowsOK, Key
<1>6. Ours(new) /\ new.kind = "spectrum" /\ Key(new) = Key(o)
  BY <1>3 DEF New, Ours, Key
<1>7. /\ cloud' = (cloud \ app) \cup {new}
      /\ (SaveNext("spectrum", o.id) /\ lost' = lost) \/ Fail("none", {})
  BY <1>1, <1>4 DEF Request
<1>8. lost \subseteq lost'
  BY <1>7, OnwardWays
<1>9. Tidy'
  <2>1. \A x \in cloud' : x \in cloud \/ x = new
    BY <1>7
  <2>2. \A x \in cloud : x \in cloud' \/ (Key(x) = Key(new) /\ new \in cloud')
    BY <1>5, <1>6, <1>7
  <2> HIDE DEF app, new
  <2> QED BY <1>2, <1>6, <1>8, <2>1, <2>2, TidyStays DEF Orderly, DNSKinds
<1>10. CASE SaveNext("spectrum", o.id)
  <2>1. /\ call' = [op |-> call.op, pc |-> "save", kind |-> "spectrum", id |-> o.id,
                    made |-> call.made, todo |-> call.todo]
        /\ result' = result
    BY <1>10, MovesCall DEF IInv
  <2>2. call.made = FALSE
    BY <1>2 DEF Orderly, Awaited
  <2>3. Awaited'
    BY <1>2, <2>1, <2>2 DEF Awaited
  <2>4. Excused'
    BY <1>2, <2>1, NotRefused
  <2> QED BY <1>9, <2>3, <2>4 DEF Orderly
<1>11. CASE Fail("none", {})
  <2>1. Onward
    BY <1>11, OnwardWays
  <2> QED BY <1>2, <1>9, <2>1, GoesOnward DEF Orderly
<1> QED BY <1>7, <1>10, <1>11

LEMMA PlanWorkerOrderly ==
    ASSUME IInv, Ledger, Orderly, PlanWorker
    PROVE  Orderly'
<1>1. /\ call.op = "sync" /\ call.pc = "plan" /\ UNCHANGED <<service, rows, torn>>
      /\ \/ /\ \/ Taken(EntryRecords) \/ Taken(ObjectsOf("origin"))
               \/ Others("worker") # {} \/ TakenOver("worker")
               \/ Others("worker_route") # {}
               \/ Missing("worker_route") \/ TakenOver("worker_route")
            /\ Refuses
         \/ /\ UNCHANGED <<cloud, lost, result>>
            /\ \E made : call' = [call EXCEPT !.pc = "intent", !.made = made]
  BY DEF PlanWorker, At
<1>2. CASE /\ \/ Taken(EntryRecords) \/ Taken(ObjectsOf("origin"))
              \/ Others("worker") # {} \/ TakenOver("worker")
              \/ Others("worker_route") # {}
              \/ Missing("worker_route") \/ TakenOver("worker_route")
           /\ Refuses
  <2>1. ~Taken(EntryRecords) /\ ~Taken(ObjectsOf("origin"))
    BY NotTaken DEF Orderly, Tidy, EntryRecords, ObjectsOf
  <2>2. CASE Others("worker") # {} \/ Others("worker_route") # {}
    <3>1. lost # {}
      BY <1>1, <2>2, OthersAreLost DEF Orderly, RowKinds, ServiceKinds, DNSKinds
    <3> QED BY <1>1, <1>2, <3>1, RefusesOrderly DEF Orderly
  <2>3. CASE Missing("worker_route")
    <3>1. torn # {}
      BY <2>3, MissingIsTorn DEF Orderly, Standing
    <3> QED BY <1>1, <1>2, <3>1, RefusesOrderly DEF Orderly
  <2> QED BY <1>2, <2>1, <2>2, <2>3, NotTakenOver DEF Orderly
<1>3. CASE /\ UNCHANGED <<cloud, lost, result>>
           /\ \E made : call' = [call EXCEPT !.pc = "intent", !.made = made]
  <2>1. PICK made : call' = [op |-> call.op, pc |-> "intent", kind |-> call.kind,
                             id |-> call.id, made |-> made, todo |-> call.todo]
    BY <1>3 DEF IInv, CallOK
  <2>2. Onward
    BY <1>3, <2>1 DEF Onward
  <2> QED BY <1>1, <1>3, <2>2, SameCloud, GoesOnward DEF Orderly, service
<1> QED BY <1>1, <1>2, <1>3

\* The rows of the script and its records.
LEMMA SaveIntentOrderly ==
    ASSUME IInv, Possession, Ledger, Orderly, SaveIntent
    PROVE  Orderly'
<1>1. /\ call.op = "sync" /\ UNCHANGED <<mode, cloud, torn, lost>>
      /\ \/ rows' = Saved("worker_dns", Derived) /\ Goto("worker")
         \/ rows' = Saved("worker", Derived) /\ Goto("origin")
         \/ rows' = rows /\ End("none")
  BY DEF SaveIntent, service
<1>2. \A kind \in DerivedKinds : \A r \in RowOf(kind) : r.id = Derived
  BY DEF RowOf, Ledger, Base, RowsOK
<1>3. Onward
  BY <1>1, OnwardWays
<1>4. Tidy'
  <2>1. CASE rows' = Saved("worker_dns", Derived)
    BY <1>1, <1>2, <2>1, SavedTidy DEF Orderly, DerivedKinds, Standing
  <2>2. CASE rows' = Saved("worker", Derived)
    BY <1>1, <1>2, <2>2, SavedTidy DEF Orderly, DerivedKinds, Standing
  <2>3. CASE rows' = rows
    BY <1>1, <2>3, SameCloud DEF Orderly
  <2> QED BY <1>1, <2>1, <2>2, <2>3
<1> QED BY <1>1, <1>3, <1>4, GoesOnward DEF Orderly

LEMMA UploadWorkerOrderly ==
    ASSUME IInv, Ledger, Orderly, UploadWorker
    PROVE  Orderly'
<1> DEFINE new == New("worker", Derived, address)
<1>1. /\ call.op = "sync" /\ UNCHANGED <<mode, rows, torn>>
      /\ cloud' = (cloud \ ObjectsOf("worker")) \cup {new}
      /\ (Goto("keep") /\ lost' = lost) \/ Fail("none", {})
  BY DEF UploadWorker, At, Request, service
<1>2. Onward /\ lost \subseteq lost'
  BY <1>1, OnwardWays
<1>3. Ours(new) /\ new.kind = "worker"
  BY DEF New, Ours
<1>4. \A x \in cloud : x.kind # "worker" => x \in cloud'
  BY <1>1 DEF ObjectsOf
<1>5. \A x \in cloud : Key(x).kind = x.kind
  BY DEF Key
<1>6. Tidy'
  <2> HIDE DEF new
  <2> QED BY <1>1, <1>2, <1>3, <1>4, <1>5, TidyStays DEF Orderly, DNSKinds, Standing
<1> QED BY <1>1, <1>2, <1>6, GoesOnward DEF Orderly

LEMMA SaveWorkerOrderly ==
    ASSUME IInv, Possession, Ledger, Orderly, SaveWorker
    PROVE  Orderly'
<1>1. /\ call.op = "sync" /\ UNCHANGED <<mode, torn, lost>>
      /\ \/ rows' = Saved("worker", Derived) /\ Goto("subdomain") /\ cloud' = cloud
         \/ /\ rows' = rows /\ End("none")
            /\ cloud' \in {cloud, cloud \ ObjectsOf("worker")}
  BY DEF SaveWorker, At, service
<1>2. Onward
  BY <1>1, OnwardWays
<1>3. CASE rows' = Saved("worker", Derived) /\ cloud' = cloud
  <2>1. \A r \in RowOf("worker") : r.id = Derived
    BY DEF RowOf, Ledger, Base, RowsOK, DerivedKinds
  <2>2. Tidy'
    BY <1>1, <1>3, <2>1, SavedTidy DEF Orderly, Standing
  <2> QED BY <1>1, <1>2, <2>2, GoesOnward DEF Orderly
<1>4. CASE rows' = rows /\ cloud' \in {cloud, cloud \ ObjectsOf("worker")}
  <2>1. \A x \in cloud : x.kind # "worker" => x \in cloud'
    BY <1>4 DEF ObjectsOf
  <2>2. \A x \in cloud : Key(x).kind = x.kind
    BY DEF Key
  <2>3. Tidy'
    BY <1>1, <1>4, <2>1, <2>2, TidyStays DEF Orderly, Standing
  <2> QED BY <1>1, <1>2, <2>3, GoesOnward DEF Orderly
<1> QED BY <1>1, <1>3, <1>4

LEMMA PassingOrderly ==
    ASSUME IInv, Ledger, Orderly, DisableSubdomain \/ PlanRecord \/ VerifyAccess
    PROVE  Orderly'
<1>1. /\ call.op # "none" /\ UNCHANGED <<mode, cloud, rows, torn, lost>>
      /\ Goto("entry") \/ End("none")
  BY DEF DisableSubdomain, PlanRecord, VerifyAccess, At, service
<1>2. Onward
  BY <1>1, OnwardWays
<1> QED BY <1>1, <1>2, SameCloud, GoesOnward DEF Orderly

LEMMA SyncRuleOrderly ==
    ASSUME IInv, Possession, Ledger, Orderly, SyncRule
    PROVE  Orderly'
<1> DEFINE new == New("redirect", Derived, address)
<1>1. /\ call.op = "sync" /\ call.pc = "rule" /\ UNCHANGED <<mode, rows, torn>>
      /\ cloud' = (cloud \ {o \in ObjectsOf("redirect") : Ours(o)}) \cup {new}
      /\ (SaveNext("redirect", Derived) /\ lost' = lost) \/ Fail("none", {})
  BY DEF SyncRule, At, Request, service
<1>2. lost \subseteq lost'
  BY <1>1, OnwardWays
<1>3. Ours(new) /\ new.kind = "redirect"
  BY DEF New, Ours
<1>4. \A x \in cloud : x.kind # "redirect" => x \in cloud'
  BY <1>1 DEF ObjectsOf
<1>5. \A x \in cloud : Key(x).kind = x.kind
  BY DEF Key
<1>6. Tidy'
  <2> HIDE DEF new
  <2> QED BY <1>1, <1>2, <1>3, <1>4, <1>5, TidyStays DEF Orderly, DNSKinds, Standing
<1>7. CASE SaveNext("redirect", Derived)
  <2>1. /\ call' = [op |-> call.op, pc |-> "save", kind |-> "redirect", id |-> Derived,
                    made |-> call.made, todo |-> call.todo]
        /\ result' = result
    BY <1>7, MovesCall DEF IInv
  <2>2. call.made = FALSE
    BY <1>1 DEF Possession, Restrained
  <2>3. Awaited'
    BY <1>1, <2>1, <2>2 DEF Awaited
  <2>4. Excused'
    BY <1>1, <2>1, NotRefused
  <2> QED BY <1>6, <2>3, <2>4 DEF Orderly
<1>8. CASE Fail("none", {})
  <2>1. Onward
    BY <1>8, OnwardWays
  <2> QED BY <1>1, <1>6, <2>1, GoesOnward DEF Orderly
<1> QED BY <1>1, <1>7, <1>8

LEMMA CleanupRowOrderly ==
    ASSUME IInv, Possession, Ledger, Orderly, NEW r \in rows, CleanupRow(r)
    PROVE  Orderly'
<1>1. /\ call.op = "cleanup" /\ call.pc = "remove" /\ r \in call.todo
      /\ UNCHANGED <<mode, rows>>
      /\ \/ /\ UNCHANGED <<cloud, lost, torn, result>>
            /\ call' = [call EXCEPT !.todo = @ \ {r}]
         \/ ChangedOutside(r)
         \/ /\ cloud' = cloud \ Removable(r) /\ torn' = torn \cup {"service"}
            /\ \/ call' = [call EXCEPT !.todo = @ \ {r}] /\ UNCHANGED <<result, lost>>
               \/ Fail("none", {})
  BY DEF CleanupRow, At, Request, service
<1>2. ~ChangedOutside(r)
  <2>1. ASSUME NEW o \in Removable(r), r.kind = "private_route"
        PROVE  \E t \in RowOf("tunnel") : o.link = t.id
    <3>1. o \in cloud /\ Key(o) = r
      BY <2>1 DEF Removable, Named
    <3>2. o.kind = "private_route"
      BY <2>1, <3>1 DEF Key
    <3>3. [kind |-> "tunnel", id |-> o.link] \in RowOf("tunnel")
      BY <3>1, <3>2 DEF Orderly, Tidy, RowOf
    <3> QED BY <3>3
  <2>2. \A o \in Removable(r) : Ours(o)
    BY DEF Removable, Named, ObjectsOf, Orderly, Tidy
  <2> QED BY <2>1, <2>2 DEF ChangedOutside
<1>3. call' = [call EXCEPT !.todo = @ \ {r}] =>
        call' = [op |-> call.op, pc |-> call.pc, kind |-> call.kind, id |-> call.id,
                 made |-> call.made, todo |-> call.todo \ {r}]
  BY DEF IInv, CallOK
<1>4. Onward
  BY <1>1, <1>2, <1>3, OnwardWays DEF Onward
<1>5. CASE UNCHANGED <<cloud, lost, torn>>
  BY <1>1, <1>4, <1>5, SameCloud, GoesOnward DEF Orderly
<1>6. CASE /\ cloud' = cloud \ Removable(r) /\ torn' = torn \cup {"service"}
           /\ lost \subseteq lost'
  <2>1. \A o \in Removable(r) : o.kind # "access"
    <3>1. r.kind # "access"
      BY <1>1 DEF Possession, Restrained
    <3>2. \A o \in Removable(r) : o.kind = "redirect" \/ Key(o) = r
      BY DEF Removable, ObjectsOf, Named
    <3> QED BY <3>1, <3>2 DEF Key
  <2>2. \A o \in cloud : Key(o).kind = o.kind
    BY DEF Key
  <2>3. \A q \in rows : \A o \in cloud :
           Key(o) = q => OwnerOf(q) = "service" \/ o \in cloud'
    BY <1>6, <2>1, <2>2 DEF OwnerOf
  <2>4. Tidy'
    BY <1>1, <1>6, <2>3, TidyStays DEF Orderly
  <2> QED BY <1>1, <1>4, <2>4, GoesOnward DEF Orderly
<1>7. Fail("none", {}) => lost \subseteq lost'
  BY OnwardWays
<1> QED BY <1>1, <1>2, <1>5, <1>6, <1>7

LEMMA CleanupRowsDoneOrderly ==
    ASSUME IInv, Ledger, Orderly, CleanupRowsDone
    PROVE  Orderly'
<1> DEFINE next == IF mode = "redirect" THEN "rules" ELSE "records"
<1>1. call.op = "cleanup" /\ UNCHANGED <<mode, cloud, rows, torn, lost>> /\ Goto(next)
  BY Zenon DEF CleanupRowsDone, At, service
<1>2. next \in {"rules", "records"}
  OBVIOUS
<1>3. Onward
  <2> HIDE DEF next
  <2> QED BY <1>1, <1>2, OnwardWays
<1> QED BY <1>1, <1>3, SameCloud, GoesOnward DEF Orderly

\* Rules and records are found by their mark, not by a row.
LEMMA CleanupFoundOrderly ==
    ASSUME IInv, Ledger, Orderly, CleanupRules \/ CleanupRecords
    PROVE  Orderly'
<1>1. /\ call.op = "cleanup" /\ UNCHANGED <<mode, rows, torn>>
      /\ cloud' \subseteq cloud
      /\ \A o \in cloud : o \in cloud' \/ o.kind \in DNSKinds \cup {"redirect"}
      /\ \/ lost' = lost
            /\ \/ Goto("records") \/ Goto("forget")
               \/ call.pc = "records" /\ UNCHANGED <<call, result>>
         \/ Fail("none", {})
  <2>1. CASE CleanupRules
    BY <2>1 DEF CleanupRules, At, Request, service, ObjectsOf
  <2>2. CASE CleanupRecords
    BY <2>2 DEF CleanupRecords, At, Request, service
  <2> QED BY <2>1, <2>2
<1>2. Onward /\ lost \subseteq lost'
  <2>1. call.pc = "records" /\ UNCHANGED <<call, result>> => Onward
    BY DEF Onward
  <2> QED BY <1>1, <2>1, OnwardWays
<1>3. \A o \in cloud : Key(o).kind = o.kind
  BY DEF Key
<1>4. Tidy'
  BY <1>1, <1>2, <1>3, TidyStays DEF Orderly, DNSKinds, Standing
<1> QED BY <1>1, <1>2, <1>4, GoesOnward DEF Orderly

\* A tunnel's row is the last to go.
LEMMA ForgetRowOrderly ==
    ASSUME IInv, Ledger, Orderly, ForgetRow
    PROVE  Orderly'
<1>1. /\ call.op = "cleanup" /\ call.pc = "forget" /\ UNCHANGED <<mode, cloud, lost>>
      /\ \/ \E r \in ServiceRows :
              First(r, ServiceRows) /\ rows' = rows \ {r} /\ UNCHANGED <<call, result, torn>>
         \/ /\ ServiceRows = {} /\ rows' = rows /\ torn' = torn \ {"service"}
            /\ End("cleaned")
         \/ UNCHANGED <<rows, torn>> /\ End("none")
  BY DEF ForgetRow, At, service
<1>2. \A o : Ours(o)' = Ours(o) /\ Key(o)' = Key(o) /\ OwnerOf(o)' = OwnerOf(o)
  BY DEF Ours, Key, OwnerOf
<1>3. /\ EntryRecords' = EntryRecords /\ ObjectsOf("origin")' = ObjectsOf("origin")
      /\ EntryKind' = EntryKind
  BY <1>1 DEF EntryRecords, ObjectsOf, EntryKind
<1>4. ASSUME NEW r \in ServiceRows, First(r, ServiceRows), rows' = rows \ {r},
             UNCHANGED <<call, result, torn>>
      PROVE  Orderly'
  <2>1. ASSUME NEW o \in cloud, o.kind = "private_route", Key(o) \in rows'
        PROVE  [kind |-> "tunnel", id |-> o.link] \in rows'
    <3>1. [kind |-> "tunnel", id |-> o.link] \in rows
      BY <1>4, <2>1 DEF Orderly, Tidy
    <3>2. Key(o) \in ServiceRows /\ Key(o).kind = "private_route"
      BY <1>4, <2>1 DEF ServiceRows, Key
    <3>3. Priority(r.kind) <= Priority("private_route")
      BY <1>4, <3>2 DEF First
    <3>4. r.kind # "tunnel"
      BY <3>3 DEF Priority
    <3> QED BY <1>4, <3>1, <3>4
  <2>2. Tidy'
    BY <1>1, <1>2, <1>3, <1>4, <2>1 DEF Orderly, Tidy
  <2>3. Onward
    BY <1>1, <1>4 DEF Onward
  <2> QED BY <1>1, <2>2, <2>3, GoesOnward DEF Orderly
<1>5. CASE /\ ServiceRows = {} /\ rows' = rows /\ torn' = torn \ {"service"}
           /\ End("cleaned")
  <2>1. \A r \in rows : OwnerOf(r) = "access"
    BY <1>5 DEF ServiceRows, OwnerOf
  <2>2. Tidy'
    BY <1>1, <1>2, <1>3, <1>5, <2>1 DEF Orderly, Tidy
  <2>3. Onward
    BY <1>5, OnwardWays
  <2> QED BY <1>1, <2>2, <2>3, GoesOnward DEF Orderly
<1>6. CASE UNCHANGED <<rows, torn>> /\ End("none")
  <2>1. Onward
    BY <1>6, OnwardWays
  <2> QED BY <1>1, <1>6, <2>1, SameCloud, GoesOnward DEF Orderly
<1> QED BY <1>1, <1>4, <1>5, <1>6

LEMMA PlanAccessOrderly ==
    ASSUME IInv, Possession, Ledger, Orderly, PlanAccess
    PROVE  Orderly'
<1>1. /\ call.op = "access" /\ call.pc = "plan" /\ UNCHANGED <<service, rows, torn>>
      /\ \/ /\ Others("access") # {} \/ Missing("access") \/ TakenOver("access")
            /\ Refuses
         \/ UNCHANGED <<cloud, lost>> /\ CreateNext("access")
         \/ ~Missing("access") /\ UNCHANGED <<cloud, lost>> /\ Goto("put")
  BY DEF PlanAccess, At
<1>2. CASE /\ Others("access") # {} \/ Missing("access") \/ TakenOver("access")
           /\ Refuses
  <2>1. CASE Others("access") # {}
    <3>1. lost # {}
      BY <1>1, <2>1, OthersAreLost DEF Orderly, RowKinds, DNSKinds
    <3> QED BY <1>1, <1>2, <3>1, RefusesOrderly DEF Orderly
  <2>2. CASE Missing("access")
    <3>1. torn # {}
      BY <2>2, MissingIsTorn DEF Orderly
    <3> QED BY <1>1, <1>2, <3>1, RefusesOrderly DEF Orderly
  <2> QED BY <1>2, <2>1, <2>2, NotTakenOver DEF Orderly
<1>3. CASE UNCHANGED <<cloud, lost>> /\ CreateNext("access")
  <2>1. Onward
    BY <1>3, OnwardWays
  <2> QED BY <1>1, <1>3, <2>1, SameCloud, GoesOnward DEF Orderly, service
<1>4. CASE ~Missing("access") /\ UNCHANGED <<cloud, lost>> /\ Goto("put")
  <2>1. /\ call' = [op |-> call.op, pc |-> "put", kind |-> call.kind, id |-> call.id,
                    made |-> call.made, todo |-> call.todo]
        /\ result' = result
    BY <1>4, MovesCall DEF IInv
  <2>2. call.made = FALSE
    BY <1>1 DEF Orderly, Awaited
  <2>3. \A r \in RowOf("access") : \E o \in cloud : Key(o) = [kind |-> "access", id |-> r.id]
    BY <1>4 DEF Missing, Named, RowOf, Possession, RowsShaped
  <2>4. \A r \in RowOf("access")' : Exists("access", r.id)'
    BY <1>1, <1>4, <2>3 DEF RowOf, Exists, Key
  <2>5. Awaited'
    BY <1>1, <2>1, <2>2, <2>4 DEF Awaited
  <2>6. Excused'
    BY <1>1, <2>1, NotRefused
  <2> QED BY <1>1, <1>4, <2>5, <2>6, SameCloud DEF Orderly, service
<1> QED BY <1>1, <1>2, <1>3, <1>4

LEMMA PutAccessOrderly ==
    ASSUME IInv, Ledger, Orderly, PutAccess
    PROVE  Orderly'
<1>1. PICK r \in RowOf("access") :
        /\ call.op = "access" /\ call.pc = "put" /\ UNCHANGED <<mode, cloud, rows, torn>>
        /\ (SaveNext("access", r.id) /\ lost' = lost) \/ Fail("none", {})
  BY DEF PutAccess, At, Request, service
<1>2. lost \subseteq lost'
  BY <1>1, OnwardWays
<1>3. Tidy'
  BY <1>1, <1>2, SameCloud DEF Orderly
<1>4. CASE SaveNext("access", r.id)
  <2>1. /\ call' = [op |-> call.op, pc |-> "save", kind |-> "access", id |-> r.id,
                    made |-> call.made, todo |-> call.todo]
        /\ result' = result
    BY <1>4, MovesCall DEF IInv
  <2>2. call.made = FALSE /\ Exists("access", r.id)
    BY <1>1 DEF Orderly, Awaited
  <2>3. Awaited'
    BY <1>1, <2>1, <2>2 DEF Awaited, Exists, Key
  <2>4. Excused'
    BY <1>1, <2>1, NotRefused
  <2> QED BY <1>3, <2>3, <2>4 DEF Orderly
<1>5. CASE Fail("none", {})
  <2>1. Onward
    BY <1>5, OnwardWays
  <2> QED BY <1>1, <1>3, <2>1, GoesOnward DEF Orderly
<1> QED BY <1>1, <1>4, <1>5

LEMMA RemoveAccessOrderly ==
    ASSUME IInv, Ledger, Orderly, RemoveAccess
    PROVE  Orderly'
<1> DEFINE app == UNION {Named(r) : r \in RowOf("access")}
<1>1. /\ call.op = "unprotect" /\ UNCHANGED <<mode, rows>>
      /\ \/ UNCHANGED <<cloud, lost, torn>> /\ Goto("forget")
         \/ /\ cloud' = cloud \ app /\ torn' = torn \cup {"access"}
            /\ (Goto("forget") /\ lost' = lost) \/ Fail("none", {})
  BY NotTakenOver DEF RemoveAccess, At, Request, service, Orderly
<1>2. Onward
  BY <1>1, OnwardWays
<1>3. lost \subseteq lost'
  BY <1>1, OnwardWays
<1>4. CASE UNCHANGED <<cloud, lost, torn>>
  BY <1>1, <1>2, <1>4, SameCloud, GoesOnward DEF Orderly
<1>5. CASE cloud' = cloud \ app /\ torn' = torn \cup {"access"}
  <2>1. ASSUME NEW q \in rows, NEW o \in cloud, Key(o) = q
        PROVE  OwnerOf(q) = "access" \/ o \in cloud'
    <3>1. o \in app => q.kind = "access"
      BY <2>1 DEF Named, RowOf
    <3> QED BY <1>5, <2>1, <3>1 DEF OwnerOf
  <2>2. Tidy'
    <3> HIDE DEF app
    <3> QED BY <1>1, <1>3, <1>5, <2>1, TidyStays DEF Orderly
  <2> QED BY <1>1, <1>2, <2>2, GoesOnward DEF Orderly
<1> QED BY <1>1, <1>4, <1>5

LEMMA ForgetAccessOrderly ==
    ASSUME IInv, Ledger, Orderly, ForgetAccess
    PROVE  Orderly'
<1>1. /\ call.op = "unprotect" /\ UNCHANGED <<mode, cloud, lost>> /\ End("none")
      /\ \/ rows' = ServiceRows /\ torn' = torn \ {"access"}
         \/ UNCHANGED <<rows, torn>>
  BY DEF ForgetAccess, At, service
<1>2. Onward
  BY <1>1, OnwardWays
<1>3. CASE rows' = ServiceRows /\ torn' = torn \ {"access"}
  <2>1. \A o : Ours(o)' = Ours(o) /\ Key(o)' = Key(o) /\ OwnerOf(o)' = OwnerOf(o)
    BY DEF Ours, Key, OwnerOf
  <2>2. /\ EntryRecords' = EntryRecords /\ ObjectsOf("origin")' = ObjectsOf("origin")
        /\ EntryKind' = EntryKind
    BY <1>1 DEF EntryRecords, ObjectsOf, EntryKind
  <2>3. \A r \in rows' : r \in rows /\ OwnerOf(r) = "service"
    BY <1>3 DEF ServiceRows, OwnerOf
  <2>4. \A id : [kind |-> "tunnel", id |-> id] \in rows => [kind |-> "tunnel", id |-> id] \in rows'
    BY <1>3 DEF ServiceRows
  <2>5. Tidy'
    BY <1>1, <1>3, <2>1, <2>2, <2>3, <2>4 DEF Orderly, Tidy
  <2> QED BY <1>1, <1>2, <2>5, GoesOnward DEF Orderly
<1>4. CASE UNCHANGED <<rows, torn>>
  BY <1>1, <1>2, <1>4, SameCloud, GoesOnward DEF Orderly
<1> QED BY <1>1, <1>3, <1>4

-------------------------------------------------------------------------------
(* Between calls *)

LEMMA ServiceOrderly ==
    ASSUME Ledger, Orderly,
           \/ \E m \in Modes \cup {"direct"} : UpdateService(m)
           \/ DeleteService
           \/ \E x \in Addresses : Remap(x)
    PROVE  Orderly'
<1>1. /\ call = Idle /\ call' = Idle /\ result' = "none"
      /\ UNCHANGED <<cloud, rows, torn, lost>>
      /\ mode' = mode \/ ServiceRows = {}
  BY DEF UpdateService, DeleteService, Remap
<1>2. Awaited' /\ Excused'
  BY <1>1 DEF Idle, Awaited, Excused
<1>3. CASE mode' = mode
  BY <1>1, <1>2, <1>3, SameCloud DEF Orderly
<1>4. CASE ServiceRows = {}
  <2>1. \A o : Ours(o)' = Ours(o) /\ Key(o)' = Key(o) /\ OwnerOf(o)' = OwnerOf(o)
    BY DEF Ours, Key, OwnerOf
  <2>2. EntryRecords' = EntryRecords /\ ObjectsOf("origin")' = ObjectsOf("origin")
    BY <1>1 DEF EntryRecords, ObjectsOf
  <2>3. ASSUME NEW o \in EntryRecords
        PROVE  Key(o) \in lost
    <3>1. o \in cloud /\ o.kind \in DNSKinds
      BY DEF EntryRecords, DNSKinds
    <3>2. Ours(o)
      BY <3>1 DEF Orderly, Tidy
    <3>3. ~Recorded(o)
      BY <1>4, <3>1 DEF Recorded
    <3>4. Held = {} /\ Unrecorded(cloud) = {}
      BY <1>1 DEF Held, Unrecorded, Idle
    <3> QED BY <3>1, <3>2, <3>3, <3>4 DEF Ledger, Base, NothingForgotten
  <2>4. Tidy'
    BY <1>1, <2>1, <2>2, <2>3 DEF Orderly, Tidy
  <2> QED BY <1>2, <2>4 DEF Orderly
<1> QED BY <1>1, <1>3, <1>4

LEMMA BeginningOrderly ==
    ASSUME Orderly, Sync \/ BeginCleanup \/ SaveAccess \/ DeleteAccess
    PROVE  Orderly'
<1>1. PICK op, pc, todo :
        /\ call' = [op |-> op, pc |-> pc, kind |-> "dns", id |-> None,
                    made |-> FALSE, todo |-> todo]
        /\ pc \in {"plan", "remove"}
        /\ result' = "none"
        /\ lost' = lost \cap {Key(o) : o \in cloud}
        /\ UNCHANGED <<mode, cloud, rows, torn>>
  BY DEF Sync, BeginCleanup, SaveAccess, DeleteAccess, Begin, Idle, service
<1>2. Awaited' /\ Excused'
  BY <1>1 DEF Awaited, Excused
<1>3. \A o : Ours(o)' = Ours(o) /\ Key(o)' = Key(o) /\ OwnerOf(o)' = OwnerOf(o)
  BY DEF Ours, Key, OwnerOf
<1>4. /\ EntryRecords' = EntryRecords /\ ObjectsOf("origin")' = ObjectsOf("origin")
      /\ EntryKind' = EntryKind
  BY <1>1 DEF EntryRecords, ObjectsOf, EntryKind
<1>5. \A o \in EntryRecords : Key(o) \in lost => Key(o) \in lost'
  BY <1>1 DEF EntryRecords
<1>6. Tidy'
  BY <1>1, <1>3, <1>4, <1>5 DEF Orderly, Tidy
<1> QED BY <1>2, <1>6 DEF Orderly

LEMMA StutterOrderly ==
    ASSUME Orderly, UNCHANGED vars
    PROVE  Orderly'
<1>1. UNCHANGED <<mode, cloud, rows, call, result, lost, torn>>
  BY DEF vars
<1>2. Tidy'
  BY <1>1, SameCloud DEF Orderly
<1>3. Awaited'
  BY <1>1 DEF Orderly, Awaited, RowOf, Exists, Key
<1>4. Excused'
  BY <1>1 DEF Orderly, Excused
<1> QED BY <1>2, <1>3, <1>4 DEF Orderly

LEMMA NextOrderly ==
    ASSUME IInv, Possession, Ledger, TypeOK, Whole, edits = 0, Orderly, [Next]_vars, edits' = 0
    PROVE  Orderly'
<1>1. CASE Publish
  BY <1>1, PlanTunnelOrderly, ConfigureOrderly, SyncPrivateRouteOrderly,
     PlanSpectrumOrderly, PutSpectrumOrderly, PlanWorkerOrderly, SaveIntentOrderly,
     UploadWorkerOrderly, SaveWorkerOrderly, PassingOrderly, SyncRuleOrderly,
     SyncEntryOrderly, SyncOriginOrderly, PlanAccessOrderly, PutAccessOrderly
  DEF Publish
<1>2. CASE Clean
  BY <1>2, CleanupRowOrderly, CleanupRowsDoneOrderly, CleanupFoundOrderly,
     ForgetRowOrderly, RemoveAccessOrderly, ForgetAccessOrderly
  DEF Clean
<1>3. ~Edit
  BY DEF Edit
<1> QED
  BY <1>1, <1>2, <1>3, StutterOrderly, ServiceOrderly, BeginningOrderly, CreateOrderly,
     SaveResourceOrderly, UndoOrderly, BrokenOrderly
  DEF Next

\* Whatever breaks calls off, StunDeck does not get in its own way: it refuses a
\* publication or an Access change only because of what others did, of something
\* lost or of a removal that has to be ended first; and a removal can be ended.
THEOREM RefusalsExcused == Spec => []NeverRefusesItself
<1> DEFINE Upright == edits = 0 => Orderly
           Inv == IInv /\ Possession /\ edits \in Nat /\ Whole /\ Upright
<1>1. Init => Inv
  <2>1. Init => IInv
    BY Initially
  <2>2. Init => Possession
    BY DEF Init, Idle, Possession, RowsShaped, Restrained, Checked
  <2>3. Init => Whole
    BY DEF Init, Idle, Whole, Built, PublishedIsComplete
  <2>4. Init => Tidy
    BY DEF Init, Tidy, EntryRecords, ObjectsOf
  <2>5. Init => Awaited /\ Excused
    BY DEF Init, Idle, Awaited, Excused
  <2> QED BY <2>1, <2>2, <2>3, <2>4, <2>5 DEF Init, Orderly
<1>2. Inv /\ Ledger /\ TypeOK /\ [Next]_vars => Inv'
  <2> SUFFICES ASSUME Inv, Ledger, TypeOK, [Next]_vars
               PROVE  Inv'
    OBVIOUS
  <2>1. IInv' /\ Possession' /\ edits' \in Nat /\ Whole'
    BY NextStep, NextCareful, EditsCount, NextWhole DEF Step, Careful
  <2>2. edits' = 0 => edits = 0
    BY EditsCount
  <2>3. edits' = 0 => Orderly'
    BY <2>2, NextOrderly
  <2> QED BY <2>1, <2>3
<1>3. Inv => NeverRefusesItself
  BY DEF Orderly, Excused, NeverRefusesItself
<1> QED BY <1>1, <1>2, <1>3, LedgerKept, TypeCorrect, PTL DEF Spec
===============================================================================

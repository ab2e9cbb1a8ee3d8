------------------------- MODULE CloudflarePublisher -------------------------
(***************************************************************************)
(* What StunDeck does at Cloudflare for one service: internal/cloudflare   *)
(* (publisher.go, reconciler.go, workers.go, private_network.go, access.go)*)
(* and its ownership records, the table of                                 *)
(* internal/store/cloudflare_resources.go.                                 *)
(*                                                                         *)
(* Publisher.mu is held from the first to the last step of a call, so one  *)
(* call is under way at a time; each write to Cloudflare or to the table   *)
(* is a step of its own, that may fail, and the program may end between    *)
(* any two of them.  Reads that follow one another with no write between   *)
(* them are one step with the check they serve.                            *)
(*                                                                         *)
(* Cloudflare is a set of objects.  "ours" stands for the mark the code    *)
(* looks for: the comment of a DNS record, the name of a tunnel, the tag   *)
(* of a Worker, the ref of a rule, the host name of an application.  Other *)
(* services and the administrator own the "foreign" ones; they act between *)
(* calls (Cloudflare offers no way to check and write at once).            *)
(***************************************************************************)
EXTENDS Naturals, FiniteSets

CONSTANTS
    None,
    Derived,     \* an identifier derived from the service: a name, a ref, ""
    Ids,         \* identifiers that Cloudflare gives out
    Addresses,   \* public mappings of the service
    Modes,       \* publish modes that occur
    LostAnswers, \* a request that reports an error may have taken effect
    StoreFaults, \* a write to the table may fail
    MaxEdits     \* bound: foreign changes at Cloudflare

\* "dns" stands for "proxy" too; "redirect" is one with managed DNS; "direct"
\* for the modes without an account.
AccountModes == {"redirect", "dns", "tunnel", "spectrum", "warp", "workers"}

ASSUME PublisherAssumption ==
    /\ None \notin Ids \cup Addresses \cup {Derived}
    /\ Derived \notin Ids \cup Addresses
    /\ Modes \subseteq AccountModes \cup {"direct"}
    /\ LostAnswers \in BOOLEAN
    /\ StoreFaults \in BOOLEAN
    /\ MaxEdits \in Nat

VARIABLES
    mode,    \* the service's publish mode, or "deleted"
    address, \* its public mapping
    cloud,   \* the objects at Cloudflare
    rows,    \* the cloudflare_resources table: kind and remote id
    call,    \* the call under way
    result,  \* how the last call ended, if it is worth telling
    lost,    \* objects whose identifier a fault has lost
    torn,    \* owners whose objects a removal has begun to delete and not ended
    edits    \* foreign changes so far

vars == <<mode, address, cloud, rows, call, result, lost, torn, edits>>

DNSKinds == {"a", "cname", "origin"}

ServiceKinds == {"tunnel", "private_route", "spectrum", "worker", "worker_route"}

ObjectKinds == DNSKinds \cup ServiceKinds \cup {"redirect", "access"}

RowKinds == ServiceKinds \cup {"redirect", "dns", "worker_dns", "access"}

Objects == [kind : ObjectKinds, id : Ids \cup {Derived, None},
            mark : {"ours", "foreign"},
            link : Ids \cup Addresses \cup {Derived, None}]

Keys == [kind : ObjectKinds \cup RowKinds, id : Ids \cup {Derived, None}]

Idle == [op |-> "none", pc |-> "idle", kind |-> "dns", id |-> None,
         made |-> FALSE, todo |-> {}]

TypeOK ==
    /\ mode \in Modes \cup {"direct", "deleted"}
    /\ address \in Addresses
    /\ cloud \subseteq Objects
    /\ rows \subseteq Keys
    /\ call \in [op : {"none", "sync", "cleanup", "access", "unprotect"},
                 pc : {"idle", "plan", "create", "save", "undo", "put",
                       "configure", "entry", "origin", "rule", "intent",
                       "worker", "upload", "keep", "subdomain", "verify",
                       "remove", "rules", "records", "forget"},
                 kind : RowKinds, id : Ids \cup {Derived, None},
                 made : BOOLEAN, todo : SUBSET Keys]
    /\ result \in {"none", "synced", "cleaned", "refused", "stuck"}
    /\ lost \subseteq Keys
    /\ torn \subseteq {"service", "access"}
    /\ edits \in Nat

Init ==
    /\ mode = "direct"
    /\ address \in Addresses
    /\ cloud = {}
    /\ rows = {}
    /\ call = Idle
    /\ result = "none"
    /\ lost = {}
    /\ torn = {}
    /\ edits = 0

-------------------------------------------------------------------------------
(* The table and Cloudflare *)

Key(o) == [kind |-> o.kind, id |-> o.id]

Ours(o) == o.mark = "ours"

\* CloudflareResource: the row of a kind, if there is one.
RowOf(kind) == {r \in rows : r.kind = kind}

\* The rows whose owner is the service; Access rows belong to a host name.
ServiceRows == {r \in rows : r.kind # "access"}

\* SaveCloudflareResource: one row per kind.
Saved(kind, id) == {r \in rows : r.kind # kind} \cup {[kind |-> kind, id |-> id]}

ObjectsOf(kind) == {o \in cloud : o.kind = kind}

\* The objects a row names.
Named(r) == {o \in cloud : Key(o) = r}

New(kind, id, link) ==
    [kind |-> kind, id |-> id, mark |-> "ours", link |-> link]

\* An identifier nothing refers to is as good as a new one.
Unused(i) == \A k \in {Key(o) : o \in cloud} \cup rows \cup lost : k.id # i

Goto(pc) == call' = [call EXCEPT !.pc = pc] /\ UNCHANGED result

CreateNext(kind) ==
    /\ call' = [call EXCEPT !.pc = "create", !.kind = kind, !.made = TRUE]
    /\ UNCHANGED result

SaveNext(kind, id) ==
    /\ call' = [call EXCEPT !.pc = "save", !.kind = kind, !.id = id]
    /\ UNCHANGED result

End(r) == call' = Idle /\ result' = r

At(op, pc) == call.op = op /\ call.pc = pc

\* The object the call has created and not yet recorded.
Held == IF call.pc \in {"save", "undo"} /\ call.made
        THEN {[kind |-> call.kind, id |-> call.id]}
        ELSE {}

\* Modes "dns" and "redirect" record their ownership at the very end: until then
\* a call that is broken off leaves its records and rule without a row.
Unrecorded(c) ==
    IF call.op = "sync" /\ mode \in {"dns", "redirect"} /\ ServiceRows = {}
    THEN {Key(o) : o \in {x \in c : Ours(x) /\ x.kind \in DNSKinds \cup {"redirect"}}}
    ELSE {}

\* The call ends with an error.
Fail(r, keys) == End(r) /\ lost' = lost \cup keys \cup Unrecorded(cloud')

\* A request that turns the objects at Cloudflare into new: it is answered, or it
\* has its effect and the answer, with what it said of the keys, is lost.
\* (CallFails is the request that fails without effect.)
Request(new, Answered, keys) ==
    \/ cloud' = new /\ Answered /\ UNCHANGED lost
    \/ LostAnswers /\ cloud' = new /\ Fail("none", keys)

Refuses == cloud' = cloud /\ Fail("refused", {})

service == <<mode, address, edits>>

-------------------------------------------------------------------------------
(* The service, and what others do at Cloudflare *)

\* createService and updateService: the mode changes while nothing is recorded.
UpdateService(m) ==
    /\ call = Idle
    /\ mode # "deleted"
    /\ ServiceRows = {}
    /\ mode' = m
    /\ result' = "none"
    /\ UNCHANGED <<address, cloud, rows, call, lost, torn, edits>>

DeleteService ==
    /\ call = Idle
    /\ mode # "deleted"
    /\ ServiceRows = {}
    /\ mode' = "deleted"
    /\ result' = "none"
    /\ UNCHANGED <<address, cloud, rows, call, lost, torn, edits>>

\* NATMap announces another public mapping.
Remap(x) ==
    /\ call = Idle
    /\ mode \in {"redirect", "dns", "spectrum", "workers"}
    /\ address' = x
    /\ result' = "none"
    /\ UNCHANGED <<mode, cloud, rows, call, lost, torn, edits>>

\* What somebody else may have made that stands in the way of the service's mode
\* (a record of the entry's name may have any type).
InTheWay ==
    IF mode = "warp" THEN {"private_route"}
    ELSE IF mode = "spectrum" THEN {"a", "spectrum"}
    ELSE IF mode = "workers" THEN {"a", "origin", "worker", "worker_route", "access"}
    ELSE {"a", "origin", "access"}

Foreign(kind, id) == [kind |-> kind, id |-> id, mark |-> "foreign", link |-> None]

\* Somebody else creates an object in the way, removes one of the service's, or
\* takes it over (renames it, edits its comment, its tag or its host name).
Edit ==
    /\ call = Idle
    /\ mode \in AccountModes
    /\ edits < MaxEdits
    /\ edits' = edits + 1
    /\ result' = "none"
    /\ \/ \E kind \in InTheWay :
            /\ kind = "worker" => ObjectsOf("worker") = {}
            /\ cloud' = cloud \cup
                 {Foreign(kind, IF kind = "worker" THEN Derived ELSE None)}
       \/ \E o \in cloud :
            cloud' = cloud \ {o} \/ cloud' = (cloud \ {o}) \cup {Foreign(o.kind, o.id)}
    /\ UNCHANGED <<mode, address, rows, call, lost, torn>>

-------------------------------------------------------------------------------
(* Steps that several publications share *)

\* What has gone from Cloudflare meanwhile is not lost any more.
Begin(op, pc, todo) ==
    /\ call = Idle
    /\ call' = [Idle EXCEPT !.op = op, !.pc = pc, !.todo = todo]
    /\ result' = "none"
    /\ lost' = lost \cap {Key(o) : o \in cloud}
    /\ UNCHANGED <<service, cloud, rows, torn>>

\* Sync, also as the first part of TunnelToken.
Sync == mode \in AccountModes /\ Begin("sync", "plan", {})

\* POST of an object that Cloudflare gives an identifier.
Create(i) ==
    LET new == New(call.kind, i, IF call.kind = "spectrum" THEN address
                                 ELSE IF call.kind = "private_route" THEN call.id
                                 ELSE None)
    IN
    /\ call.pc = "create"
    /\ Unused(i)
    /\ Request(cloud \cup {new}, SaveNext(call.kind, i), {Key(new)})
    /\ UNCHANGED <<service, rows, torn>>

\* A request or a read fails without effect, a limit or a permission is missing:
\* all but the writes of the table.
CallFails ==
    /\ call.pc \notin {"idle", "save", "undo", "intent", "worker", "keep", "forget"}
    /\ cloud' = cloud
    /\ Fail("none", {})
    /\ UNCHANGED <<service, rows, torn>>

\* Faulty variant of SaveResource: an object whose row cannot be written is left
\* where it is.
SaveResourceNoUndo ==
    /\ call.pc = "save"
    /\ \/ /\ rows' = Saved(call.kind, call.id)
          /\ UNCHANGED lost
          /\ IF call.kind = "tunnel" THEN Goto("configure")
             ELSE IF call.kind = "access" THEN Goto("verify")
             ELSE End("synced")
       \/ StoreFaults /\ UNCHANGED <<rows, lost>> /\ End("none")
    /\ UNCHANGED <<service, cloud, torn>>

\* The row that follows a request.  If it cannot be written, an object that has
\* just been created is deleted again; an Access application stays, as it
\* protects.
SaveResource ==
    /\ call.pc = "save"
    /\ UNCHANGED <<service, cloud, torn>>
    /\ \/ /\ rows' = Saved(call.kind, call.id)
          /\ UNCHANGED lost
          /\ IF call.kind = "tunnel" THEN Goto("configure")
             ELSE IF call.kind = "access" THEN Goto("verify")
             ELSE End("synced")
       \/ /\ StoreFaults
          /\ UNCHANGED rows
          /\ IF call.made /\ call.kind # "access"
             THEN Goto("undo") /\ UNCHANGED lost
             ELSE Fail("none", Held)

Undo ==
    /\ call.pc = "undo"
    /\ \/ cloud' = cloud \ {o \in cloud : Key(o) \in Held} /\ Fail("none", {})
       \/ cloud' = cloud /\ Fail("none", Held)
    /\ UNCHANGED <<service, rows, torn>>

-------------------------------------------------------------------------------
(* DNS records *)

EntryRecords == {o \in cloud : o.kind \in {"a", "cname"}}

\* Faulty variant of Taken: the comment of a record is not looked at.
TakenByMany(records) == Cardinality(records) > 1

\* ownedDNS: several records of the name, or one that is not the service's.
Taken(records) == Cardinality(records) > 1 \/ \E o \in records : ~Ours(o)

\* Faulty variant of EnsureRecord: a record of the right type is left alone.
EnsureRecordOnce(records, kind, link, Done) ==
    \/ Taken(records) /\ Refuses
    \/ /\ ~Taken(records)
       /\ \/ /\ \E o \in records : o.kind = kind
             /\ UNCHANGED <<cloud, lost>>
             /\ Done
          \/ /\ records = {}
             /\ Request(cloud \cup {New(kind, Derived, link)}, Done, {})

\* ensureRecord: the record is as wanted, has an incompatible type, or is
\* created or patched.
EnsureRecord(records, kind, link, Done) ==
    LET wanted == New(kind, Derived, link) IN
    \/ Taken(records) /\ Refuses
    \/ /\ ~Taken(records)
       /\ \/ records = {wanted} /\ UNCHANGED <<cloud, lost>> /\ Done
          \/ (\E o \in records : o.kind # kind) /\ Refuses
          \/ /\ wanted \notin records
             /\ \A o \in records : o.kind = kind
             /\ Request((cloud \ records) \cup {wanted}, Done, {})

\* Faulty variant of EntryDone: "dns" records no ownership.
EntryDoneUnsaved ==
    \/ mode = "dns" /\ End("synced")
    \/ mode = "redirect" /\ Goto("origin")
    \/ mode = "tunnel" /\ End("synced")
    \/ mode = "workers" /\ RowOf("worker_route") = {} /\ CreateNext("worker_route")
    \/ mode = "workers" /\ RowOf("worker_route") # {} /\ End("synced")

\* What follows the entry record.
EntryDone ==
    \/ mode = "dns" /\ SaveNext("dns", Derived)
    \/ mode = "redirect" /\ Goto("origin")
    \/ mode = "tunnel" /\ End("synced")
    \/ mode = "workers" /\ RowOf("worker_route") = {} /\ CreateNext("worker_route")
    \/ mode = "workers" /\ RowOf("worker_route") # {} /\ End("synced")

SyncEntry ==
    /\ At("sync", "entry")
    /\ IF mode = "tunnel" THEN EnsureRecord(EntryRecords, "cname", call.id, EntryDone)
       ELSE IF mode = "workers" THEN EnsureRecord(EntryRecords, "a", Derived, EntryDone)
       ELSE EnsureRecord(EntryRecords, "a", address, EntryDone)
    /\ UNCHANGED <<service, rows, torn>>

SyncOrigin ==
    /\ At("sync", "origin")
    /\ EnsureRecord(ObjectsOf("origin"), "origin", address,
                    Goto(IF mode = "redirect" THEN "rule" ELSE "upload"))
    /\ UNCHANGED <<service, rows, torn>>

-------------------------------------------------------------------------------
(* Publications.  A row whose object is gone or has been taken over makes Sync *)
(* refuse: the old publication must be cleaned up first.                       *)

Missing(kind) == \E r \in RowOf(kind) : Named(r) = {}

TakenOver(kind) == \E r \in RowOf(kind) : \E o \in Named(r) : ~Ours(o)

\* Objects of the kind that no row names.
Others(kind) == {o \in ObjectsOf(kind) : Key(o) \notin rows}

\* syncTunnel up to the first write.
PlanTunnel ==
    /\ At("sync", "plan")
    /\ mode \in {"tunnel", "warp"}
    /\ UNCHANGED <<service, rows, torn>>
    /\ IF \/ mode = "tunnel" /\ Taken(EntryRecords)
          \/ Missing("tunnel") \/ TakenOver("tunnel")
       THEN Refuses
       ELSE /\ UNCHANGED <<cloud, lost>>
            /\ \/ RowOf("tunnel") = {} /\ CreateNext("tunnel")
               \/ \E r \in RowOf("tunnel") :
                    /\ call' = [call EXCEPT !.pc = "configure", !.id = r.id]
                    /\ UNCHANGED result

\* The tunnel's ingress, or its WARP routing.
Configure ==
    LET old == {o \in ObjectsOf("tunnel") : o.id = call.id} IN
    /\ At("sync", "configure")
    /\ Request((cloud \ old) \cup {[o EXCEPT !.link = Derived] : o \in old},
               Goto(IF mode = "warp" THEN "put" ELSE "entry"), {})
    /\ UNCHANGED <<service, rows, torn>>

\* syncPrivateRoute; any other route may overlap.
SyncPrivateRoute ==
    LET route == UNION {Named(r) : r \in RowOf("private_route")} IN
    /\ At("sync", "put")
    /\ mode = "warp"
    /\ UNCHANGED <<service, rows, torn>>
    /\ IF \/ Others("private_route") # {}
          \/ Missing("private_route") \/ TakenOver("private_route")
          \/ \E o \in route : o.link # call.id
       THEN Refuses
       ELSE /\ UNCHANGED <<cloud, lost>>
            /\ IF route = {} THEN CreateNext("private_route") ELSE End("synced")

\* syncSpectrum: any other application may use the host name.
PlanSpectrum ==
    /\ At("sync", "plan")
    /\ mode = "spectrum"
    /\ UNCHANGED <<service, rows, torn>>
    /\ IF \/ Others("spectrum") # {} \/ Missing("spectrum") \/ TakenOver("spectrum")
          \/ RowOf("spectrum") = {} /\ EntryRecords # {}
       THEN Refuses
       ELSE /\ UNCHANGED <<cloud, lost>>
            /\ IF RowOf("spectrum") = {} THEN CreateNext("spectrum") ELSE Goto("put")

PutSpectrum ==
    LET app == UNION {Named(r) : r \in RowOf("spectrum")} IN
    /\ At("sync", "put")
    /\ mode = "spectrum"
    /\ \E o \in app :
        Request((cloud \ app) \cup {[o EXCEPT !.link = address]},
                SaveNext("spectrum", o.id), {})
    /\ UNCHANGED <<service, rows, torn>>

\* syncWorker up to the first write.  A recorded script may be missing: the row
\* is written before the script.
PlanWorker ==
    /\ At("sync", "plan")
    /\ mode = "workers"
    /\ UNCHANGED <<service, rows, torn>>
    /\ IF \/ Taken(EntryRecords) \/ Taken(ObjectsOf("origin"))
          \/ Others("worker") # {} \/ TakenOver("worker")
          \/ Others("worker_route") # {}
          \/ Missing("worker_route") \/ TakenOver("worker_route")
       THEN Refuses
       ELSE /\ call' = [call EXCEPT !.pc = "intent", !.made = RowOf("worker") = {}]
            /\ UNCHANGED <<cloud, lost, result>>

\* Faulty variant of SaveIntent: the script's row is written after the script.
SaveIntentOfRecords ==
    /\ At("sync", "intent")
    /\ rows' = Saved("worker_dns", Derived)
    /\ Goto("origin")
    /\ UNCHANGED <<service, cloud, torn, lost>>

\* The rows of the records and the script, before either is written.
SaveIntent ==
    /\ call.op = "sync"
    /\ \/ /\ call.pc = "intent"
          /\ rows' = Saved("worker_dns", Derived)
          /\ Goto("worker")
       \/ /\ call.pc = "worker"
          /\ rows' = Saved("worker", Derived)
          /\ Goto("origin")
       \/ /\ call.pc \in {"intent", "worker"}
          /\ StoreFaults
          /\ UNCHANGED rows
          /\ End("none")
    /\ UNCHANGED <<service, cloud, torn, lost>>

UploadWorker ==
    /\ At("sync", "upload")
    /\ Request((cloud \ ObjectsOf("worker")) \cup {New("worker", Derived, address)},
               Goto("keep"), {})
    /\ UNCHANGED <<service, rows, torn>>

\* The script's row once more; a script that is new is deleted if that fails.
SaveWorker ==
    /\ At("sync", "keep")
    /\ \/ rows' = Saved("worker", Derived) /\ Goto("subdomain") /\ UNCHANGED cloud
       \/ /\ StoreFaults
          /\ UNCHANGED rows
          /\ cloud' \in {cloud} \cup (IF call.made THEN {cloud \ ObjectsOf("worker")}
                                      ELSE {})
          /\ End("none")
    /\ UNCHANGED <<service, torn, lost>>

DisableSubdomain ==
    /\ At("sync", "subdomain")
    /\ Goto("entry")
    /\ UNCHANGED <<service, cloud, rows, torn, lost>>

\* "dns", "proxy" and ReconcileService have no check of their own.
PlanRecord ==
    /\ At("sync", "plan")
    /\ mode \in {"dns", "redirect"}
    /\ Goto("entry")
    /\ UNCHANGED <<service, cloud, rows, torn, lost>>

\* The rule with the service's ref is updated or created.
SyncRule ==
    LET old == {o \in ObjectsOf("redirect") : Ours(o)} IN
    /\ At("sync", "rule")
    /\ Request((cloud \ old) \cup {New("redirect", Derived, address)},
               SaveNext("redirect", Derived), {})
    /\ UNCHANGED <<service, rows, torn>>

-------------------------------------------------------------------------------
(* Cleanup *)

BeginCleanup ==
    mode \in AccountModes /\ Begin("cleanup", "remove", ServiceRows)

Priority(kind) == IF kind = "tunnel" THEN 2 ELSE IF kind = "worker" THEN 1 ELSE 0

First(r, among) == \A q \in among : Priority(r.kind) <= Priority(q.kind)

\* The objects that the row r entitles to delete.
Removable(r) ==
    IF r.kind = "redirect" THEN {o \in ObjectsOf("redirect") : Ours(o)} ELSE Named(r)

\* The object has been changed, or the tunnel of a private route has no row.
ChangedOutside(r) ==
    \E o \in Removable(r) :
        \/ ~Ours(o)
        \/ /\ r.kind = "private_route"
           /\ \A t \in RowOf("tunnel") : o.link # t.id

\* An object that is gone already is as good as deleted.
CleanupRow(r) ==
    LET Deleted == call' = [call EXCEPT !.todo = @ \ {r}] /\ UNCHANGED result IN
    /\ At("cleanup", "remove")
    /\ r \in call.todo
    /\ First(r, call.todo)
    /\ \/ Removable(r) = {} /\ Deleted /\ UNCHANGED <<cloud, lost, torn>>
       \/ /\ Removable(r) # {}
          /\ ChangedOutside(r)
          /\ cloud' = cloud
          /\ Fail("stuck", {})
          /\ UNCHANGED torn
       \/ /\ Removable(r) # {}
          /\ ~ChangedOutside(r)
          /\ Request(cloud \ Removable(r), Deleted, {})
          /\ torn' = torn \cup {"service"}
    /\ UNCHANGED <<service, rows>>

CleanupRowsDone ==
    /\ At("cleanup", "remove")
    /\ call.todo = {}
    /\ Goto(IF mode = "redirect" THEN "rules" ELSE "records")
    /\ UNCHANGED <<service, cloud, rows, torn, lost>>

\* cleanupRedirect for services whose rule has no row; with a row the rule is gone
\* by now.
CleanupRules ==
    LET rules == {o \in ObjectsOf("redirect") : Ours(o)} IN
    /\ At("cleanup", "rules")
    /\ IF rules = {} THEN Goto("records") /\ UNCHANGED <<cloud, lost>>
       ELSE Request(cloud \ rules, Goto("records"), {})
    /\ UNCHANGED <<service, rows, torn>>

\* Faulty variant of CleanupRecords: only the entry's records are looked for.
CleanupEntryRecords ==
    LET records == {o \in EntryRecords : Ours(o) /\ mode \notin {"spectrum", "warp"}} IN
    /\ At("cleanup", "records")
    /\ \/ records = {} /\ Goto("forget") /\ UNCHANGED <<cloud, lost>>
       \/ \E o \in records :
            Request(cloud \ {o}, UNCHANGED <<call, result>>, {})
    /\ UNCHANGED <<service, rows, torn>>

\* All records of the zone that carry the service's comment.
CleanupRecords ==
    LET records == {o \in cloud : /\ o.kind \in DNSKinds
                                  /\ Ours(o)
                                  /\ mode \notin {"spectrum", "warp"}}
    IN
    /\ At("cleanup", "records")
    /\ \/ records = {} /\ Goto("forget") /\ UNCHANGED <<cloud, lost>>
       \/ \E o \in records :
            Request(cloud \ {o}, UNCHANGED <<call, result>>, {})
    /\ UNCHANGED <<service, rows, torn>>

\* DeleteCloudflareResource, when nothing is left at Cloudflare.
ForgetRow ==
    /\ At("cleanup", "forget")
    /\ \/ \E r \in ServiceRows :
            First(r, ServiceRows) /\ rows' = rows \ {r} /\ UNCHANGED <<call, result, torn>>
       \/ /\ ServiceRows = {}
          /\ UNCHANGED rows
          /\ torn' = torn \ {"service"}
          /\ End("cleaned")
       \/ StoreFaults /\ UNCHANGED <<rows, torn>> /\ End("none")
    /\ UNCHANGED <<service, cloud, lost>>

-------------------------------------------------------------------------------
(* Access *)

\* SaveAccess: the host name has a proxied record, and none of the modes that go
\* past Access ("dns" does not as a proxy of HTTPS on port 443).
SaveAccess ==
    /\ EntryRecords # {}
    /\ mode \notin {"redirect", "spectrum"}
    /\ Begin("access", "plan", {})

\* An application that no row names covers the host name, or the recorded one is
\* gone or has been changed.
PlanAccess ==
    /\ At("access", "plan")
    /\ UNCHANGED <<service, rows, torn>>
    /\ IF Others("access") # {} \/ Missing("access") \/ TakenOver("access")
       THEN Refuses
       ELSE /\ UNCHANGED <<cloud, lost>>
            /\ IF RowOf("access") = {} THEN CreateNext("access") ELSE Goto("put")

PutAccess ==
    /\ At("access", "put")
    /\ \E r \in RowOf("access") : Request(cloud, SaveNext("access", r.id), {})
    /\ UNCHANGED <<service, rows, torn>>

\* The application and its policy are read back.
VerifyAccess ==
    /\ At("access", "verify")
    /\ End("none")
    /\ UNCHANGED <<service, cloud, rows, torn, lost>>

DeleteAccess == RowOf("access") # {} /\ Begin("unprotect", "remove", {})

RemoveAccess ==
    LET app == UNION {Named(r) : r \in RowOf("access")} IN
    /\ At("unprotect", "remove")
    /\ \/ TakenOver("access") /\ Refuses /\ UNCHANGED torn
       \/ app = {} /\ Goto("forget") /\ UNCHANGED <<cloud, lost, torn>>
       \/ /\ app # {}
          /\ ~TakenOver("access")
          /\ Request(cloud \ app, Goto("forget"), {})
          /\ torn' = torn \cup {"access"}
    /\ UNCHANGED <<service, rows>>

ForgetAccess ==
    /\ At("unprotect", "forget")
    /\ \/ /\ rows' = ServiceRows
          /\ torn' = torn \ {"access"}
          /\ End("none")
       \/ StoreFaults /\ UNCHANGED <<rows, torn>> /\ End("none")
    /\ UNCHANGED <<service, cloud, lost>>

-------------------------------------------------------------------------------

\* The program ends and is started again; it matters while a call is under way.
Restart ==
    /\ call # Idle
    /\ call' = Idle
    /\ result' = "none"
    /\ lost' = lost \cup Held \cup Unrecorded(cloud)
    /\ UNCHANGED <<mode, address, cloud, rows, torn, edits>>

Publish ==
    \/ PlanTunnel \/ Configure \/ SyncPrivateRoute
    \/ PlanSpectrum \/ PutSpectrum
    \/ PlanWorker \/ SaveIntent \/ UploadWorker \/ SaveWorker \/ DisableSubdomain
    \/ PlanRecord \/ SyncRule
    \/ SyncEntry \/ SyncOrigin
    \/ PlanAccess \/ PutAccess \/ VerifyAccess

Clean ==
    \/ \E r \in rows : CleanupRow(r)
    \/ CleanupRowsDone \/ CleanupRules \/ CleanupRecords \/ ForgetRow
    \/ RemoveAccess \/ ForgetAccess

Next ==
    \/ \E m \in Modes \cup {"direct"} : UpdateService(m)
    \/ DeleteService
    \/ \E x \in Addresses : Remap(x)
    \/ Edit
    \/ Sync \/ BeginCleanup \/ SaveAccess \/ DeleteAccess
    \/ Publish
    \/ Clean
    \/ \E i \in Ids : Create(i)
    \/ SaveResource
    \/ Undo
    \/ CallFails
    \/ Restart

Spec == Init /\ [][Next]_vars

-------------------------------------------------------------------------------
(* Properties *)

\* An object StunDeck has made has a row that entitles Cleanup to delete it and
\* that keeps the service from being changed or deleted.  Records and rules are
\* found by their mark, as long as the service has any row.
Recorded(o) ==
    IF o.kind \in DNSKinds \cup {"redirect"} THEN ServiceRows # {} ELSE Key(o) \in rows

\* Nothing is forgotten at Cloudflare: whatever fails and whenever the program
\* ends, an object StunDeck has made is recorded, or the call that made it is
\* about to, or a fault (an answer that never came, a crash between a request
\* and its row, a failed deletion) has lost it.
NothingForgotten ==
    \A o \in cloud : Ours(o) =>
        \/ Recorded(o)
        \/ Key(o) \in lost \cup Held \cup Unrecorded(cloud)

\* StunDeck changes and deletes its own objects only, and an Access application
\* only when it was asked to: cleaning up a service leaves it protected.
OnlyOwnTouched ==
    [][\A o \in cloud : o \notin cloud' /\ edits' = edits =>
        /\ Ours(o)
        /\ o.kind = "access" => call.op \in {"access", "unprotect"}]_vars

\* When Cleanup reports success, no row and no object of the service is left,
\* but what a fault has lost.
CleanedMeansGone ==
    result = "cleaned" =>
        /\ ServiceRows = {}
        /\ \A o \in cloud : Ours(o) /\ o.kind # "access" => Key(o) \in lost

\* When Sync reports success the whole publication is there, recorded, and points
\* to the present public mapping and to the recorded tunnel.
PublishedIsComplete ==
    result = "synced" =>
        /\ ServiceRows # {}
        /\ mode \in {"tunnel", "warp"} => \E t \in RowOf("tunnel") :
            /\ New("tunnel", t.id, Derived) \in cloud
            /\ mode = "tunnel" => EntryRecords = {New("cname", Derived, t.id)}
            /\ mode = "warp" => \E r \in RowOf("private_route") :
                 New("private_route", r.id, t.id) \in cloud
        /\ mode = "spectrum" => \E r \in RowOf("spectrum") :
            New("spectrum", r.id, address) \in cloud
        /\ mode \in {"dns", "redirect"} => EntryRecords = {New("a", Derived, address)}
        /\ mode = "redirect" => New("redirect", Derived, address) \in cloud
        /\ mode = "workers" =>
            /\ EntryRecords = {New("a", Derived, Derived)}
            /\ {New("origin", Derived, address), New("worker", Derived, address)}
                 \subseteq cloud
            /\ \E r \in RowOf("worker_route") : Named(r) # {}

\* StunDeck does not get in its own way: a publication or an Access change is
\* refused only because of what others did at Cloudflare, of an object that a
\* fault has lost, or of a removal that has to be completed first; and a removal
\* can be completed, whatever broke off what came before it.
NeverRefusesItself ==
    /\ result = "refused" => edits > 0 \/ lost # {} \/ torn # {}
    /\ result = "stuck" => edits > 0

Contract == INSTANCE PublisherContract WITH
    AllModes <- Modes \cup {"direct"},
    owned <- ServiceRows # {},
    busy <- IF call.op \in {"sync", "cleanup"} THEN call.op ELSE "none",
    result <- IF result \in {"refused", "stuck"} THEN "none" ELSE result

\* The publisher keeps its contract with the handlers: a service owns something
\* from the first row on to the end of a cleanup that succeeds, whatever fails in
\* between, and cannot be changed or deleted meanwhile (the check at
\* internal/httpapi/services.go:105).
KeepsContract == Contract!Spec
===============================================================================

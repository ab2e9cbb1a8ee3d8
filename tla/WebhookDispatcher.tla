--------------------------- MODULE WebhookDispatcher ---------------------------
(***************************************************************************)
(* Events and their delivery to webhooks: Server.addEvent and testWebhook  *)
(* (internal/httpapi), the tables webhooks and webhook_deliveries          *)
(* (internal/store/webhooks.go), and the Dispatcher with its single        *)
(* goroutine (internal/webhook/dispatcher.go).                             *)
(*                                                                         *)
(* A delivery row is named by its event and its endpoint: an event is      *)
(* queued once per endpoint.  next_attempt_at is kept as an order: due     *)
(* relates the rows whose time has come, each to itself and to those that  *)
(* come after it, and a row that waits says whether it waits for a         *)
(* back-off of seconds ("normal") or for a day ("daily").                  *)
(***************************************************************************)
EXTENDS Naturals, Sequences, FiniteSets

CONSTANTS
    Events,         \* event identifiers
    Hooks,          \* webhook identifiers
    Producers,      \* request handlers and goroutines that report events
    Batch,          \* rows read at a tick (20 in the code)
    NormalAttempts, \* failed attempts after which a row waits a day (10)
    MaxAttempts,    \* bound: the endpoint accepts this attempt at the latest
    StoreFaults,    \* a write of the dispatcher may fail
    MaxBoots        \* bound: starts of the program

ASSUME DispatcherAssumption ==
    /\ Batch \in Nat \ {0}
    /\ NormalAttempts \in Nat \ {0}
    /\ MaxAttempts \in Nat \ {0}
    /\ StoreFaults \in BOOLEAN
    /\ MaxBoots \in Nat

VARIABLES
    hooks,     \* the webhooks table: "unborn", "present" or "deleted"
    events,    \* the events table
    rows,      \* the webhook_deliveries table
    due,       \* its undelivered rows whose time has come, by their time
    prod,      \* the producers: pc, event and endpoints still to queue for
    batch,     \* rest of the dispatcher's batch: copies of row id and attempts
    disp,      \* step of the dispatcher for the head of its batch
    ok,        \* the outcome deliver returned for it
    boots,     \* starts of the program so far
    received,  \* deliveries their endpoint has got (what the world has seen)
    listed, aborted  \* endpoints an event was meant for; events cut short

vars == <<hooks, events, rows, due, prod, batch, disp, ok, boots, received,
          listed, aborted>>

Ids == Events \X Hooks

HookOf(d) == d[2]

RowType == [status : {"none", "pending", "delivered", "gone"}, attempts : Nat,
            wait : {"due", "normal", "daily"}, retries : Nat]

NoRow == [status |-> "none", attempts |-> 0, wait |-> "due", retries |-> 0]

Quiet == [pc |-> "idle", event |-> {}, todo |-> {}]

TypeOK ==
    /\ hooks \in [Hooks -> {"unborn", "present", "deleted"}]
    /\ events \subseteq Events
    /\ rows \in [Ids -> RowType]
    /\ due \subseteq Ids \X Ids
    /\ prod \in [Producers -> [pc : {"idle", "list", "queue"},
                               event : SUBSET Events, todo : SUBSET Hooks]]
    /\ batch \in Seq([id : Ids, attempts : Nat])
    /\ disp \in {"idle", "lookup", "post", "settle"}
    /\ ok \in BOOLEAN
    /\ boots \in Nat
    /\ received \subseteq Ids
    /\ listed \in [Events -> SUBSET Hooks]
    /\ aborted \subseteq Events

Init ==
    /\ hooks = [h \in Hooks |-> "unborn"]
    /\ events = {}
    /\ rows = [d \in Ids |-> NoRow]
    /\ due = {}
    /\ prod = [p \in Producers |-> Quiet]
    /\ batch = <<>>
    /\ disp = "idle"
    /\ ok = FALSE
    /\ boots = 1
    /\ received = {}
    /\ listed = [e \in Events |-> {}]
    /\ aborted = {}

dispatcherVars == <<batch, disp, ok>>

-------------------------------------------------------------------------------
(* The rows whose time has come, as the index over next_attempt_at has them *)

Due == {d \in Ids : <<d, d>> \in due}

\* The time of d comes, after that of all rows that are due already.
BecomesDue(d) == due' = due \cup {<<x, d>> : x \in Due \cup {d}}

\* The rows of this set are due no longer.
NoLongerDue(gone) == due' = due \cap ((Ids \ gone) \X (Ids \ gone))

\* What SELECT ... ORDER BY next_attempt_at LIMIT Batch reads of these rows.
Oldest(ready) ==
    {b \in UNION {[1..n -> ready] : n \in 0..Batch} :
        /\ \A i, j \in DOMAIN b : i < j => b[i] # b[j] /\ <<b[i], b[j]>> \in due
        /\ \A d \in ready : (\A i \in DOMAIN b : b[i] # d)
              => Len(b) = Batch /\ \A i \in DOMAIN b : <<b[i], d>> \in due}

-------------------------------------------------------------------------------
(* The administrator's requests *)

CreateWebhook(h) ==
    /\ hooks[h] = "unborn"
    /\ hooks' = [hooks EXCEPT ![h] = "present"]
    /\ UNCHANGED <<events, rows, due, prod, dispatcherVars, boots, received,
                   listed, aborted>>

\* The foreign key takes the endpoint's delivery rows along.
DeleteWebhook(h) ==
    /\ hooks[h] = "present"
    /\ hooks' = [hooks EXCEPT ![h] = "deleted"]
    /\ rows' = [d \in Ids |-> IF HookOf(d) = h /\ rows[d].status # "none"
                              THEN [rows[d] EXCEPT !.status = "gone"]
                              ELSE rows[d]]
    /\ NoLongerDue({d \in Ids : HookOf(d) = h})
    /\ UNCHANGED <<events, prod, dispatcherVars, boots, received, listed, aborted>>

-------------------------------------------------------------------------------
(* Reporting an event.  p is the goroutine that reports it. *)

\* addEvent: the event row is written first.
AddEvent(p, e) ==
    /\ prod[p].pc = "idle"
    /\ e \notin events
    /\ events' = events \cup {e}
    /\ prod' = [prod EXCEPT ![p] = [pc |-> "list", event |-> {e}, todo |-> {}]]
    /\ UNCHANGED <<hooks, rows, due, dispatcherVars, boots, received, listed, aborted>>

\* Enqueue reads the endpoints; nothing ever disables one.
ListWebhooks(p) ==
    LET present == {h \in Hooks : hooks[h] = "present"} IN
    /\ prod[p].pc = "list"
    /\ prod' = [prod EXCEPT ![p].pc = "queue", ![p].todo = present]
    /\ listed' = [e \in Events |-> IF e \in prod[p].event THEN present ELSE listed[e]]
    /\ UNCHANGED <<hooks, events, rows, due, dispatcherVars, boots, received, aborted>>

\* testWebhook: a new event for one endpoint, which it has looked up before.
TestWebhook(p, e, h) ==
    /\ prod[p].pc = "idle"
    /\ hooks[h] = "present"
    /\ e \notin events
    /\ events' = events \cup {e}
    /\ prod' = [prod EXCEPT ![p] = [pc |-> "queue", event |-> {e}, todo |-> {h}]]
    /\ listed' = [listed EXCEPT ![e] = {h}]
    /\ UNCHANGED <<hooks, rows, due, dispatcherVars, boots, received, aborted>>

\* Faulty variant of QueueWebhookDelivery: the loop ends after the first endpoint.
QueueFirstDelivery(p, h) ==
    LET new == {<<e, h>> : e \in prod[p].event} IN
    /\ prod[p].pc = "queue"
    /\ h \in prod[p].todo
    /\ hooks[h] = "present"
    /\ rows' = [d \in Ids |-> IF d \in new THEN [NoRow EXCEPT !.status = "pending"]
                              ELSE rows[d]]
    /\ \E d \in new : BecomesDue(d)
    /\ prod' = [prod EXCEPT ![p] = Quiet]
    /\ UNCHANGED <<hooks, events, dispatcherVars, boots, received, listed, aborted>>

\* One row per endpoint, due at once.
QueueWebhookDelivery(p, h) ==
    LET new == {<<e, h>> : e \in prod[p].event} IN
    /\ prod[p].pc = "queue"
    /\ h \in prod[p].todo
    /\ hooks[h] = "present"
    /\ rows' = [d \in Ids |-> IF d \in new THEN [NoRow EXCEPT !.status = "pending"]
                              ELSE rows[d]]
    /\ \E d \in new : BecomesDue(d)
    /\ prod' = [prod EXCEPT ![p].todo = @ \ {h}]
    /\ UNCHANGED <<hooks, events, dispatcherVars, boots, received, listed, aborted>>

Queued(p) ==
    /\ prod[p].pc = "queue"
    /\ prod[p].todo = {}
    /\ prod' = [prod EXCEPT ![p] = Quiet]
    /\ UNCHANGED <<hooks, events, rows, due, dispatcherVars, boots, received,
                   listed, aborted>>

\* The first error ends Enqueue: a cancelled request, a store error, or an
\* endpoint that has been deleted since it was listed.
EnqueueFails(p) ==
    /\ prod[p].pc # "idle"
    /\ aborted' = aborted \cup prod[p].event
    /\ prod' = [prod EXCEPT ![p] = Quiet]
    /\ UNCHANGED <<hooks, events, rows, due, dispatcherVars, boots, received, listed>>

-------------------------------------------------------------------------------
(* The dispatcher goroutine *)

\* The back-off, or the day, is over.  Rows become due in the order of their
\* next_attempt_at.
TimePasses(d) ==
    /\ rows[d].status = "pending"
    /\ rows[d].wait # "due"
    /\ rows' = [rows EXCEPT ![d].wait = "due",
                            ![d].retries = IF rows[d].wait = "normal" THEN @ + 1 ELSE @]
    /\ BecomesDue(d)
    /\ UNCHANGED <<hooks, events, prod, dispatcherVars, boots, received, listed, aborted>>

Copies(b) == [i \in DOMAIN b |-> [id |-> b[i], attempts |-> rows[b[i]].attempts]]

\* Faulty variant of deliverPending: a tick does not wait for the batch before.
deliverPendingOverlaps ==
    /\ Len(batch) <= Batch
    /\ \E b \in Oldest(Due) :
          /\ batch' = batch \o Copies(b)
          /\ disp' = IF disp = "idle" /\ b # <<>> THEN "lookup" ELSE disp
    /\ UNCHANGED <<hooks, events, rows, due, prod, ok, boots, received, listed, aborted>>

\* Faulty variant of deliverPending: rows that failed too often are not read.
deliverPendingGivesUp ==
    /\ disp = "idle"
    /\ \E b \in Oldest({d \in Due : rows[d].attempts < NormalAttempts}) :
          /\ batch' = Copies(b)
          /\ disp' = IF b = <<>> THEN "idle" ELSE "lookup"
    /\ UNCHANGED <<hooks, events, rows, due, prod, ok, boots, received, listed, aborted>>

\* A tick: the undelivered rows that are due, oldest first.
deliverPending ==
    /\ disp = "idle"
    /\ \E b \in Oldest(Due) :
          /\ batch' = Copies(b)
          /\ disp' = IF b = <<>> THEN "idle" ELSE "lookup"
    /\ UNCHANGED <<hooks, events, rows, due, prod, ok, boots, received, listed, aborted>>

\* deliver reads the endpoint again: it may have gone since the tick.
Lookup ==
    /\ disp = "lookup"
    /\ disp' = IF hooks[HookOf(Head(batch).id)] = "present" THEN "post" ELSE "settle"
    /\ ok' = FALSE
    /\ UNCHANGED <<hooks, events, rows, due, prod, batch, boots, received, listed, aborted>>

\* An error may still mean that the endpoint has got the event.
Post ==
    LET d == Head(batch).id IN
    /\ disp = "post"
    /\ disp' = "settle"
    /\ \/ ok' = TRUE /\ received' = received \cup {d}
       \/ /\ Head(batch).attempts + 1 < MaxAttempts
          /\ ok' = FALSE
          /\ received' \in {received, received \cup {d}}
    /\ UNCHANGED <<hooks, events, rows, due, prod, batch, boots, listed, aborted>>

\* A failed write is ignored and leaves the row due.
Proceed ==
    /\ batch' = Tail(batch)
    /\ disp' = IF Len(batch) = 1 THEN "idle" ELSE "lookup"
    /\ UNCHANGED <<hooks, events, prod, ok, boots, received, listed, aborted>>

\* Faulty variant of MarkWebhookDelivered: a failed delivery is marked as well.
MarkUnchecked ==
    LET d == Head(batch).id IN
    /\ disp = "settle"
    /\ rows[d].status # "gone"
    /\ rows' = [rows EXCEPT ![d].status = "delivered"]
    /\ NoLongerDue({d})
    /\ Proceed

\* Faulty variant of MarkWebhookDelivered: the row stays in the queue.
MarkStaysDue ==
    LET d == Head(batch).id IN
    /\ disp = "settle"
    /\ ok
    /\ rows' = [rows EXCEPT ![d].status = IF @ = "gone" THEN @ ELSE "delivered"]
    /\ UNCHANGED due
    /\ Proceed

MarkWebhookDelivered ==
    LET d == Head(batch).id IN
    /\ disp = "settle"
    /\ ok
    /\ \/ /\ rows[d].status # "gone"
          /\ rows' = [rows EXCEPT ![d].status = "delivered"]
          /\ NoLongerDue({d})
       \/ /\ rows[d].status = "gone" \/ StoreFaults
          /\ UNCHANGED <<rows, due>>
    /\ Proceed

\* Faulty variant of RetryWebhookDelivery: one back-off too many.
RetryOnceMore ==
    LET d == Head(batch).id
        attempts == Head(batch).attempts + 1
    IN
    /\ disp = "settle"
    /\ ~ok
    /\ rows' = [rows EXCEPT ![d].attempts = attempts,
                  ![d].wait = IF attempts > NormalAttempts THEN "daily" ELSE "normal"]
    /\ NoLongerDue({d})
    /\ Proceed

RetryWebhookDelivery ==
    LET d == Head(batch).id
        attempts == Head(batch).attempts + 1
    IN
    /\ disp = "settle"
    /\ ~ok
    /\ \/ /\ rows[d].status # "gone"
          /\ rows' = [rows EXCEPT ![d].attempts = attempts,
                        ![d].wait = IF attempts >= NormalAttempts THEN "daily"
                                    ELSE "normal"]
          /\ NoLongerDue({d})
       \/ /\ rows[d].status = "gone" \/ StoreFaults
          /\ UNCHANGED <<rows, due>>
    /\ Proceed

\* The program ends, in order or by a crash, and starts again with its tables.
Restart ==
    /\ boots < MaxBoots
    /\ boots' = boots + 1
    /\ aborted' = aborted \cup UNION {prod[p].event : p \in Producers}
    /\ prod' = [p \in Producers |-> Quiet]
    /\ batch' = <<>>
    /\ disp' = "idle"
    /\ ok' = FALSE
    /\ UNCHANGED <<hooks, events, rows, due, received, listed>>

-------------------------------------------------------------------------------

Report(p) ==
    \/ ListWebhooks(p)
    \/ \E h \in Hooks : QueueWebhookDelivery(p, h)
    \/ Queued(p)
    \/ EnqueueFails(p)

Dispatch ==
    deliverPending \/ Lookup \/ Post \/ MarkWebhookDelivered \/ RetryWebhookDelivery

Next ==
    \/ \E h \in Hooks : CreateWebhook(h) \/ DeleteWebhook(h)
    \/ \E p \in Producers, e \in Events : AddEvent(p, e)
    \/ \E p \in Producers, e \in Events, h \in Hooks : TestWebhook(p, e, h)
    \/ \E p \in Producers : Report(p)
    \/ \E d \in Ids : TimePasses(d)
    \/ Dispatch
    \/ Restart

Spec == Init /\ [][Next]_vars

\* The outcome of a delivery is written to its row.
Settled(d) ==
    /\ disp = "settle" /\ Head(batch).id = d
    /\ MarkWebhookDelivered \/ RetryWebhookDelivery
    /\ rows' # rows

\* The ticker fires every second and every POST has a time limit; a request that
\* reports an event comes to an end; time passes.  The writes of the database that
\* follow a delivery do not fail for ever.
FairSpec ==
    /\ Spec
    /\ WF_vars(Dispatch)
    /\ \A p \in Producers : WF_vars(Report(p))
    /\ \A d \in Ids : WF_vars(TimePasses(d)) /\ SF_vars(Settled(d))

-------------------------------------------------------------------------------
(* Properties *)

\* The queue index is right: a row can be read at a tick exactly while it is
\* undelivered and its time has come, and of two such rows one comes first.
DueAgrees ==
    /\ \A d \in Ids :
         d \in Due <=> rows[d].status = "pending" /\ rows[d].wait = "due"
    /\ \A x, y \in Due : <<x, y>> \in due \/ <<y, x>> \in due
    /\ \A x, y \in Ids : <<x, y>> \in due => x \in Due /\ y \in Due
    /\ \A x, y \in Ids : <<x, y>> \in due /\ <<y, x>> \in due => x = y
    /\ \A x, y, z \in Ids : <<x, y>> \in due /\ <<y, z>> \in due => <<x, z>> \in due

\* A row is marked as delivered only if its endpoint got the event, whatever
\* crashes, deletions and ignored store errors happened on the way.
DeliveredWasReceived ==
    \A d \in Ids : rows[d].status = "delivered" => d \in received

\* The dispatcher never sends again what it has marked as delivered, neither in
\* the same batch nor from the copies it works on.
NoSendAfterDelivered ==
    \A i \in DOMAIN batch :
        disp # "settle" \/ i > 1 => rows[batch[i].id].status \in {"pending", "gone"}

\* An Enqueue that was not cut short has queued the event for every endpoint it
\* was meant for.
FannedOut ==
    \A e \in events \ aborted :
        (\A p \in Producers : e \notin prod[p].event)
            => \A h \in listed[e] : rows[<<e, h>>].status # "none"

\* Less than NormalAttempts retries come after a back-off of seconds; from then
\* on a row is tried once a day.
NormalRetriesBounded ==
    \A d \in Ids : rows[d].retries < NormalAttempts

\* A queued event is delivered in the end, unless its endpoint is deleted: no
\* batch limit, back-off, crash or other endpoint starves it.
EventuallyDelivered ==
    \A d \in Ids :
        rows[d].status = "pending" ~> rows[d].status \in {"delivered", "gone"}
===============================================================================

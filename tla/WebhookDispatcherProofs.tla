------------------------ MODULE WebhookDispatcherProofs ------------------------
(***************************************************************************)
(* Theorems about WebhookDispatcher, for any events, endpoints, producers  *)
(* and limits: what a crash, an ignored error of the store or a deletion   *)
(* between two steps cannot do to the queue.                               *)
(***************************************************************************)
EXTENDS WebhookDispatcher, SequenceTheorems, TLAPS

\* An event belongs to the one producer that reports it, and has no row before
\* its endpoints are read; then each of them has a row or is still to get one.
Reporting ==
    /\ \A p \in Producers :
         /\ prod[p].event \subseteq events
         /\ prod[p].pc = "idle" <=> prod[p].event = {}
         /\ \A e, f \in prod[p].event : e = f
    /\ \A p, q \in Producers : p # q => prod[p].event \cap prod[q].event = {}

Fresh(e) == \A h \in Hooks : rows[<<e, h>>].status = "none"

QueueOK(p) ==
    \A e \in prod[p].event :
        /\ prod[p].pc = "list" => Fresh(e)
        /\ prod[p].pc = "queue" =>
             /\ \A h \in prod[p].todo : rows[<<e, h>>].status = "none"
             /\ \A h \in listed[e] \ prod[p].todo : rows[<<e, h>>].status # "none"

Queueing ==
    /\ \A e \in Events \ events : Fresh(e)
    /\ \A p \in Producers : QueueOK(p)

\* The copies in the batch are of rows that nobody else writes while they are
\* there, except that their endpoint may be deleted.
Batched ==
    /\ disp = "idle" <=> batch = <<>>
    /\ \A i, j \in DOMAIN batch : batch[i].id = batch[j].id => i = j
    /\ \A i \in DOMAIN batch :
         \/ rows[batch[i].id].status = "gone"
         \/ /\ rows[batch[i].id].status = "pending"
            /\ rows[batch[i].id].wait = "due"
            /\ rows[batch[i].id].attempts = batch[i].attempts
    /\ disp = "settle" /\ ok => batch[1].id \in received

\* A row has come back from a back-off at most once for each failed attempt, and
\* it is in a back-off only before the attempt that makes it wait a day.
Retried(row) ==
    /\ row.retries <= row.attempts
    /\ row.retries < NormalAttempts
    /\ row.wait = "normal" => row.retries < row.attempts /\ row.attempts < NormalAttempts

IInv ==
    /\ TypeOK
    /\ Reporting
    /\ Queueing
    /\ FannedOut
    /\ DueAgrees
    /\ Batched
    /\ DeliveredWasReceived
    /\ \A d \in Ids : Retried(rows[d])
-------------------------------------------------------------------------------
(* The queue *)

\* The laws of the order alone.
Ordered ==
    /\ \A x, y \in Due : <<x, y>> \in due \/ <<y, x>> \in due
    /\ \A x, y \in Ids : <<x, y>> \in due => x \in Due /\ y \in Due
    /\ \A x, y \in Ids : <<x, y>> \in due /\ <<y, x>> \in due => x = y
    /\ \A x, y, z \in Ids : <<x, y>> \in due /\ <<y, z>> \in due => <<x, z>> \in due

\* A row that becomes due is the last in the order.
LEMMA RowAdded ==
  ASSUME due \subseteq Ids \X Ids, Ordered, NEW d \in Ids, d \notin Due, BecomesDue(d)
  PROVE  due' \subseteq Ids \X Ids /\ Due' = Due \cup {d} /\ Ordered'
  <1> DEFINE new == {<<x, d>> : x \in Due \cup {d}}
  <1>1. \A x, y \in Ids : <<x, y>> \in new <=> (x \in Due \/ x = d) /\ y = d
    OBVIOUS
  <1>2. \A x, y \in Ids :
          <<x, y>> \in due' <=> <<x, y>> \in due \/ ((x \in Due \/ x = d) /\ y = d)
    BY <1>1 DEF BecomesDue
  <1>3. Due' = Due \cup {d}
    BY <1>2 DEF Due
  <1>4. Due \subseteq Ids
    BY DEF Due
  <1>5. new \subseteq Ids \X Ids
    BY <1>4
  <1>6. due' \subseteq Ids \X Ids
    BY <1>5 DEF BecomesDue
  <1>7. \A x \in Ids : <<d, x>> \notin due /\ <<x, d>> \notin due
    BY DEF Ordered
  <1> HIDE DEF Due
  <1>8. \A x \in Due' : x \in Ids
    BY DEF Due
  <1>9. \A x, y \in Due' : <<x, y>> \in due' \/ <<y, x>> \in due'
    BY <1>2, <1>3, <1>8 DEF Ordered
  <1>10. \A x, y \in Ids : <<x, y>> \in due' => x \in Due' /\ y \in Due'
    BY <1>2, <1>3 DEF Ordered
  <1>11. \A x, y \in Ids : <<x, y>> \in due' /\ <<y, x>> \in due' => x = y
    BY <1>2, <1>7 DEF Ordered
  <1>12. \A x, y, z \in Ids : <<x, y>> \in due' /\ <<y, z>> \in due' => <<x, z>> \in due'
    BY <1>2, <1>7 DEF Ordered
  <1> QED
    BY <1>3, <1>6, <1>9, <1>10, <1>11, <1>12 DEF Ordered

\* Rows that leave it do not disturb the order of the others.
LEMMA RowsDropped ==
  ASSUME due \subseteq Ids \X Ids, Ordered, NEW gone, NoLongerDue(gone)
  PROVE  due' \subseteq Ids \X Ids /\ Due' = Due \ gone /\ Ordered'
  <1>1. \A x, y \in Ids : <<x, y>> \in due' <=> <<x, y>> \in due /\ x \notin gone /\ y \notin gone
    BY DEF NoLongerDue
  <1>2. Due' = Due \ gone
    BY <1>1 DEF Due
  <1>3. due' \subseteq Ids \X Ids
    BY DEF NoLongerDue
  <1>4. \A x \in Due : x \in Ids
    BY DEF Due
  <1> QED
    BY <1>1, <1>2, <1>3, <1>4 DEF Ordered

\* What a tick reads are rows that are due, each of them once.
LEMMA OldestRead ==
  ASSUME DispatcherAssumption, NEW b \in Oldest(Due)
  PROVE  /\ b \in Seq(Ids) /\ Len(b) \in Nat /\ DOMAIN b = 1..Len(b)
         /\ \A i \in DOMAIN b : b[i] \in Due
         /\ \A i, j \in DOMAIN b : b[i] = b[j] => i = j
  <1>1. PICK n \in 0..Batch : b \in [1..n -> Due]
    BY DEF Oldest
  <1>2. n \in Nat
    BY DEF DispatcherAssumption
  <1>3. b \in Seq(Due) /\ DOMAIN b = 1..n /\ Len(b) = n
    BY <1>1, <1>2
  <1>4. Due \subseteq Ids
    BY DEF Due
  <1>5. b \in Seq(Ids)
    BY <1>3, <1>4
  <1>6. \A i, j \in DOMAIN b : i < j => b[i] # b[j]
    BY DEF Oldest
  <1>7. \A i, j \in DOMAIN b : b[i] = b[j] => i = j
    BY <1>2, <1>3, <1>6
  <1> QED
    BY <1>1, <1>2, <1>3, <1>5, <1>7

\* What is in the batch.
LEMMA BatchRows ==
  ASSUME TypeOK
  PROVE  /\ Len(batch) \in Nat /\ DOMAIN batch = 1..Len(batch)
         /\ \A i \in DOMAIN batch : batch[i].id \in Ids /\ batch[i].attempts \in Nat
  <1> DEFINE Row == [id : Ids, attempts : Nat]
  <1>1. batch \in Seq(Row)
    BY DEF TypeOK
  <1>2. \A r \in Row : r.id \in Ids /\ r.attempts \in Nat
    OBVIOUS
  <1> HIDE DEF Row
  <1>3. Len(batch) \in Nat /\ DOMAIN batch = 1..Len(batch)
    BY <1>1
  <1>4. \A i \in DOMAIN batch : batch[i] \in Row
    BY <1>1
  <1> QED
    BY <1>2, <1>3, <1>4

\* The batch without its head.
LEMMA BatchTail ==
  ASSUME TypeOK, batch # <<>>
  PROVE  /\ Head(batch) = batch[1] /\ 1 \in DOMAIN batch
         /\ batch[1] \in [id : Ids, attempts : Nat]
         /\ Tail(batch) \in Seq([id : Ids, attempts : Nat])
         /\ Tail(batch) = <<>> <=> Len(batch) = 1
         /\ \A i \in DOMAIN Tail(batch) :
              i \in Nat /\ i + 1 \in DOMAIN batch /\ i + 1 # 1 /\ Tail(batch)[i] = batch[i + 1]
  <1> DEFINE Row == [id : Ids, attempts : Nat]
  <1>1. batch \in Seq(Row)
    BY DEF TypeOK
  <1> HIDE DEF Row
  <1>2. Len(batch) \in Nat \ {0} /\ DOMAIN batch = 1..Len(batch)
    BY <1>1
  <1>3. Len(Tail(batch)) = Len(batch) - 1 /\ DOMAIN Tail(batch) = 1..(Len(batch) - 1)
    BY <1>1, <1>2
  <1>4. \A i \in 1..(Len(batch) - 1) : Tail(batch)[i] = batch[i + 1]
    BY <1>1, <1>2
  <1>5. Tail(batch) \in Seq(Row)
    BY <1>1, <1>2
  <1>6. Tail(batch) = <<>> <=> Len(Tail(batch)) = 0
    BY <1>5, EmptySeq
  <1>7. Tail(batch) = <<>> <=> Len(batch) = 1
    BY <1>2, <1>3, <1>6
  <1>8. Head(batch) = batch[1] /\ 1 \in DOMAIN batch
    BY <1>1, <1>2
  <1>9. batch[1] \in Row
    BY <1>1, <1>8
  <1>10. \A i \in DOMAIN Tail(batch) : i \in Nat /\ i + 1 \in DOMAIN batch /\ i + 1 # 1
    BY <1>2, <1>3
  <1> QED
    BY <1>3, <1>4, <1>5, <1>7, <1>8, <1>9, <1>10 DEF Row

-------------------------------------------------------------------------------
(* What a step leaves alone *)

\* The producers' part, while no row comes into being.
LEMMA ReportingKept ==
  ASSUME TypeOK, Reporting, Queueing, FannedOut, UNCHANGED <<prod, events, listed, aborted>>,
         \A d \in Ids : rows'[d].status = "none" <=> rows[d].status = "none"
  PROVE  Reporting' /\ Queueing' /\ FannedOut'
  <1>1. Reporting'
    BY DEF Reporting
  <1>2. \A e \in Events, h \in Hooks :
          rows'[<<e, h>>].status = "none" <=> rows[<<e, h>>].status = "none"
    BY DEF Ids
  <1>3. \A p \in Producers : prod[p].event \subseteq Events /\ prod[p].todo \subseteq Hooks
    BY DEF TypeOK
  <1>4. \A e \in Events : listed[e] \subseteq Hooks
    BY DEF TypeOK
  <1>5. events \subseteq Events
    BY DEF TypeOK
  <1>6. Queueing'
    BY <1>2, <1>3, <1>4 DEF Queueing, QueueOK, Fresh
  <1>7. FannedOut'
    BY <1>2, <1>4, <1>5 DEF FannedOut
  <1> QED
    BY <1>1, <1>6, <1>7

\* One producer, while another has its turn.
LEMMA FrameOfQueue ==
  ASSUME TypeOK, NEW q \in Producers, QueueOK(q), UNCHANGED rows, prod'[q] = prod[q],
         \A e \in prod[q].event : listed'[e] = listed[e]
  PROVE  QueueOK(q)'
  BY DEF QueueOK, Fresh

\* The dispatcher's part, while rows of the batch at most lose their endpoint.
LEMMA BatchKept ==
  ASSUME TypeOK, Batched, UNCHANGED <<batch, disp, ok>>, received \subseteq received',
         \A i \in DOMAIN batch :
            rows'[batch[i].id] = rows[batch[i].id] \/ rows'[batch[i].id].status = "gone"
  PROVE  Batched'
  BY DEF Batched

\* The table and the dispatcher, while a producer does something else.
LEMMA TableKept ==
  ASSUME IInv, UNCHANGED <<rows, due, batch, disp, ok, received>>
  PROVE  DueAgrees' /\ Batched' /\ DeliveredWasReceived' /\ \A d \in Ids : Retried(rows'[d])
  <1>1. Batched'
    BY BatchKept DEF IInv
  <1>2. DueAgrees' /\ DeliveredWasReceived'
    BY DEF IInv, DueAgrees, Due, DeliveredWasReceived
  <1>3. \A d \in Ids : Retried(rows'[d])
    BY DEF IInv, Retried
  <1> QED
    BY <1>1, <1>2, <1>3

-------------------------------------------------------------------------------
(* The steps *)

LEMMA Initially ==
  ASSUME DispatcherAssumption, Init
  PROVE  IInv
  <1>1. batch \in Seq([id : Ids, attempts : Nat])
    BY EmptySeq DEF Init
  <1>2. TypeOK
    BY <1>1 DEF Init, TypeOK, RowType, NoRow, Quiet
  <1>3. \A d \in Ids : rows[d] = NoRow
    BY DEF Init
  <1>4. Due = {}
    BY DEF Init, Due
  <1>5. Reporting /\ Queueing /\ FannedOut
    BY <1>3 DEF Init, Reporting, Queueing, QueueOK, FannedOut, Fresh, Quiet, NoRow, Ids
  <1>6. DueAgrees
    BY <1>3, <1>4 DEF Init, DueAgrees, NoRow
  <1>7. Batched
    BY DEF Init, Batched
  <1>8. DeliveredWasReceived /\ \A d \in Ids : Retried(rows[d])
    BY <1>3 DEF DeliveredWasReceived, Retried, NoRow, DispatcherAssumption
  <1> QED
    BY <1>2, <1>5, <1>6, <1>7, <1>8 DEF IInv

\* The administrator's requests.
LEMMA WebhookRequests ==
  ASSUME IInv, NEW h \in Hooks, CreateWebhook(h) \/ DeleteWebhook(h)
  PROVE  IInv'
  <1>1. CASE CreateWebhook(h)
    <2>1. TypeOK'
      BY <1>1 DEF CreateWebhook, IInv, TypeOK, dispatcherVars
    <2>2. UNCHANGED <<events, rows, due, prod, batch, disp, ok, received, listed, aborted>>
      BY <1>1 DEF CreateWebhook, dispatcherVars
    <2>3. Reporting' /\ Queueing' /\ FannedOut'
      BY <2>2, ReportingKept DEF IInv
    <2> QED
      BY <2>1, <2>2, <2>3, TableKept DEF IInv
  <1>2. CASE DeleteWebhook(h)
    <2> DEFINE mine == {d \in Ids : HookOf(d) = h}
    <2>1. /\ rows' = [d \in Ids |-> rows'[d]]
          /\ \A d \in Ids :
               \/ d \notin mine /\ rows'[d] = rows[d]
               \/ rows[d].status = "none" /\ rows'[d] = rows[d]
               \/ /\ rows[d].status # "none" /\ d \in mine
                  /\ rows'[d] = [rows[d] EXCEPT !.status = "gone"]
      BY <1>2 DEF DeleteWebhook
    <2>2. /\ NoLongerDue(mine)
          /\ UNCHANGED <<events, prod, batch, disp, ok, boots, received, listed, aborted>>
      BY <1>2 DEF DeleteWebhook, dispatcherVars
    <2> HIDE DEF mine
    <2>3. \A d \in Ids : rows[d] \in RowType
      BY DEF IInv, TypeOK
    <2>4. \A d \in Ids :
            /\ rows'[d] \in RowType
            /\ rows'[d].attempts = rows[d].attempts /\ rows'[d].wait = rows[d].wait
            /\ rows'[d].retries = rows[d].retries
            /\ rows'[d].status = "none" <=> rows[d].status = "none"
            /\ d \notin mine => rows'[d].status = rows[d].status
            /\ d \in mine => rows'[d].status \in {"none", "gone"}
            /\ rows'[d] = rows[d] \/ rows'[d].status = "gone"
      BY <2>1, <2>3 DEF RowType
    <2>5. Ordered /\ due \subseteq Ids \X Ids
      BY DEF IInv, DueAgrees, Ordered, TypeOK
    <2>6. due' \subseteq Ids \X Ids /\ Due' = Due \ mine /\ Ordered'
      BY <2>2, <2>5, RowsDropped
    <2>7. TypeOK'
      <3>1. hooks' \in [Hooks -> {"unborn", "present", "deleted"}]
        BY <1>2 DEF DeleteWebhook, IInv, TypeOK
      <3>2. rows' \in [Ids -> RowType]
        BY <2>1, <2>4
      <3> QED
        BY <2>2, <2>6, <3>1, <3>2 DEF IInv, TypeOK
    <2>8. DueAgrees'
      BY <2>4, <2>6 DEF IInv, DueAgrees, Ordered
    <2>9. Reporting' /\ Queueing' /\ FannedOut'
      BY <2>2, <2>4, ReportingKept DEF IInv
    <2>10. \A i \in DOMAIN batch : batch[i].id \in Ids
      BY BatchRows DEF IInv
    <2>11. Batched'
      BY <2>2, <2>4, <2>10, BatchKept DEF IInv
    <2>12. DeliveredWasReceived'
      BY <2>2, <2>4 DEF IInv, DeliveredWasReceived
    <2>13. \A d \in Ids : Retried(rows'[d])
      BY <2>4 DEF IInv, Retried
    <2> QED
      BY <2>7, <2>8, <2>9, <2>11, <2>12, <2>13 DEF IInv
  <1> QED
    BY <1>1, <1>2

\* Reporting an event, up to its first row.
LEMMA Reported ==
  ASSUME IInv, NEW p \in Producers,
         \/ \E e \in Events : AddEvent(p, e)
         \/ ListWebhooks(p)
         \/ \E e \in Events, h \in Hooks : TestWebhook(p, e, h)
  PROVE  IInv'
  <1>1. UNCHANGED <<rows, due, batch, disp, ok, boots, received, aborted, hooks>>
    BY DEF AddEvent, ListWebhooks, TestWebhook, dispatcherVars
  <1>2. /\ prod \in [Producers -> [pc : {"idle", "list", "queue"}, event : SUBSET Events,
                                  todo : SUBSET Hooks]]
        /\ listed \in [Events -> SUBSET Hooks] /\ events \subseteq Events
    BY DEF IInv, TypeOK
  <1>3. \A f \in Events, g \in Hooks : rows'[<<f, g>>] = rows[<<f, g>>]
    BY <1>1
  <1>4. ASSUME NEW e \in Events, AddEvent(p, e) PROVE IInv'
    <2>1. /\ prod' = [prod EXCEPT ![p] = [pc |-> "list", event |-> {e}, todo |-> {}]]
          /\ prod[p].pc = "idle" /\ e \notin events /\ events' = events \cup {e} /\ UNCHANGED listed
      BY <1>4 DEF AddEvent
    <2>2. TypeOK'
      BY <1>1, <1>2, <2>1 DEF IInv, TypeOK
    <2>3. /\ prod'[p].pc = "list" /\ prod'[p].event = {e}
          /\ \A q \in Producers : q # p => prod'[q] = prod[q]
      BY <1>2, <2>1
    <2>4. Reporting'
      BY <2>1, <2>3 DEF IInv, Reporting
    <2>5. Queueing'
      <3>1. \A f \in Events : Fresh(f) => Fresh(f)'
        BY <1>3 DEF Fresh
      <3>2. QueueOK(p)'
        BY <2>1, <2>3, <3>1 DEF IInv, Queueing, QueueOK
      <3>3. ASSUME NEW q \in Producers, q # p PROVE QueueOK(q)'
        BY <1>1, <1>2, <2>1, <2>3, <3>3, FrameOfQueue DEF IInv, Queueing
      <3> QED
        BY <2>1, <3>1, <3>2, <3>3 DEF IInv, Queueing
    <2>6. FannedOut'
      BY <1>1, <1>2, <2>1, <2>3 DEF IInv, FannedOut, Reporting
    <2> QED
      BY <1>1, <2>2, <2>4, <2>5, <2>6, TableKept DEF IInv
  <1>5. ASSUME NEW e \in Events, NEW h \in Hooks, TestWebhook(p, e, h) PROVE IInv'
    <2>1. /\ prod' = [prod EXCEPT ![p] = [pc |-> "queue", event |-> {e}, todo |-> {h}]]
          /\ prod[p].pc = "idle" /\ e \notin events /\ events' = events \cup {e}
          /\ listed' = [listed EXCEPT ![e] = {h}]
      BY <1>5 DEF TestWebhook
    <2>2. TypeOK'
      BY <1>1, <1>2, <2>1 DEF IInv, TypeOK
    <2>3. /\ prod'[p].pc = "queue" /\ prod'[p].event = {e} /\ prod'[p].todo = {h}
          /\ \A q \in Producers : q # p => prod'[q] = prod[q]
          /\ listed'[e] = {h} /\ \A f \in Events : f # e => listed'[f] = listed[f]
      BY <1>2, <2>1
    <2>4. Reporting'
      BY <2>1, <2>3 DEF IInv, Reporting
    <2>5. \A q \in Producers : q # p => e \notin prod[q].event
      BY <2>1 DEF IInv, Reporting
    <2>6. Queueing'
      <3>1. \A f \in Events : Fresh(f) => Fresh(f)'
        BY <1>3 DEF Fresh
      <3>2. QueueOK(p)'
        BY <1>3, <2>1, <2>3 DEF IInv, Queueing, QueueOK, Fresh
      <3>3. ASSUME NEW q \in Producers, q # p PROVE QueueOK(q)'
        BY <1>1, <1>2, <2>1, <2>3, <2>5, <3>3, FrameOfQueue DEF IInv, Queueing
      <3> QED
        BY <2>1, <3>1, <3>2, <3>3 DEF IInv, Queueing
    <2>7. FannedOut'
      BY <1>1, <1>2, <2>1, <2>3 DEF IInv, FannedOut, Reporting
    <2> QED
      BY <1>1, <2>2, <2>4, <2>6, <2>7, TableKept DEF IInv
  <1>6. CASE ListWebhooks(p)
    <2> DEFINE present == {g \in Hooks : hooks[g] = "present"}
    <2>1. /\ prod' = [prod EXCEPT ![p].pc = "queue", ![p].todo = present]
          /\ prod[p].pc = "list" /\ UNCHANGED events
          /\ listed' = [f \in Events |-> IF f \in prod[p].event THEN present ELSE listed[f]]
      BY <1>6 DEF ListWebhooks
    <2>2. present \subseteq Hooks
      OBVIOUS
    <2> HIDE DEF present
    <2>3. TypeOK'
      <3>1. prod' \in [Producers -> [pc : {"idle", "list", "queue"}, event : SUBSET Events,
                                   todo : SUBSET Hooks]]
        BY <1>2, <2>1, <2>2
      <3>2. listed' \in [Events -> SUBSET Hooks]
        BY <1>2, <2>1, <2>2
      <3> QED
        BY <1>1, <2>1, <3>1, <3>2 DEF IInv, TypeOK
    <2>4. /\ prod'[p].pc = "queue" /\ prod'[p].event = prod[p].event /\ prod'[p].todo = present
          /\ \A q \in Producers : q # p => prod'[q] = prod[q]
          /\ \A f \in Events : listed'[f] = IF f \in prod[p].event THEN present ELSE listed[f]
      BY <1>2, <2>1
    <2>5. \A q \in Producers : prod'[q].event = prod[q].event
      BY <2>4
    <2>6. prod[p].pc = "list" /\ UNCHANGED events
      BY <2>1
    <2>7. prod[p].event # {} /\ \A q \in Producers : q # p => prod[q].event \cap prod[p].event = {}
      BY <2>6 DEF IInv, Reporting
    <2>8. Reporting'
      <3>1. \A q \in Producers : prod'[q].pc = "idle" <=> prod'[q].event = {}
        BY <2>4, <2>5, <2>7 DEF IInv, Reporting
      <3> QED
        BY <2>5, <2>6, <3>1 DEF IInv, Reporting
    <2>9. \A f \in prod[p].event : Fresh(f) /\ \A q \in Producers : q # p => f \notin prod[q].event
      BY <2>6, <2>7 DEF IInv, Queueing, QueueOK
    <2>10. Queueing'
      <3>1. \A f \in Events : Fresh(f) => Fresh(f)'
        BY <1>3 DEF Fresh
      <3>2. QueueOK(p)'
        BY <1>2, <1>3, <2>2, <2>4, <2>9 DEF QueueOK, Fresh
      <3>3. ASSUME NEW q \in Producers, q # p PROVE QueueOK(q)'
        BY <1>1, <1>2, <2>4, <2>9, <3>3, FrameOfQueue DEF IInv, Queueing
      <3> QED
        BY <2>1, <3>1, <3>2, <3>3 DEF IInv, Queueing
    <2>11. FannedOut'
      BY <1>1, <1>2, <2>1, <2>4, <2>5 DEF IInv, FannedOut
    <2> QED
      BY <1>1, <2>3, <2>8, <2>10, <2>11, TableKept DEF IInv
  <1> QED
    BY <1>4, <1>5, <1>6

\* A producer that is through, or gives up, has no event any more.
LEMMA Dismissed ==
  ASSUME IInv, NEW p \in Producers, Queued(p) \/ EnqueueFails(p)
  PROVE  IInv'
  <1>1. /\ UNCHANGED <<rows, due, batch, disp, ok, boots, received, hooks, events, listed>>
        /\ prod' = [prod EXCEPT ![p] = Quiet]
    BY DEF Queued, EnqueueFails, dispatcherVars
  <1>2. \/ aborted' = aborted /\ prod[p].pc = "queue" /\ prod[p].todo = {}
        \/ aborted' = aborted \cup prod[p].event
    BY DEF Queued, EnqueueFails
  <1>3. /\ prod \in [Producers -> [pc : {"idle", "list", "queue"}, event : SUBSET Events,
                                  todo : SUBSET Hooks]]
        /\ listed \in [Events -> SUBSET Hooks] /\ events \subseteq Events /\ aborted \subseteq Events
    BY DEF IInv, TypeOK
  <1>4. /\ prod'[p] = Quiet /\ prod'[p].pc = "idle" /\ prod'[p].event = {}
        /\ \A q \in Producers : q # p => prod'[q] = prod[q]
    BY <1>1, <1>3 DEF Quiet
  <1>5. TypeOK'
    <2>1. prod' \in [Producers -> [pc : {"idle", "list", "queue"}, event : SUBSET Events,
                                 todo : SUBSET Hooks]]
      BY <1>1, <1>3 DEF Quiet
    <2>2. aborted' \subseteq Events
      BY <1>2, <1>3
    <2> QED
      BY <1>1, <2>1, <2>2 DEF IInv, TypeOK
  <1>6. Reporting'
    BY <1>1, <1>4 DEF IInv, Reporting
  <1>7. Queueing'
    <2>1. \A f \in Events : Fresh(f) => Fresh(f)'
      BY <1>1 DEF Fresh
    <2>2. QueueOK(p)'
      BY <1>4 DEF QueueOK
    <2>3. ASSUME NEW q \in Producers, q # p PROVE QueueOK(q)'
      BY <1>1, <1>4, <2>3, FrameOfQueue DEF IInv, Queueing
    <2> QED
      BY <1>1, <2>1, <2>2, <2>3 DEF IInv, Queueing
  <1>8. FannedOut'
    <2>1. ASSUME NEW e \in events, e \notin aborted', NEW h \in listed[e],
                 \A q \in Producers : e \notin prod'[q].event
          PROVE  rows[<<e, h>>].status # "none"
      <3>1. CASE e \in prod[p].event
        <4>1. prod[p].pc = "queue" /\ prod[p].todo = {}
          BY <1>2, <2>1, <3>1
        <4> QED
          BY <2>1, <3>1, <4>1 DEF IInv, Queueing, QueueOK
      <3>2. CASE e \notin prod[p].event
        BY <1>2, <1>4, <2>1, <3>2 DEF IInv, FannedOut
      <3> QED
        BY <3>1, <3>2
    <2> QED
      BY <1>1, <2>1 DEF FannedOut
  <1> QED
    BY <1>1, <1>5, <1>6, <1>7, <1>8, TableKept DEF IInv

\* A new row, which is due at once.
LEMMA RowQueued ==
  ASSUME DispatcherAssumption, IInv, NEW p \in Producers, NEW h \in Hooks,
         QueueWebhookDelivery(p, h)
  PROVE  IInv'
  <1>1. PICK e \in prod[p].event : BecomesDue(<<e, h>>)
    BY DEF QueueWebhookDelivery
  <1>2. prod \in [Producers -> [pc : {"idle", "list", "queue"}, event : SUBSET Events,
                                todo : SUBSET Hooks]]
    BY DEF IInv, TypeOK
  <1>3. e \in Events /\ prod[p].event = {e}
    BY <1>1, <1>2 DEF IInv, Reporting
  <1> DEFINE new == <<e, h>>
  <1>4. /\ UNCHANGED <<hooks, events, batch, disp, ok, boots, received, listed, aborted>>
        /\ prod[p].pc = "queue" /\ h \in prod[p].todo
        /\ prod' = [prod EXCEPT ![p].todo = @ \ {h}]
    BY DEF QueueWebhookDelivery, dispatcherVars
  <1>5. /\ rows' = [d \in Ids |-> IF d = new THEN [NoRow EXCEPT !.status = "pending"] ELSE rows[d]]
        /\ rows[new].status = "none"
    BY <1>3, <1>4 DEF QueueWebhookDelivery, IInv, Queueing, QueueOK
  <1>6. new \in Ids
    BY <1>3 DEF Ids
  <1>7. /\ prod'[p].pc = "queue" /\ prod'[p].event = {e} /\ prod'[p].todo = prod[p].todo \ {h}
        /\ \A q \in Producers : q # p => prod'[q] = prod[q] /\ e \notin prod[q].event
    BY <1>2, <1>3, <1>4 DEF IInv, Reporting
  <1>8. \A f \in Events, g \in Hooks :
          /\ <<f, g>> \in Ids
          /\ <<f, g>> = new <=> f = e /\ g = h
    BY DEF Ids
  <1> HIDE DEF new
  <1>9. /\ rows'[new].status = "pending" /\ rows'[new].wait = "due" /\ rows'[new].attempts = 0
        /\ rows'[new].retries = 0
        /\ \A d \in Ids : d # new => rows'[d] = rows[d]
    BY <1>5, <1>6 DEF NoRow
  <1>10. due' \subseteq Ids \X Ids /\ Due' = Due \cup {new} /\ Ordered'
    <2>1. new \notin Due
      BY <1>5, <1>6 DEF IInv, DueAgrees
    <2>2. Ordered /\ due \subseteq Ids \X Ids
      BY DEF IInv, DueAgrees, Ordered, TypeOK
    <2> QED
      BY <1>1, <1>6, <2>1, <2>2, RowAdded DEF new
  <1>11. TypeOK'
    <2>1. rows' \in [Ids -> RowType]
      BY <1>5 DEF NoRow, RowType, IInv, TypeOK
    <2>2. prod' \in [Producers -> [pc : {"idle", "list", "queue"}, event : SUBSET Events,
                                 todo : SUBSET Hooks]]
      BY <1>2, <1>4
    <2> QED
      BY <1>4, <1>10, <2>1, <2>2 DEF IInv, TypeOK
  <1>12. DueAgrees'
    BY <1>6, <1>9, <1>10 DEF IInv, DueAgrees, Ordered
  <1>13. Reporting'
    BY <1>3, <1>4, <1>7 DEF IInv, Reporting
  <1>14. Queueing'
    <2>1. \A f \in Events : f # e /\ Fresh(f) => Fresh(f)'
      BY <1>8, <1>9 DEF Fresh
    <2>2. e \in events
      BY <1>1 DEF IInv, Reporting
    <2>3. prod[p].todo \subseteq Hooks /\ listed[e] \subseteq Hooks
      BY <1>2, <1>3 DEF IInv, TypeOK
    <2>4. QueueOK(p)'
      BY <1>3, <1>4, <1>7, <1>8, <1>9, <2>3 DEF IInv, Queueing, QueueOK
    <2>5. ASSUME NEW q \in Producers, q # p PROVE QueueOK(q)'
      <3>1. prod[q].event \subseteq Events /\ prod[q].todo \subseteq Hooks
        BY <1>2
      <3>2. \A f \in prod[q].event : listed[f] \subseteq Hooks
        BY <3>1 DEF IInv, TypeOK
      <3>3. ASSUME NEW f \in prod[q].event, NEW g \in Hooks
            PROVE  rows'[<<f, g>>] = rows[<<f, g>>]
        <4>1. f \in Events /\ f # e
          BY <1>7, <2>5, <3>1
        <4>2. <<f, g>> \in Ids /\ <<f, g>> # new
          BY <1>8, <4>1
        <4> QED
          BY <1>9, <4>2
      <3>4. QueueOK(q)
        BY DEF IInv, Queueing
      <3>5. prod'[q] = prod[q] /\ listed' = listed
        BY <1>4, <1>7, <2>5
      <3> QED
        BY <3>1, <3>2, <3>3, <3>4, <3>5 DEF QueueOK, Fresh
    <2> QED
      BY <1>4, <2>1, <2>2, <2>4, <2>5 DEF IInv, Queueing
  <1>15. FannedOut'
    <2>1. \A f \in Events, g \in Hooks :
            rows[<<f, g>>].status # "none" => rows'[<<f, g>>].status # "none"
      BY <1>5, <1>8, <1>9
    <2>2. \A q \in Producers : prod'[q].event = prod[q].event
      BY <1>3, <1>7
    <2>3. \A f \in events : f \in Events /\ listed[f] \subseteq Hooks
      BY DEF IInv, TypeOK
    <2> QED
      BY <1>4, <2>1, <2>2, <2>3 DEF IInv, FannedOut
  <1>16. Batched'
    <2>1. \A i \in DOMAIN batch : batch[i].id \in Ids /\ rows[batch[i].id].status # "none"
      BY BatchRows DEF IInv, Batched
    <2>2. \A i \in DOMAIN batch : rows'[batch[i].id] = rows[batch[i].id]
      BY <1>5, <1>9, <2>1
    <2> QED
      BY <1>4, <2>2, BatchKept DEF IInv
  <1>17. DeliveredWasReceived'
    BY <1>4, <1>9 DEF IInv, DeliveredWasReceived
  <1>18. \A d \in Ids : Retried(rows'[d])
    BY <1>9 DEF IInv, Retried, DispatcherAssumption
  <1> QED
    BY <1>11, <1>12, <1>13, <1>14, <1>15, <1>16, <1>17, <1>18 DEF IInv

\* A back-off, or the day, is over.
LEMMA TimePassed ==
  ASSUME DispatcherAssumption, IInv, NEW d \in Ids, TimePasses(d)
  PROVE  IInv'
  <1>1. /\ UNCHANGED <<hooks, events, prod, batch, disp, ok, boots, received, listed, aborted>>
        /\ rows[d].status = "pending" /\ rows[d].wait # "due" /\ BecomesDue(d)
    BY DEF TimePasses, dispatcherVars
  <1>2. rows \in [Ids -> RowType] /\ rows[d] \in RowType
    BY DEF IInv, TypeOK
  <1> DEFINE n == IF rows[d].wait = "normal" THEN rows[d].retries + 1 ELSE rows[d].retries
             new == [rows[d] EXCEPT !.wait = "due", !.retries = n]
  <1>3. rows' = [rows EXCEPT ![d] = new]
    BY <1>2 DEF TimePasses, RowType
  <1>4. n \in Nat
    BY <1>2 DEF RowType
  <1>5. n = IF rows[d].wait = "normal" THEN rows[d].retries + 1 ELSE rows[d].retries
    OBVIOUS
  <1> HIDE DEF n
  <1>6. /\ new \in RowType /\ new.retries = n
         /\ new.status = rows[d].status /\ new.wait = "due" /\ new.attempts = rows[d].attempts
    BY <1>2, <1>4 DEF RowType
  <1> HIDE DEF new
  <1>7. /\ rows'[d].status = "pending" /\ rows'[d].wait = "due"
        /\ rows'[d].attempts = rows[d].attempts
        /\ rows'[d].retries = IF rows[d].wait = "normal" THEN rows[d].retries + 1 ELSE rows[d].retries
        /\ rows'[d] \in RowType
        /\ \A x \in Ids : x # d => rows'[x] = rows[x]
    BY <1>1, <1>2, <1>3, <1>5, <1>6
  <1>8. due' \subseteq Ids \X Ids /\ Due' = Due \cup {d} /\ Ordered'
    <2>1. d \notin Due
      BY <1>1 DEF IInv, DueAgrees
    <2>2. Ordered /\ due \subseteq Ids \X Ids
      BY DEF IInv, DueAgrees, Ordered, TypeOK
    <2> QED
      BY <1>1, <2>1, <2>2, RowAdded
  <1>9. TypeOK'
    <2>1. rows' \in [Ids -> RowType]
      BY <1>2, <1>3, <1>7
    <2> QED
      BY <1>1, <1>8, <2>1 DEF IInv, TypeOK
  <1>10. DueAgrees'
    BY <1>7, <1>8 DEF IInv, DueAgrees, Ordered
  <1>11. Reporting' /\ Queueing' /\ FannedOut'
    <2>1. \A x \in Ids : rows'[x].status = "none" <=> rows[x].status = "none"
      BY <1>1, <1>7
    <2> QED
      BY <1>1, <2>1, ReportingKept DEF IInv
  <1>12. Batched'
    <2>1. \A i \in DOMAIN batch : batch[i].id \in Ids /\ batch[i].id # d
      BY <1>1, BatchRows DEF IInv, Batched
    <2> QED
      BY <1>1, <1>7, <2>1, BatchKept DEF IInv
  <1>13. DeliveredWasReceived'
    BY <1>1, <1>7 DEF IInv, DeliveredWasReceived
  <1>14. \A x \in Ids : Retried(rows'[x])
    <2>1. Retried(rows'[d])
      <3>1. Retried(rows[d]) /\ rows[d].retries \in Nat /\ rows[d].attempts \in Nat
        BY <1>2 DEF IInv, RowType
      <3> QED
        BY <1>7, <3>1 DEF Retried, DispatcherAssumption
    <2> QED
      BY <1>7, <2>1 DEF IInv, Retried
  <1> QED
    BY <1>9, <1>10, <1>11, <1>12, <1>13, <1>14 DEF IInv

\* A tick.
LEMMA Ticked ==
  ASSUME DispatcherAssumption, IInv, deliverPending
  PROVE  IInv'
  <1>1. PICK b \in Oldest(Due) : /\ batch' = Copies(b)
                                 /\ disp' = IF b = <<>> THEN "idle" ELSE "lookup"
    BY DEF deliverPending
  <1>2. UNCHANGED <<hooks, events, rows, due, prod, ok, boots, received, listed, aborted>>
    BY DEF deliverPending
  <1>3. /\ b \in Seq(Ids) /\ Len(b) \in Nat /\ DOMAIN b = 1..Len(b)
        /\ \A i \in DOMAIN b : b[i] \in Due
        /\ \A i, j \in DOMAIN b : b[i] = b[j] => i = j
    BY OldestRead
  <1>4. \A i \in DOMAIN b : b[i] \in Ids /\ rows[b[i]] \in RowType
    BY <1>3 DEF IInv, TypeOK, Due
  <1>5. /\ DOMAIN batch' = DOMAIN b
        /\ \A i \in DOMAIN b : batch'[i] = [id |-> b[i], attempts |-> rows[b[i]].attempts]
    BY <1>1 DEF Copies
  <1>6. batch' \in Seq([id : Ids, attempts : Nat])
    <2> DEFINE Row == [id : Ids, attempts : Nat]
    <2>1. \A i \in DOMAIN b : batch'[i] \in Row
      BY <1>4, <1>5 DEF RowType
    <2> HIDE DEF Row
    <2>2. batch' \in [1..Len(b) -> Row]
      BY <1>1, <1>3, <1>5, <2>1 DEF Copies
    <2>3. batch' \in Seq(Row)
      BY <1>3, <2>2
    <2> QED
      BY <2>3 DEF Row
  <1>7. TypeOK'
    BY <1>1, <1>2, <1>6 DEF IInv, TypeOK
  <1>8. batch' = <<>> <=> b = <<>>
    <2>1. b = <<>> <=> Len(b) = 0
      BY <1>3, EmptySeq
    <2>2. batch' = <<>> <=> Len(batch') = 0
      BY <1>6, EmptySeq
    <2>3. Len(batch') = Len(b)
      BY <1>3, <1>5, <1>6
    <2> QED
      BY <2>1, <2>2, <2>3
  <1>9. Batched'
    <2>1. disp' = "idle" <=> batch' = <<>>
      BY <1>1, <1>8
    <2>2. \A i, j \in DOMAIN batch' : batch'[i].id = batch'[j].id => i = j
      BY <1>3, <1>5
    <2>3. \A i \in DOMAIN batch' :
            /\ rows'[batch'[i].id].status = "pending" /\ rows'[batch'[i].id].wait = "due"
            /\ rows'[batch'[i].id].attempts = batch'[i].attempts
      BY <1>2, <1>3, <1>4, <1>5 DEF IInv, DueAgrees
    <2>4. disp' # "settle"
      BY <1>1
    <2> QED
      BY <2>1, <2>2, <2>3, <2>4 DEF Batched
  <1>10. Reporting' /\ Queueing' /\ FannedOut'
    BY <1>2, ReportingKept DEF IInv
  <1>11. DueAgrees' /\ DeliveredWasReceived' /\ \A d \in Ids : Retried(rows'[d])
    BY <1>2 DEF IInv, DueAgrees, Due, DeliveredWasReceived, Retried
  <1> QED
    BY <1>7, <1>9, <1>10, <1>11 DEF IInv

\* The endpoint is looked up and asked.
LEMMA Asked ==
  ASSUME DispatcherAssumption, IInv, Lookup \/ Post
  PROVE  IInv'
  <1>1. UNCHANGED <<hooks, events, rows, due, prod, batch, boots, listed, aborted>>
    BY DEF Lookup, Post
  <1>2. batch # <<>>
    BY DEF Lookup, Post, IInv, Batched
  <1>3. Head(batch) = batch[1] /\ 1 \in DOMAIN batch /\ batch[1].id \in Ids
    BY <1>2, BatchTail DEF IInv
  <1>4. /\ disp' \in {"post", "settle"} /\ ok' \in BOOLEAN /\ received \subseteq received'
        /\ received' \subseteq received \cup {batch[1].id}
        /\ disp' = "settle" /\ ok' => batch[1].id \in received'
    <2>1. CASE Lookup
      BY <2>1 DEF Lookup, IInv, TypeOK
    <2>2. CASE Post
      BY <1>3, <2>2 DEF Post, IInv, TypeOK
    <2> QED
      BY <2>1, <2>2
  <1>5. UNCHANGED received \/ received' = received \cup {batch[1].id}
    BY <1>3 DEF Lookup, Post
  <1>6. TypeOK'
    BY <1>1, <1>3, <1>4 DEF IInv, TypeOK
  <1>7. Batched'
    BY <1>1, <1>2, <1>4 DEF IInv, Batched
  <1>8. Reporting' /\ Queueing' /\ FannedOut'
    BY <1>1, ReportingKept DEF IInv
  <1>9. DueAgrees' /\ DeliveredWasReceived' /\ \A d \in Ids : Retried(rows'[d])
    BY <1>1, <1>4 DEF IInv, DueAgrees, Due, DeliveredWasReceived, Retried
  <1> QED
    BY <1>6, <1>7, <1>8, <1>9 DEF IInv

\* The dispatcher leaves the head of its batch behind, whose row alone it may have
\* written.
LEMMA HeadSettled ==
  ASSUME IInv, disp = "settle", Proceed,
         \A d \in Ids : d # batch[1].id => rows'[d] = rows[d]
  PROVE  Batched' /\ batch' \in Seq([id : Ids, attempts : Nat]) /\ disp' \in {"idle", "lookup"}
  <1>1. batch # <<>>
    BY DEF IInv, Batched
  <1>2. /\ 1 \in DOMAIN batch
        /\ Tail(batch) \in Seq([id : Ids, attempts : Nat])
        /\ Tail(batch) = <<>> <=> Len(batch) = 1
        /\ \A i \in DOMAIN Tail(batch) :
             i \in Nat /\ i + 1 \in DOMAIN batch /\ i + 1 # 1 /\ Tail(batch)[i] = batch[i + 1]
    BY <1>1, BatchTail DEF IInv
  <1>3. batch' = Tail(batch) /\ disp' = IF Len(batch) = 1 THEN "idle" ELSE "lookup"
    BY DEF Proceed
  <1>4. \A i, j \in DOMAIN batch : batch[i].id = batch[j].id => i = j
    BY DEF IInv, Batched
  <1>5. \A i, j \in DOMAIN batch' : batch'[i].id = batch'[j].id => i = j
    BY <1>2, <1>3, <1>4
  <1>6. ASSUME NEW i \in DOMAIN batch'
        PROVE  \/ rows'[batch'[i].id].status = "gone"
               \/ /\ rows'[batch'[i].id].status = "pending"
                  /\ rows'[batch'[i].id].wait = "due"
                  /\ rows'[batch'[i].id].attempts = batch'[i].attempts
    <2>1. PICK j \in DOMAIN batch : j # 1 /\ batch'[i] = batch[j]
      BY <1>2, <1>3, <1>6
    <2>2. batch[j].id # batch[1].id
      BY <1>2, <1>4, <2>1
    <2>3. batch[j].id \in Ids
      BY BatchRows DEF IInv
    <2>4. rows'[batch[j].id] = rows[batch[j].id]
      BY <2>2, <2>3
    <2> QED
      BY <2>1, <2>4 DEF IInv, Batched
  <1> QED
    BY <1>2, <1>3, <1>5, <1>6 DEF Batched

\* The outcome is written, or the write fails, or its row is gone.
LEMMA OutcomeWritten ==
  ASSUME DispatcherAssumption, IInv, MarkWebhookDelivered \/ RetryWebhookDelivery
  PROVE  IInv'
  <1> DEFINE d == batch[1].id
             attempts == batch[1].attempts + 1
             marked == [rows[d] EXCEPT !.status = "delivered"]
             wait == IF attempts >= NormalAttempts THEN "daily" ELSE "normal"
             failed == [rows[d] EXCEPT !.attempts = attempts, !.wait = wait]
  <1>1. disp = "settle" /\ Proceed
    BY DEF MarkWebhookDelivered, RetryWebhookDelivery
  <1>2. UNCHANGED <<hooks, events, prod, ok, boots, received, listed, aborted>>
    BY <1>1 DEF Proceed
  <1>3. batch # <<>>
    BY <1>1 DEF IInv, Batched
  <1>4. Head(batch) = batch[1] /\ 1 \in DOMAIN batch /\ d \in Ids /\ batch[1].attempts \in Nat
    BY <1>3, BatchTail, BatchRows DEF IInv
  <1>5. \/ rows' = rows /\ due' = due
        \/ /\ rows[d].status # "gone" /\ NoLongerDue({d})
           /\ \/ ok /\ rows' = [rows EXCEPT ![d] = marked]
              \/ rows' = [rows EXCEPT ![d] = failed]
    <2>1. rows \in [Ids -> RowType] /\ rows[d] \in RowType
      BY <1>4 DEF IInv, TypeOK
    <2>2. CASE MarkWebhookDelivered
      BY <1>4, <2>1, <2>2 DEF MarkWebhookDelivered, RowType
    <2>3. CASE RetryWebhookDelivery
      <3>1. \/ rows' = rows /\ due' = due
            \/ /\ rows[d].status # "gone" /\ NoLongerDue({d})
               /\ rows' = [rows EXCEPT ![d].attempts = attempts, ![d].wait = wait]
        BY <1>4, <2>3 DEF RetryWebhookDelivery
      <3> HIDE DEF attempts, wait, d
      <3>2. [rows EXCEPT ![d].attempts = attempts, ![d].wait = wait] = [rows EXCEPT ![d] = failed]
        BY <1>4, <2>1 DEF RowType
      <3> QED
        BY <3>1, <3>2
    <2> QED
      BY <2>2, <2>3
  <1>6. rows[d] \in RowType /\ rows \in [Ids -> RowType]
    BY <1>4 DEF IInv, TypeOK
  <1>7. attempts \in Nat /\ wait \in {"due", "normal", "daily"}
    BY <1>4
  <1>8. wait = IF attempts >= NormalAttempts THEN "daily" ELSE "normal"
    OBVIOUS
  <1>9. attempts = batch[1].attempts + 1
    OBVIOUS
  <1> HIDE DEF attempts, wait
  <1>10. /\ marked \in RowType /\ marked.status = "delivered" /\ marked.attempts = rows[d].attempts
         /\ marked.retries = rows[d].retries /\ marked.wait = rows[d].wait
    BY <1>6, <1>7 DEF RowType
  <1>11. /\ failed \in RowType /\ failed.status = rows[d].status /\ failed.attempts = attempts
         /\ failed.retries = rows[d].retries /\ failed.wait = wait
    BY <1>6, <1>7 DEF RowType
  <1>12. rows[d].status # "gone" =>
          /\ rows[d].status = "pending" /\ rows[d].wait = "due"
          /\ rows[d].attempts = batch[1].attempts
    BY <1>4 DEF IInv, Batched
  <1>13. ok => d \in received
    BY <1>1 DEF IInv, Batched
  <1> HIDE DEF d, marked, failed
  <1>14. CASE rows' = rows /\ due' = due
    <2>1. Batched' /\ batch' \in Seq([id : Ids, attempts : Nat]) /\ disp' \in {"idle", "lookup"}
      BY <1>1, <1>14, HeadSettled
    <2>2. TypeOK'
      BY <1>2, <1>14, <2>1 DEF IInv, TypeOK
    <2>3. Reporting' /\ Queueing' /\ FannedOut'
      BY <1>2, <1>14, ReportingKept DEF IInv
    <2>4. DueAgrees' /\ DeliveredWasReceived' /\ \A x \in Ids : Retried(rows'[x])
      BY <1>2, <1>14 DEF IInv, DueAgrees, Due, DeliveredWasReceived, Retried
    <2> QED
      BY <2>1, <2>2, <2>3, <2>4 DEF IInv
  <1>15. ASSUME rows[d].status # "gone", NoLongerDue({d}), NEW new \in RowType,
                rows' = [rows EXCEPT ![d] = new],
                (new = marked /\ ok) \/ new = failed
         PROVE  IInv'
    <2>1. rows'[d] = new /\ \A x \in Ids : x # d => rows'[x] = rows[x]
      BY <1>4, <1>6, <1>15
    <2>2. Batched' /\ batch' \in Seq([id : Ids, attempts : Nat]) /\ disp' \in {"idle", "lookup"}
      BY <1>1, <2>1, HeadSettled DEF d
    <2>3. due' \subseteq Ids \X Ids /\ Due' = Due \ {d} /\ Ordered'
      <3>1. Ordered /\ due \subseteq Ids \X Ids
        BY DEF IInv, DueAgrees, Ordered, TypeOK
      <3> QED
        BY <1>15, <3>1, RowsDropped
    <2>4. TypeOK'
      <3>1. rows' \in [Ids -> RowType]
        BY <1>6, <1>15
      <3> QED
        BY <1>2, <2>2, <2>3, <3>1 DEF IInv, TypeOK
    <2>5. DueAgrees'
      <3>1. ~(new.status = "pending" /\ new.wait = "due")
        BY <1>15, <1>8, <1>10, <1>11
      <3> QED
        BY <1>4, <2>1, <2>3, <3>1 DEF IInv, DueAgrees, Ordered
    <2>6. Reporting' /\ Queueing' /\ FannedOut'
      <3>1. rows[d].status # "none" /\ new.status # "none"
        BY <1>12, <1>15, <1>10, <1>11
      <3>2. \A x \in Ids : rows'[x].status = "none" <=> rows[x].status = "none"
        BY <2>1, <3>1
      <3> QED
        BY <1>2, <3>2, ReportingKept DEF IInv
    <2>7. DeliveredWasReceived'
      <3>1. new.status = "delivered" => d \in received
        BY <1>12, <1>13, <1>15, <1>10, <1>11
      <3> QED
        BY <1>2, <2>1, <3>1 DEF IInv, DeliveredWasReceived
    <2>8. Retried(new)
      <3>1. Retried(rows[d])
        BY <1>4 DEF IInv
      <3>2. rows[d].wait = "due" /\ rows[d].attempts + 1 = attempts
        BY <1>12, <1>15, <1>9
      <3>3. rows[d].retries \in Nat /\ rows[d].attempts \in Nat
        BY <1>6 DEF RowType
      <3> QED
        BY <1>15, <1>7, <1>8, <1>10, <1>11, <3>1, <3>2, <3>3 DEF Retried, DispatcherAssumption
    <2>9. \A x \in Ids : Retried(rows'[x])
      BY <2>1, <2>8 DEF IInv
    <2> QED
      BY <2>2, <2>4, <2>5, <2>6, <2>7, <2>9 DEF IInv
  <1> QED
    BY <1>5, <1>14, <1>15, <1>10, <1>11

\* The program ends and starts again: what was in memory is lost.
LEMMA Restarted ==
  ASSUME IInv, Restart
  PROVE  IInv'
  <1>1. /\ UNCHANGED <<hooks, events, rows, due, received, listed>>
        /\ aborted' = aborted \cup UNION {prod[p].event : p \in Producers}
        /\ prod' = [p \in Producers |-> Quiet]
        /\ batch' = <<>> /\ disp' = "idle" /\ ok' = FALSE /\ boots' = boots + 1
    BY DEF Restart
  <1>2. \A p \in Producers : prod'[p].pc = "idle" /\ prod'[p].event = {}
    BY <1>1 DEF Quiet
  <1>3. TypeOK'
    <2>1. batch' \in Seq([id : Ids, attempts : Nat])
      BY <1>1, EmptySeq
    <2>2. prod' \in [Producers -> [pc : {"idle", "list", "queue"}, event : SUBSET Events,
                                 todo : SUBSET Hooks]]
      BY <1>1 DEF Quiet
    <2>3. aborted' \subseteq Events
      BY <1>1 DEF IInv, TypeOK
    <2>4. boots' \in Nat /\ disp' \in {"idle", "lookup", "post", "settle"}
      BY DEF IInv, TypeOK, Restart
    <2>5. ok' = FALSE
      BY DEF Restart
    <2>6. ok' \in BOOLEAN
      BY <2>5, Zenon
    <2> QED
      BY <1>1, <2>1, <2>2, <2>3, <2>4, <2>6 DEF IInv, TypeOK
  <1>4. Reporting'
    BY <1>2 DEF Reporting
  <1>5. Queueing'
    BY <1>1, <1>2 DEF IInv, Queueing, QueueOK, Fresh
  <1>6. FannedOut'
    BY <1>1 DEF IInv, FannedOut
  <1>7. Batched'
    BY <1>1 DEF Batched
  <1>8. DueAgrees' /\ DeliveredWasReceived' /\ \A d \in Ids : Retried(rows'[d])
    BY <1>1 DEF IInv, DueAgrees, Due, DeliveredWasReceived, Retried
  <1> QED
    BY <1>3, <1>4, <1>5, <1>6, <1>7, <1>8 DEF IInv

-------------------------------------------------------------------------------

\* The invariant is inductive.
THEOREM Invariance == Spec => []IInv
  <1>1. Init => IInv
    BY Initially, DispatcherAssumption
  <1>2. IInv /\ [Next]_vars => IInv'
    <2> SUFFICES ASSUME IInv, [Next]_vars PROVE IInv'
      OBVIOUS
    <2>1. ASSUME NEW h \in Hooks, CreateWebhook(h) \/ DeleteWebhook(h) PROVE IInv'
      BY <2>1, WebhookRequests
    <2>2. ASSUME NEW p \in Producers, \E e \in Events : AddEvent(p, e) PROVE IInv'
      BY <2>2, Reported
    <2>3. ASSUME NEW p \in Producers, \E e \in Events, h \in Hooks : TestWebhook(p, e, h)
          PROVE  IInv'
      BY <2>3, Reported
    <2>4. ASSUME NEW p \in Producers, Report(p) PROVE IInv'
      <3>1. CASE ListWebhooks(p)
        BY <3>1, Reported
      <3>2. ASSUME NEW h \in Hooks, QueueWebhookDelivery(p, h) PROVE IInv'
        BY <3>2, RowQueued, DispatcherAssumption
      <3>3. CASE Queued(p) \/ EnqueueFails(p)
        BY <3>3, Dismissed
      <3> QED
        BY <2>4, <3>1, <3>2, <3>3 DEF Report
    <2>5. ASSUME NEW d \in Ids, TimePasses(d) PROVE IInv'
      BY <2>5, TimePassed, DispatcherAssumption
    <2>6. CASE Dispatch
      BY <2>6, Ticked, Asked, OutcomeWritten, DispatcherAssumption DEF Dispatch
    <2>7. CASE Restart
      BY <2>7, Restarted
    <2>8. CASE UNCHANGED vars
      <3>1. UNCHANGED <<hooks, events, rows, due, prod, batch, disp, ok, boots, received, listed,
                        aborted>>
        BY <2>8 DEF vars
      <3>2. TypeOK'
        BY <3>1 DEF IInv, TypeOK
      <3>3. Reporting' /\ Queueing' /\ FannedOut'
        BY <3>1, ReportingKept DEF IInv
      <3> QED
        BY <3>1, <3>2, <3>3, TableKept DEF IInv
    <2> QED
      BY <2>1, <2>2, <2>3, <2>4, <2>5, <2>6, <2>7, <2>8 DEF Next
  <1> QED
    BY <1>1, <1>2, PTL DEF Spec

\* The type invariant, for every instance.
THEOREM TypeCorrect == Spec => []TypeOK
  <1>1. IInv => TypeOK
    BY DEF IInv
  <1> QED
    BY <1>1, Invariance, PTL

\* The rows that a tick can read are in one order, and they are the undelivered
\* ones whose time has come, whatever writes of the dispatcher have failed.
THEOREM QueueAgrees == Spec => []DueAgrees
  <1>1. IInv => DueAgrees
    BY DEF IInv
  <1> QED
    BY <1>1, Invariance, PTL

\* A crash between the answer and the row, a lost answer or a deleted endpoint
\* never makes a delivery out of a post that did not arrive.
THEOREM Delivered == Spec => []DeliveredWasReceived
  <1>1. IInv => DeliveredWasReceived
    BY DEF IInv
  <1> QED
    BY <1>1, Invariance, PTL

\* Nothing in the batch has been marked as delivered before, except the head whose
\* outcome is being written.
THEOREM SentOnce == Spec => []NoSendAfterDelivered
  <1>1. IInv => NoSendAfterDelivered
    BY DEF IInv, Batched, NoSendAfterDelivered
  <1> QED
    BY <1>1, Invariance, PTL

\* The limit on back-offs holds for every NormalAttempts.
THEOREM RetriesBounded == Spec => []NormalRetriesBounded
  <1>1. IInv => NormalRetriesBounded
    BY DEF IInv, Retried, NormalRetriesBounded
  <1> QED
    BY <1>1, Invariance, PTL

\* However many producers report at a time, and endpoints come and go, an event
\* has a row for each endpoint it was meant for, unless its Enqueue was cut short.
THEOREM FanOutComplete == Spec => []FannedOut
  <1>1. IInv => FannedOut
    BY DEF IInv
  <1> QED
    BY <1>1, Invariance, PTL
===============================================================================

--------------------- MODULE CloudflareConnectionsProofs ---------------------
(***************************************************************************)
(* Theorems about CloudflareConnections, for any connections, zones and    *)
(* requests, and any finite set of services.                               *)
(***************************************************************************)
EXTENDS CloudflareConnections, FiniteSetTheorems, TLAPS

\* A job names its service, and a publication has a connection.
Fit(j) ==
    /\ j \in Jobs
    /\ j.pc \notin {"asleep", "idle"} => \E s \in Services : j.service = {s}
    /\ j.pc \in {"client", "save", "run"} => j.copy # NoCopy

\* A request that writes a connection names one, with the zone it is to have.
RequestsFit ==
    \A r \in Requests :
        /\ req[r].pc # "idle" => req[r].conn \in Conns
        /\ req[r].pc = "upsert" => req[r].zone \in Zones

Typed == TypeOK /\ RequestsFit /\ \A t \in Threads : Fit(job[t])

\* All copies of a service's connection and zone that the program holds.
Held == {services[s] : s \in Services} \cup {job[t].copy : t \in Threads}
            \cup {copies[i][2] : i \in DOMAIN copies}

\* The zone of a connection never changes: one that is there, was there or is to
\* be written again has one zone, and every copy that names it says so.
ZoneFixed(c) ==
    \/ /\ conns[c] = "unborn"
       /\ \A h \in Held : h.conn # c
       /\ \A r \in Requests : req[r].pc # "idle" => req[r].conn # c
    \/ \E z \in Zones :
         /\ conns[c] \in {z, "deleted"}
         /\ \A h \in Held : h.conn = c => h.zone = z
         /\ \A r \in Requests : req[r].pc = "upsert" /\ req[r].conn = c => req[r].zone = z

ZonesFixed == \A c \in Conns : ZoneFixed(c)

IInv == Typed /\ ZonesFixed /\ OwnedHasConnection

-------------------------------------------------------------------------------
(* Jobs *)

LEMMA ThreadsAre == "handler" \in Threads /\ "restore" \in Threads
  BY DEF Threads

LEMMA NoCopyType == NoCopy \in Copies
  BY DEF NoCopy, Copies

LEMMA NoJobFits == Fit(NoJob)
  BY NoCopyType DEF Fit, NoJob, Jobs

LEMMA BootingFits == Booting \in [Threads -> Jobs] /\ \A t \in Threads : Fit(Booting[t])
  BY NoCopyType DEF Booting, NoJob, Fit, Jobs

LEMMA EnterFits ==
  ASSUME NEW s \in Services, NEW copy \in Copies, NEW start \in BOOLEAN,
         NEW step \in {"rows", "create", "delete", "client", "cleanup"},
         step = "client" => copy # NoCopy
  PROVE  Fit([pc |-> step, service |-> {s}, copy |-> copy, start |-> start])
  BY DEF Fit, Jobs

LEMMA StepFits ==
  ASSUME NEW j, Fit(j), j.pc \notin {"asleep", "idle"},
         NEW step \in {"update", "save", "run", "wipe"},
         step \in {"save", "run"} => j.pc \in {"client", "save"}
  PROVE  Fit([pc |-> step, service |-> j.service, copy |-> j.copy, start |-> j.start])
  BY DEF Fit, Jobs

LEMMA Replaced ==
  ASSUME Typed, NEW t \in Threads, NEW j, Fit(j), job' = [job EXCEPT ![t] = j]
  PROVE  job' \in [Threads -> Jobs] /\ \A u \in Threads : Fit(job'[u])
  BY DEF Typed, TypeOK, Fit

LEMMA Left ==
  ASSUME Typed, NEW t \in Threads, Leave(t)
  PROVE  job' \in [Threads -> Jobs] /\ \A u \in Threads : Fit(job'[u])
  BY NoJobFits, Replaced DEF Leave

LEMMA Entered ==
  ASSUME Typed, NEW t \in Threads, NEW s \in Services, NEW copy \in Copies,
         NEW step \in {"rows", "create", "delete", "cleanup"}, Enter(t, step, s, copy)
  PROVE  job' \in [Threads -> Jobs] /\ \A u \in Threads : Fit(job'[u])
  <1>1. Fit([pc |-> step, service |-> {s}, copy |-> copy, start |-> FALSE])
    BY EnterFits
  <1> QED
    BY <1>1, Replaced DEF Enter

LEMMA Stepped ==
  ASSUME Typed, NEW t \in Threads, job[t].pc \notin {"asleep", "idle"},
         NEW step \in {"update", "save", "run", "wipe"}, Step(t, step),
         step \in {"save", "run"} => job[t].pc \in {"client", "save"}
  PROVE  job' \in [Threads -> Jobs] /\ \A u \in Threads : Fit(job'[u])
  <1>1. Fit([pc |-> step, service |-> job[t].service, copy |-> job[t].copy,
             start |-> job[t].start])
    BY StepFits DEF Typed
  <1> QED
    BY <1>1, Replaced DEF Step

LEMMA OfService ==
  ASSUME Typed, NEW t \in Threads, job[t].pc \notin {"asleep", "idle"}
  PROVE  Of(t) \in Services
  <1>1. \E s \in Services : job[t].service = {s}
    BY DEF Typed, Fit
  <1> QED
    BY <1>1 DEF Of

-------------------------------------------------------------------------------
(* Types *)

\* A step that leaves the requests and the connections alone.
LEMMA TypedWithJobs ==
  ASSUME Typed, UNCHANGED <<conns, req>>, boots' \in Nat,
         services' \in [Services -> Copies \cup Absent],
         enabled' \subseteq {s \in Services : services'[s] \in Copies},
         owned' \subseteq Conns \X Services,
         running' \subseteq Services,
         job' \in [Threads -> Jobs], \A t \in Threads : Fit(job'[t]),
         copies' \in Seq(Services \X Copies)
  PROVE  Typed'
  BY DEF Typed, TypeOK, RequestsFit

LEMMA ConnectionTyped == Typed /\ Connection => Typed'
  <1> SUFFICES ASSUME Typed, Connection PROVE Typed'
    OBVIOUS
  <1> USE DEF Typed, TypeOK, RequestsFit, serviceVars
  <1>1. ASSUME NEW c \in Conns, NEW z \in Zones, CreateConnection(c, z) PROVE Typed'
    BY <1>1 DEF CreateConnection
  <1>2. ASSUME NEW r \in Requests, NEW c \in Conns, NEW z \in Zones, ReadConnection(r, c, z)
        PROVE  Typed'
    BY <1>2 DEF ReadConnection
  <1>3. ASSUME NEW r \in Requests, NEW c \in Conns, CountUses(r, c) PROVE Typed'
    BY <1>3 DEF CountUses
  <1>4. ASSUME NEW r \in Requests, UpsertConnection(r) PROVE Typed'
    BY <1>4 DEF UpsertConnection, NoRequest
  <1>5. ASSUME NEW r \in Requests, DeleteConnection(r) PROVE Typed'
    BY <1>5 DEF DeleteConnection, NoRequest
  <1> QED
    BY <1>1, <1>2, <1>3, <1>4, <1>5 DEF Connection

LEMMA HandlerTyped == Typed /\ Handler => Typed'
  <1> SUFFICES ASSUME Typed, Handler PROVE Typed'
    OBVIOUS
  <1> USE ThreadsAre
  <1>0. /\ services \in [Services -> Copies \cup Absent] /\ boots \in Nat
        /\ enabled \subseteq {s \in Services : services[s] \in Copies}
        /\ owned \subseteq Conns \X Services /\ running \subseteq Services
        /\ job \in [Threads -> Jobs] /\ \A t \in Threads : Fit(job[t])
        /\ copies \in Seq(Services \X Copies)
    BY DEF Typed, TypeOK
  <1>1. ASSUME NEW s \in Services, NEW copy \in Copies, CreateService(s, copy) PROVE Typed'
    BY <1>0, <1>1, Entered, TypedWithJobs DEF CreateService
  <1>2. ASSUME NEW s \in Services, NEW copy \in Copies, UpdateService(s, copy) PROVE Typed'
    BY <1>0, <1>2, Entered, TypedWithJobs DEF UpdateService
  <1>3. ASSUME NEW s \in Services, DeleteService(s) PROVE Typed'
    BY <1>0, <1>3, Entered, NoCopyType, TypedWithJobs DEF DeleteService
  <1>4. ASSUME NEW s \in Services, StopService(s) PROVE Typed'
    BY <1>0, <1>4, TypedWithJobs DEF StopService
  <1>5. ASSUME NEW s \in Services, CleanupService(s) PROVE Typed'
    BY <1>0, <1>5, Entered, TypedWithJobs DEF CleanupService, Exists
  <1>6. ASSUME NEW s \in Services, NEW start \in BOOLEAN, SyncService(s, start) PROVE Typed'
    <2>1. Fit([pc |-> "client", service |-> {s}, copy |-> services[s], start |-> start])
      BY <1>6, EnterFits DEF SyncService, Enterable, Exists
    <2> QED
      BY <1>0, <1>6, <2>1, Replaced, TypedWithJobs DEF SyncService, Enterable
  <1>7. CASE UpdateCheck
    BY <1>0, <1>7, Left, Stepped, TypedWithJobs DEF UpdateCheck
  <1>8. CASE WriteService
    <2>1. Of("handler") \in Services /\ job["handler"].copy \in Copies
      BY <1>0, <1>8, OfService DEF WriteService, Jobs
    <2>2. job' \in [Threads -> Jobs] /\ \A t \in Threads : Fit(job'[t])
      BY <1>8, Left DEF WriteService
    <2>3. /\ services' \in [Services -> Copies \cup Absent]
          /\ enabled' \subseteq {s \in Services : services'[s] \in Copies}
      BY <1>0, <1>8, <2>1 DEF WriteService
    <2> QED
      BY <1>0, <1>8, <2>2, <2>3, TypedWithJobs DEF WriteService
  <1>9. CASE WriteDelete
    <2>1. Of("handler") \in Services /\ [conn |-> None, zone |-> "deleted"] \in Absent
      BY <1>0, <1>9, OfService DEF WriteDelete, Absent
    <2>2. job' \in [Threads -> Jobs] /\ \A t \in Threads : Fit(job'[t])
      BY <1>9, Left DEF WriteDelete
    <2>3. /\ services' \in [Services -> Copies \cup Absent]
          /\ enabled' \subseteq {s \in Services : services'[s] \in Copies}
      BY <1>0, <1>9, <2>1 DEF WriteDelete
    <2> QED
      BY <1>0, <1>9, <2>2, <2>3, TypedWithJobs DEF WriteDelete
  <1>10. CASE CleanupLock
    BY <1>0, <1>10, Left, Stepped, TypedWithJobs DEF CleanupLock
  <1>11. CASE CleanupRows
    BY <1>0, <1>11, Left, TypedWithJobs DEF CleanupRows
  <1> QED
    BY <1>1, <1>2, <1>3, <1>4, <1>5, <1>6, <1>7, <1>8, <1>9, <1>10, <1>11 DEF Handler

LEMMA PublishTyped == ASSUME Typed, NEW t \in Threads, Publish(t) PROVE Typed'
  <1>0. /\ services \in [Services -> Copies \cup Absent] /\ boots \in Nat
        /\ enabled \subseteq {s \in Services : services[s] \in Copies}
        /\ owned \subseteq Conns \X Services /\ running \subseteq Services
        /\ job \in [Threads -> Jobs] /\ \A u \in Threads : Fit(job[u])
        /\ copies \in Seq(Services \X Copies)
    BY DEF Typed, TypeOK
  <1>1. Of(t) \in Services /\ job[t].copy.conn \in Conns
    <2>1. job[t].pc \in {"client", "save", "run"}
      BY DEF Publish, ClientFor, SaveResource, RunConnector
    <2> QED
      BY <1>0, <2>1, OfService DEF Fit, Jobs, Copies, NoCopy
  <1>2. ASSUME Fails(t)
        PROVE  /\ job' \in [Threads -> Jobs] /\ \A u \in Threads : Fit(job'[u])
               /\ enabled' \subseteq {s \in Services : services[s] \in Copies}
    BY <1>0, <1>1, <1>2, Left DEF Fails, Exists
  <1>3. CASE ClientFor(t)
    BY <1>0, <1>2, <1>3, Stepped, TypedWithJobs DEF ClientFor
  <1>4. CASE SaveResource(t)
    BY <1>0, <1>1, <1>2, <1>4, Left, Stepped, TypedWithJobs DEF SaveResource
  <1>5. CASE RunConnector(t)
    BY <1>0, <1>1, <1>2, <1>5, Left, TypedWithJobs DEF RunConnector, Exists
  <1> QED
    BY <1>3, <1>4, <1>5 DEF Publish

LEMMA BackgroundTyped ==
  ASSUME Typed,
         (\E s \in Services : WaitReturns(s)) \/ RestoreSnapshot \/ RestoreNext \/ Restart
  PROVE  Typed'
  <1> USE ThreadsAre
  <1>0. /\ services \in [Services -> Copies \cup Absent] /\ boots \in Nat
        /\ enabled \subseteq {s \in Services : services[s] \in Copies}
        /\ owned \subseteq Conns \X Services /\ running \subseteq Services
        /\ job \in [Threads -> Jobs] /\ \A t \in Threads : Fit(job[t])
        /\ copies \in Seq(Services \X Copies)
    BY DEF Typed, TypeOK
  <1>1. ASSUME NEW s \in Services, WaitReturns(s) PROVE Typed'
    BY <1>0, <1>1, TypedWithJobs DEF WaitReturns, Exists
  <1>2. CASE RestoreSnapshot
    <2>1. Cardinality(enabled) \in Nat
      BY <1>0, ConnectionsAssumption, FS_Subset, FS_CardinalityType
    <2>2. PICK order \in SetToSeqs(enabled) :
            copies' = [i \in DOMAIN order |-> <<order[i], services[order[i]]>>]
      BY <1>2 DEF RestoreSnapshot
    <2>3. order \in [1..Cardinality(enabled) -> enabled]
      BY DEF SetToSeqs
    <2>4. \A i \in DOMAIN order : <<order[i], services[order[i]]>> \in Services \X Copies
      BY <1>0, <2>3
    <2>5. copies' \in Seq(Services \X Copies)
      BY <2>1, <2>2, <2>3, <2>4
    <2> QED
      BY <1>0, <1>2, <2>5, Left, TypedWithJobs DEF RestoreSnapshot
  <1>3. CASE RestoreNext
    <2>1. Head(copies) \in Services \X Copies /\ copies' \in Seq(Services \X Copies)
      BY <1>0, <1>3 DEF RestoreNext
    <2>2. job' \in [Threads -> Jobs] /\ \A t \in Threads : Fit(job'[t])
      <3>1. CASE Head(copies)[1] \in running \/ Head(copies)[2] = NoCopy
        BY <1>0, <1>3, <3>1 DEF RestoreNext
      <3>2. CASE ~(Head(copies)[1] \in running \/ Head(copies)[2] = NoCopy)
        <4>1. Fit([pc |-> "client", service |-> {Head(copies)[1]},
                   copy |-> Head(copies)[2], start |-> TRUE])
          BY <2>1, <3>2, EnterFits
        <4> QED
          BY <1>3, <3>2, <4>1, Replaced DEF RestoreNext, Enterable
      <3> QED
        BY <3>1, <3>2
    <2> QED
      BY <1>0, <1>3, <2>1, <2>2, TypedWithJobs DEF RestoreNext
  <1>4. CASE Restart
    <2>1. <<>> \in Seq(Services \X Copies)
      OBVIOUS
    <2> QED
      BY <1>4, <2>1, BootingFits
      DEF Restart, Typed, TypeOK, RequestsFit, NoRequest
  <1> QED
    BY <1>1, <1>2, <1>3, <1>4

LEMMA TypedStep == Typed /\ [Next]_vars => Typed'
  <1> SUFFICES ASSUME Typed, [Next]_vars PROVE Typed'
    OBVIOUS
  <1>1. CASE UNCHANGED vars
    BY <1>1 DEF vars, Typed, TypeOK, RequestsFit
  <1> QED
    BY <1>1, ConnectionTyped, HandlerTyped, PublishTyped, BackgroundTyped DEF Next

-------------------------------------------------------------------------------
(* Zones *)

\* A copy that is taken anew names no connection, or has just been compared with it.
Fresh == {h \in Copies \cup Absent : h.conn = None \/ conns[h.conn] = h.zone}

LEMMA NoneIsFresh == NoCopy \in Fresh /\ Absent \subseteq Fresh
  BY DEF Fresh, NoCopy, Copies, Absent

LEMMA FreshHasZone ==
  ASSUME NEW h \in Fresh, h.conn \in Conns
  PROVE  h.zone \in Zones /\ conns[h.conn] = h.zone
  BY ConnectionsAssumption DEF Fresh, Copies, Absent

\* New copies come from old ones.
LEMMA HeldFrom ==
  ASSUME \A s \in Services : services'[s] \in Held \cup Fresh,
         \A t \in Threads : job'[t].copy \in Held \cup Fresh,
         \A i \in DOMAIN copies' : copies'[i][2] \in Held \cup Fresh
  PROVE  Held' \subseteq Held \cup Fresh
  BY DEF Held

LEMMA AreHeld ==
  /\ \A s \in Services : services[s] \in Held
  /\ \A t \in Threads : job[t].copy \in Held
  /\ \A i \in DOMAIN copies : copies[i][2] \in Held
  BY DEF Held

\* Such a step keeps the zones if it leaves connections alone and begins no request.
LEMMA ZonesKept ==
  ASSUME ZonesFixed, UNCHANGED conns, Held' \subseteq Held \cup Fresh,
         \A r \in Requests : req'[r] = req[r] \/ req'[r].pc = "idle"
  PROVE  ZonesFixed'
  <1> SUFFICES ASSUME NEW c \in Conns PROVE ZoneFixed(c)'
    BY DEF ZonesFixed
  <1>1. ZoneFixed(c)
    BY DEF ZonesFixed
  <1>2. CASE conns[c] = "unborn"
    <2>1. ASSUME NEW z \in Zones PROVE conns[c] \notin {z, "deleted"}
      BY <1>2, ConnectionsAssumption
    <2>2. /\ \A h \in Held : h.conn # c
          /\ \A r \in Requests : req[r].pc # "idle" => req[r].conn # c
      BY <1>1, <2>1 DEF ZoneFixed
    <2>3. \A h \in Fresh : h.conn # c
      BY <1>2, FreshHasZone, ConnectionsAssumption
    <2> QED
      BY <1>2, <2>2, <2>3 DEF ZoneFixed
  <1>3. CASE conns[c] # "unborn"
    <2>1. PICK z \in Zones :
            /\ conns[c] \in {z, "deleted"}
            /\ \A h \in Held : h.conn = c => h.zone = z
            /\ \A r \in Requests : req[r].pc = "upsert" /\ req[r].conn = c => req[r].zone = z
      BY <1>1, <1>3 DEF ZoneFixed
    <2>2. \A h \in Fresh : h.conn = c => h.zone = z
      BY <2>1, FreshHasZone, ConnectionsAssumption
    <2> QED
      BY <2>1, <2>2 DEF ZoneFixed
  <1> QED
    BY <1>2, <1>3

LEMMA ConnectionZones == Typed /\ ZonesFixed /\ Connection => ZonesFixed'
  <1> SUFFICES ASSUME Typed, ZonesFixed, Connection, NEW c \in Conns PROVE ZoneFixed(c)'
    BY DEF ZonesFixed
  <1>1. ZoneFixed(c) /\ Held' = Held
    BY DEF ZonesFixed, Connection, CreateConnection, ReadConnection, CountUses,
           UpsertConnection, DeleteConnection, serviceVars, Held
  <1>2. ASSUME NEW d \in Conns, NEW z \in Zones, CreateConnection(d, z) PROVE ZoneFixed(c)'
    <2>1. conns \in [Conns -> Zones \cup {"unborn", "deleted"}] /\ conns[d] = "unborn"
          /\ conns' = [conns EXCEPT ![d] = z] /\ req' = req
      BY <1>2 DEF CreateConnection, Typed, TypeOK
    <2>2. CASE c = d
      <3>1. /\ \A h \in Held : h.conn # c
            /\ \A r \in Requests : req[r].pc # "idle" => req[r].conn # c
        BY <1>1, <2>1, <2>2, ConnectionsAssumption DEF ZoneFixed
      <3> QED
        BY <1>1, <2>1, <2>2, <3>1 DEF ZoneFixed
    <2>3. CASE c # d
      BY <1>1, <2>1, <2>3 DEF ZoneFixed
    <2> QED
      BY <2>2, <2>3
  <1>3. ASSUME NEW r \in Requests, NEW d \in Conns, NEW z \in Zones, ReadConnection(r, d, z)
        PROVE  ZoneFixed(c)'
    <2>1. /\ conns[d] = z /\ conns' = conns
          /\ \A q \in Requests : q # r => req'[q] = req[q]
          /\ req'[r] = [pc |-> "upsert", conn |-> d, zone |-> z]
      BY <1>3 DEF ReadConnection, Typed, TypeOK
    <2>2. CASE c = d
      <3>1. PICK x \in Zones :
              /\ conns[c] \in {x, "deleted"}
              /\ \A h \in Held : h.conn = c => h.zone = x
              /\ \A q \in Requests : req[q].pc = "upsert" /\ req[q].conn = c => req[q].zone = x
        BY <1>1, <2>1, <2>2, ConnectionsAssumption DEF ZoneFixed
      <3>2. x = z
        BY <2>1, <2>2, <3>1, ConnectionsAssumption
      <3> QED
        BY <1>1, <2>1, <3>1, <3>2 DEF ZoneFixed
    <2>3. CASE c # d
      <3>1. \A q \in Requests : req'[q].conn = c => req'[q] = req[q]
        BY <2>1, <2>3
      <3> QED
        BY <1>1, <2>1, <3>1 DEF ZoneFixed
    <2> QED
      BY <2>2, <2>3
  <1>4. ASSUME NEW r \in Requests, NEW d \in Conns, CountUses(r, d) PROVE ZoneFixed(c)'
    <2>1. /\ conns[d] \in Zones /\ conns' = conns
          /\ \A q \in Requests : q # r => req'[q] = req[q]
          /\ req'[r] = [pc |-> "delete", conn |-> d, zone |-> None]
      BY <1>4 DEF CountUses, Typed, TypeOK
    <2>2. conns[c] = "unborn" => c # d
      BY <2>1, ConnectionsAssumption
    <2>3. \A q \in Requests :
            \/ req'[q] = req[q]
            \/ req'[q].pc = "delete" /\ (conns[c] = "unborn" => req'[q].conn # c)
      BY <2>1, <2>2
    <2> QED
      BY <1>1, <2>1, <2>3 DEF ZoneFixed
  <1>5. ASSUME NEW r \in Requests, UpsertConnection(r) PROVE ZoneFixed(c)'
    <2>1. /\ \A q \in Requests : q # r => req'[q] = req[q]
          /\ req'[r].pc = "idle" /\ req[r].pc = "upsert"
          /\ req[r].conn \in Conns /\ req[r].zone \in Zones
          /\ conns \in [Conns -> Zones \cup {"unborn", "deleted"}]
          /\ conns' = conns \/ conns' = [conns EXCEPT ![req[r].conn] = req[r].zone]
      BY <1>5 DEF UpsertConnection, NoRequest, Typed, TypeOK, RequestsFit
    <2>2. \A q \in Requests : req'[q].pc # "idle" => req'[q] = req[q]
      BY <2>1
    <2>3. CASE conns' = conns \/ req[r].conn # c
      <3>1. conns'[c] = conns[c]
        BY <2>1, <2>3
      <3>2. \A q \in Requests : req'[q].pc = "upsert" => req'[q] = req[q]
        BY <2>2
      <3> QED
        BY <1>1, <2>2, <3>1, <3>2 DEF ZoneFixed
    <2>4. CASE conns' = [conns EXCEPT ![req[r].conn] = req[r].zone] /\ req[r].conn = c
      <3>1. conns'[c] = req[r].zone
        BY <2>1, <2>4
      <3>2. /\ \A h \in Held : h.conn = c => h.zone = req[r].zone
            /\ \A q \in Requests : req[q].pc = "upsert" /\ req[q].conn = c
                                     => req[q].zone = req[r].zone
        BY <1>1, <2>1, <2>4 DEF ZoneFixed
      <3>3. \A q \in Requests : req'[q].pc = "upsert" /\ req'[q].conn = c
                                  => req'[q].zone = req[r].zone
        BY <2>2, <3>2
      <3> QED
        BY <1>1, <2>1, <3>1, <3>2, <3>3 DEF ZoneFixed
    <2> QED
      BY <2>1, <2>3, <2>4
  <1>6. ASSUME NEW r \in Requests, DeleteConnection(r) PROVE ZoneFixed(c)'
    <2>1. /\ \A q \in Requests : q # r => req'[q] = req[q]
          /\ req'[r].pc = "idle" /\ req[r].pc = "delete" /\ req[r].conn \in Conns
          /\ conns \in [Conns -> Zones \cup {"unborn", "deleted"}]
          /\ conns' = conns \/ conns' = [conns EXCEPT ![req[r].conn] = "deleted"]
      BY <1>6 DEF DeleteConnection, NoRequest, Typed, TypeOK, RequestsFit
    <2>2. \A q \in Requests : req'[q].pc # "idle" => req'[q] = req[q]
      BY <2>1
    <2>3. conns[c] = "unborn" /\ ZoneFixed(c) => req[r].conn # c
      BY <2>1, ConnectionsAssumption DEF ZoneFixed
    <2>4. conns'[c] = conns[c] \/ (conns[c] # "unborn" /\ conns'[c] = "deleted")
      BY <1>1, <2>1, <2>3
    <2>5. \A q \in Requests : req'[q].pc = "upsert" => req'[q] = req[q]
      BY <2>2
    <2> QED
      BY <1>1, <2>2, <2>4, <2>5 DEF ZoneFixed
  <1> QED
    BY <1>2, <1>3, <1>4, <1>5, <1>6 DEF Connection

\* How a job's copy changes.
LEMMA LeaveHeld ==
  ASSUME job \in [Threads -> Jobs], NEW t \in Threads, Leave(t)
  PROVE  \A u \in Threads : job'[u].copy \in Held \cup Fresh
  BY AreHeld, NoneIsFresh DEF Leave, NoJob

LEMMA StepHeld ==
  ASSUME job \in [Threads -> Jobs], NEW t \in Threads, NEW step, Step(t, step)
  PROVE  \A u \in Threads : job'[u].copy \in Held \cup Fresh
  BY AreHeld DEF Step

LEMMA EnterHeld ==
  ASSUME job \in [Threads -> Jobs], NEW t \in Threads, NEW step, NEW s,
         NEW copy \in Held \cup Fresh, Enter(t, step, s, copy)
  PROVE  \A u \in Threads : job'[u].copy \in Held \cup Fresh
  BY AreHeld DEF Enter

LEMMA HandlerZones == Typed /\ ZonesFixed /\ Handler => ZonesFixed'
  <1> SUFFICES ASSUME Typed, ZonesFixed, Handler PROVE ZonesFixed'
    OBVIOUS
  <1> USE AreHeld, NoneIsFresh, ThreadsAre
  <1>0. /\ services \in [Services -> Copies \cup Absent]
        /\ job \in [Threads -> Jobs]
    BY DEF Typed, TypeOK
  <1>1. \A s \in Services : services'[s] \in Held \cup Fresh
    <2>1. CASE WriteService
      BY <1>0, <2>1 DEF WriteService
    <2>2. CASE WriteDelete
      BY <1>0, <2>2 DEF WriteDelete, Absent
    <2>3. CASE ~WriteService /\ ~WriteDelete
      <3>1. services' = services
        BY <2>3 DEF Handler, CreateService, UpdateService, DeleteService, StopService,
                    CleanupService, SyncService, UpdateCheck, CleanupLock, CleanupRows
      <3> QED
        BY <3>1
    <2> QED
      BY <2>1, <2>2, <2>3
  <1>2. \A t \in Threads : job'[t].copy \in Held \cup Fresh
    <2>1. ASSUME NEW s \in Services, NEW copy \in Copies,
                 CreateService(s, copy) \/ UpdateService(s, copy)
          PROVE  \A t \in Threads : job'[t].copy \in Held \cup Fresh
      <3>1. copy \in Fresh
        BY <2>1 DEF CreateService, UpdateService, Acceptable, Fresh
      <3> QED
        BY <1>0, <2>1, <3>1, EnterHeld DEF CreateService, UpdateService
    <2>2. ASSUME NEW s \in Services, DeleteService(s) \/ CleanupService(s)
          PROVE  \A t \in Threads : job'[t].copy \in Held \cup Fresh
      BY <1>0, <2>2, EnterHeld DEF DeleteService, CleanupService
    <2>3. ASSUME NEW s \in Services, StopService(s)
          PROVE  \A t \in Threads : job'[t].copy \in Held \cup Fresh
      BY <1>0, <2>3 DEF StopService
    <2>4. ASSUME NEW s \in Services, NEW start \in BOOLEAN, SyncService(s, start)
          PROVE  \A t \in Threads : job'[t].copy \in Held \cup Fresh
      BY <1>0, <2>4 DEF SyncService, Enterable
    <2>5. CASE UpdateCheck \/ WriteService \/ WriteDelete \/ CleanupLock \/ CleanupRows
      BY <1>0, <2>5, LeaveHeld, StepHeld
      DEF UpdateCheck, WriteService, WriteDelete, CleanupLock, CleanupRows
    <2> QED
      BY <2>1, <2>2, <2>3, <2>4, <2>5 DEF Handler
  <1>3. UNCHANGED <<conns, copies, req>>
    BY DEF Handler, CreateService, UpdateService, DeleteService, StopService, CleanupService,
           SyncService, UpdateCheck, CleanupLock, CleanupRows, WriteService, WriteDelete
  <1>4. Held' \subseteq Held \cup Fresh
    BY <1>1, <1>2, <1>3, HeldFrom
  <1> QED
    BY <1>3, <1>4, ZonesKept

LEMMA OthersZones ==
  ASSUME Typed, ZonesFixed,
         \/ \E t \in Threads : Publish(t)
         \/ \E s \in Services : WaitReturns(s)
         \/ RestoreSnapshot \/ RestoreNext \/ Restart
         \/ UNCHANGED vars
  PROVE  ZonesFixed'
  <1> USE AreHeld, NoneIsFresh, ThreadsAre
  <1>0. /\ services \in [Services -> Copies \cup Absent]
        /\ job \in [Threads -> Jobs]
        /\ copies \in Seq(Services \X Copies)
        /\ enabled \subseteq Services
    BY DEF Typed, TypeOK
  <1>1. /\ UNCHANGED <<conns, services>>
        /\ \A r \in Requests : req'[r] = req[r] \/ req'[r].pc = "idle"
    <2>1. CASE Restart
      BY <2>1 DEF Restart, NoRequest
    <2>2. CASE ~Restart
      <3>1. UNCHANGED <<conns, services, req>>
        BY <2>2 DEF Publish, ClientFor, SaveResource, RunConnector, WaitReturns,
                    RestoreSnapshot, RestoreNext, vars
      <3> QED
        BY <3>1
    <2> QED
      BY <2>1, <2>2
  <1>2. \A t \in Threads : job'[t].copy \in Held \cup Fresh
    <2>1. ASSUME NEW t \in Threads, Publish(t)
          PROVE  \A u \in Threads : job'[u].copy \in Held \cup Fresh
      <3>1. \/ Leave(t)
            \/ Step(t, "save")
            \/ Step(t, "run")
        BY <2>1 DEF Publish, ClientFor, SaveResource, RunConnector, Fails
      <3> QED
        BY <1>0, <3>1, LeaveHeld, StepHeld
    <2>2. CASE (\E s \in Services : WaitReturns(s)) \/ UNCHANGED vars
      BY <2>2 DEF WaitReturns, vars
    <2>3. CASE RestoreSnapshot
      BY <1>0, <2>3, LeaveHeld DEF RestoreSnapshot
    <2>4. CASE RestoreNext
      <3>1. Head(copies)[2] \in Held
        BY <1>0, <2>4 DEF RestoreNext
      <3>2. \/ job' = job
            \/ Enterable("restore", Head(copies)[1], Head(copies)[2], TRUE)
        BY <2>4 DEF RestoreNext
      <3>3. CASE Enterable("restore", Head(copies)[1], Head(copies)[2], TRUE)
        <4>1. job' = [job EXCEPT !["restore"] = [pc |-> "client", service |-> {Head(copies)[1]},
                                                 copy |-> Head(copies)[2], start |-> TRUE]]
          BY <3>3 DEF Enterable
        <4> QED
          BY <1>0, <3>1, <4>1
      <3> QED
        BY <3>2, <3>3
    <2>5. CASE Restart
      BY <2>5 DEF Restart, Booting, NoJob
    <2> QED
      BY <2>1, <2>2, <2>3, <2>4, <2>5
  <1>3. \A i \in DOMAIN copies' : copies'[i][2] \in Held \cup Fresh
    <2>1. CASE RestoreSnapshot
      <3>1. PICK order \in SetToSeqs(enabled) :
              copies' = [i \in DOMAIN order |-> <<order[i], services[order[i]]>>]
        BY <2>1 DEF RestoreSnapshot
      <3>2. \A i \in DOMAIN order : order[i] \in Services
        BY <1>0 DEF SetToSeqs
      <3> QED
        BY <3>1, <3>2
    <2>2. CASE RestoreNext
      <3>1. copies' = Tail(copies) /\ copies # <<>>
        BY <2>2 DEF RestoreNext
      <3>2. \A i \in DOMAIN copies' : i + 1 \in DOMAIN copies /\ copies'[i] = copies[i + 1]
        BY <1>0, <3>1
      <3> QED
        BY <3>2
    <2>3. CASE Restart
      BY <2>3 DEF Restart
    <2>4. CASE (\E t \in Threads : Publish(t)) \/ (\E s \in Services : WaitReturns(s))
               \/ UNCHANGED vars
      BY <2>4 DEF Publish, ClientFor, SaveResource, RunConnector, WaitReturns, vars
    <2> QED
      BY <2>1, <2>2, <2>3, <2>4
  <1>4. Held' \subseteq Held \cup Fresh
    BY <1>1, <1>2, <1>3, HeldFrom
  <1> QED
    BY <1>1, <1>4, ZonesKept

-------------------------------------------------------------------------------
(* Ownership *)

LEMMA OwnedStep == Typed /\ OwnedHasConnection /\ [Next]_vars => OwnedHasConnection'
  <1> SUFFICES ASSUME Typed, OwnedHasConnection, [Next]_vars,
                      NEW s \in Services, NEW c \in Conns, Owns(s, c)'
               PROVE  conns'[c] \in Zones
    BY DEF OwnedHasConnection
  <1>0. conns \in [Conns -> Zones \cup {"unborn", "deleted"}]
    BY DEF Typed, TypeOK
  <1>1. CASE Owns(s, c)
    <2>1. conns[c] \in Zones
      BY <1>1 DEF OwnedHasConnection
    <2>2. ASSUME NEW d \in Conns, NEW z \in Zones, CreateConnection(d, z)
          PROVE  conns'[c] \in Zones
      BY <1>0, <2>1, <2>2 DEF CreateConnection
    <2>3. ASSUME NEW r \in Requests, UpsertConnection(r) PROVE conns'[c] \in Zones
      BY <1>0, <2>1, <2>3 DEF UpsertConnection, Typed, RequestsFit
    <2>4. ASSUME NEW r \in Requests, DeleteConnection(r) PROVE conns'[c] \in Zones
      BY <1>0, <1>1, <2>1, <2>4 DEF DeleteConnection
    <2>5. CASE conns' = conns
      BY <2>1, <2>5
    <2>6. \/ conns' = conns
          \/ \E d \in Conns, z \in Zones : CreateConnection(d, z)
          \/ \E r \in Requests : UpsertConnection(r) \/ DeleteConnection(r)
      BY DEF Next, Connection, ReadConnection, CountUses, Handler, CreateService,
             UpdateService, DeleteService, StopService, CleanupService, SyncService,
             UpdateCheck, CleanupLock, CleanupRows, WriteService, WriteDelete, Publish,
             ClientFor, SaveResource, RunConnector, WaitReturns, RestoreSnapshot,
             RestoreNext, Restart, vars
    <2> QED
      BY <2>2, <2>3, <2>4, <2>5, <2>6
  <1>2. CASE ~Owns(s, c)
    <2>1. PICK t \in Threads : SaveResource(t)
      BY <1>2 DEF Owns, Next, Connection, CreateConnection, UpsertConnection,
             DeleteConnection, serviceVars, ReadConnection, CountUses, Handler,
             CreateService, UpdateService, DeleteService, StopService, CleanupService,
             SyncService, UpdateCheck, CleanupLock, CleanupRows, WriteService, WriteDelete,
             Publish, ClientFor, RunConnector, WaitReturns, RestoreSnapshot, RestoreNext,
             Restart, vars
    <2> QED
      BY <1>2, <2>1 DEF SaveResource, Owns
  <1> QED
    BY <1>1, <1>2

-------------------------------------------------------------------------------
(* Theorems *)

LEMMA InitIInv == Init => IInv
  <1> SUFFICES ASSUME Init PROVE IInv
    OBVIOUS
  <1>1. Typed
    <2>1. <<>> \in Seq(Services \X Copies) /\ [conn |-> None, zone |-> "unborn"] \in Absent
      BY DEF Absent
    <2> QED
      BY <2>1, BootingFits DEF Init, Typed, TypeOK, RequestsFit, NoRequest
  <1>2. \A h \in Held : h.conn = None
    BY DEF Init, Held, Booting, NoJob, NoCopy
  <1>3. ZonesFixed
    BY <1>2, ConnectionsAssumption DEF Init, ZonesFixed, ZoneFixed, NoRequest
  <1>4. OwnedHasConnection
    BY DEF Init, OwnedHasConnection, Owns
  <1> QED
    BY <1>1, <1>3, <1>4 DEF IInv

\* The inductive invariant holds over every interleaving of requests, handlers,
\* the restore goroutine and restarts.
THEOREM Invariance == Spec => []IInv
  <1>1. IInv /\ [Next]_vars => IInv'
    BY TypedStep, ConnectionZones, HandlerZones, OthersZones, OwnedStep DEF IInv, Next
  <1> QED
    BY <1>1, InitIInv, PTL DEF Spec

\* Every variable has its type; a service that is enabled has a row.
THEOREM TypeCorrect == Spec => []TypeOK
  <1>1. IInv => TypeOK
    BY DEF IInv, Typed
  <1> QED
    BY <1>1, Invariance, PTL

\* A service's host name is in the zone of its connection, for as long as that is
\* there and whenever an update brings it back.
THEOREM HostsInZones == Spec => []HostInItsZone
  <1>1. IInv => HostInItsZone
    <2> SUFFICES ASSUME IInv, NEW s \in Services, Exists(s), services[s] # NoCopy
                 PROVE  conns[services[s].conn] \in {services[s].zone, "deleted"}
      BY DEF HostInItsZone
    <2>1. services[s] \in Held /\ services[s].conn \in Conns
      BY AreHeld DEF Exists, Copies, NoCopy
    <2> QED
      BY <2>1 DEF IInv, ZonesFixed, ZoneFixed
  <1> QED
    BY <1>1, Invariance, PTL

\* What is owned at Cloudflare keeps the connection that its removal needs.
THEOREM OwnedReachable == Spec => []OwnedHasConnection
  <1>1. IInv => OwnedHasConnection
    BY DEF IInv
  <1> QED
    BY <1>1, Invariance, PTL
==============================================================================

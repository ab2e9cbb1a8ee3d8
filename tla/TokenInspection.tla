---------------------------- MODULE TokenInspection ----------------------------
(***************************************************************************)
(* What an API token can do: Client.Inspect of                             *)
(* internal/cloudflare/capabilities.go.  After the zone it reads the       *)
(* token's own policies and one listing per product, in goroutines of      *)
(* their own, and concludes from the answers which products can be used    *)
(* and whether a host name can be put behind Access.                       *)
(*                                                                         *)
(* The owner of the token may edit it meanwhile, or activate a product.    *)
(* The products that are read and judged in the same way stand for each    *)
(* other: worker_routes for redirect and spectrum, tunnel for workers and  *)
(* private_network.  One host name stands for all of them; its records are *)
(* read with dns and the Access applications that cover it with access.    *)
(***************************************************************************)
EXTENDS Naturals, FiniteSets, Sequences, SequencesExt

CONSTANTS
    Tokens,     \* what a token can be: its owner and its policies
    Plans,      \* what can be activated: pairs of a product and its level
    RecordSets, \* the records of the host name: whether each is proxied
    MaxEdits    \* bound: edits of token and plan during one inspection

Products == {"dns", "worker_routes", "tunnel", "access"}

Scopes == {"accounts", "zones"}

Rights == {"read", "write"}

\* The keys of a policy's resources: an account or a zone, by its identifier or
\* all of them.
ResourceKeys == {"account", "account.*", "other account", "zone", "zone.*", "other zone"}

\* The value of a key: everything, something unknown, or the keys below it.
Leaves == [key : ResourceKeys, value : {"*", "other"}]

Resources == [key : ResourceKeys, value : {"*", "other", "nested"}, nested : SUBSET Leaves]

Policies == [effect : {"allow", "deny"}, resources : SUBSET Resources,
             groups : SUBSET (Products \X Rights)]

ASSUME TokenAssumption ==
    /\ \A t \in Tokens : t.account \in BOOLEAN /\ t.policies \subseteq Policies
    /\ Plans \subseteq SUBSET (Products \X Scopes)
    /\ \A s \in RecordSets : s \in Seq(BOOLEAN)
    /\ MaxEdits \in Nat

VARIABLES
    token,    \* the token as Cloudflare has it
    plan,     \* what is activated, for the account and for the zone
    edits,    \* edits so far
    state,    \* Inspect: idle, zone, reading, done or failed
    zone,     \* the zone: is its account named, is it active, may dns be edited
    pending,  \* goroutines that have not answered
    details,  \* the policies read, or none
    err,      \* what each listing has returned: none or the kind of its error
    scope,    \* where the Access applications are read
    records,  \* the records of the host name
    covered,  \* an Access application that was read covers it
    history   \* rights the token has had and lacked, and what has not been
              \* activated, since Inspect began

vars == <<token, plan, edits, state, zone, pending, details, err, scope, records,
          covered, history>>

Errors == {"none", "denied", "missing", "failed"}

Goroutines == Products \cup {"details"}

Targets == Products \X Scopes \X Rights

Listings == Products \X Scopes

\* The type of every variable.  When the report is made every goroutine has
\* answered.
TypeOK ==
    /\ token \in Tokens
    /\ plan \in Plans
    /\ edits \in 0 .. MaxEdits
    /\ state \in {"idle", "zone", "reading", "done", "failed"}
    /\ zone \in [named : BOOLEAN, active : BOOLEAN, edit : BOOLEAN]
    /\ pending \subseteq Goroutines
    /\ details \subseteq Policies
    /\ err \in [Products -> Errors]
    /\ scope \in Scopes
    /\ records \in Seq(BOOLEAN)
    /\ covered \in BOOLEAN
    /\ history \in [had : SUBSET Targets, lacked : SUBSET Targets,
                    inactive : SUBSET Listings]
    /\ state = "done" => pending = {}

-------------------------------------------------------------------------------
(* Cloudflare *)

\* A policy is about the account, or about the zone, if a key names it with
\* everything in it.  What is granted on an account is granted on its zones.
About(policy, level) ==
    LET accounts == {"account", "account.*"}
        zones == {"zone", "zone.*"}
    IN
    \E e \in policy.resources :
        \/ e.value = "*" /\ e.key \in accounts
        \/ level = "zones" /\ e.value = "*" /\ e.key \in zones
        \/ /\ level = "zones" /\ e.value = "nested" /\ e.key \in accounts
           /\ \E f \in e.nested : f.value = "*" /\ f.key \in accounts \cup zones

\* The token may do this: some policy allows it and none denies it.  Who may write
\* may read.
May(t, product, level, right) ==
    LET says == {p \in t.policies :
                   /\ About(p, level)
                   /\ \/ <<product, right>> \in p.groups
                      \/ right = "read" /\ <<product, "write">> \in p.groups}
    IN  /\ \E p \in says : p.effect = "allow"
        /\ \A p \in says : p.effect = "allow"

Had(t) == {g \in Targets : May(t, g[1], g[2], g[3])}

EditToken ==
    /\ edits < MaxEdits
    /\ edits' = edits + 1
    /\ \E t \in Tokens :
          /\ token' = t
          /\ history' = [history EXCEPT !.had = @ \cup Had(t),
                                       !.lacked = @ \cup (Targets \ Had(t))]
    /\ UNCHANGED <<plan, state, zone, pending, details, err, scope, records, covered>>

\* A product is activated, or given up.
EditPlan ==
    /\ edits < MaxEdits
    /\ edits' = edits + 1
    /\ \E a \in Plans :
          /\ plan' = a
          /\ history' = [history EXCEPT !.inactive = @ \cup (Listings \ a)]
    /\ UNCHANGED <<token, state, zone, pending, details, err, scope, records, covered>>

\* What a listing may return.  Nothing is listed without the right to read.  A
\* refusal (401, 403) or a 404 says that the right is missing or that the product
\* is not activated: no interface tells one from the other reliably.  A product
\* that is not activated may as well have an empty list, and any request may fail.
Answers(product, level) ==
    LET may == May(token, product, level, "read")
        active == <<product, level>> \in plan
    IN  {e \in Errors : /\ e = "none" => may
                        /\ e \in {"denied", "missing"} => ~may \/ ~active}

-------------------------------------------------------------------------------
(* Inspect *)

Init ==
    /\ token \in Tokens
    /\ plan \in Plans
    /\ edits = 0
    /\ state = "idle"
    /\ zone = [named |-> TRUE, active |-> TRUE, edit |-> FALSE]
    /\ pending = {}
    /\ details = {}
    /\ err = [p \in Products |-> "none"]
    /\ scope = "accounts"
    /\ records = <<>>
    /\ covered = FALSE
    /\ history = [had |-> {}, lacked |-> {}, inactive |-> {}]

Inspect ==
    /\ state = "idle"
    /\ state' = "zone"
    /\ history' = [had |-> Had(token), lacked |-> Targets \ Had(token),
                   inactive |-> Listings \ plan]
    /\ UNCHANGED <<token, plan, edits, zone, pending, details, err, scope, records, covered>>

\* The zone says whether the token may edit its records.
ReadZone ==
    /\ state = "zone"
    /\ \/ /\ state' = "reading"
          /\ pending' = Goroutines
          /\ \E named, active \in BOOLEAN :
                zone' = [named |-> named, active |-> active,
                         edit |-> May(token, "dns", "zones", "write")]
       \/ state' = "failed" /\ UNCHANGED <<pending, zone>>
    /\ UNCHANGED <<token, plan, edits, details, err, scope, records, covered, history>>

Answer(g) ==
    /\ state = "reading"
    /\ g \in pending
    /\ pending' = pending \ {g}
    /\ UNCHANGED <<token, plan, edits, state, zone, history>>

\* The token's policies, by the interface for its owner.  Any error leaves none.
ReadDetails ==
    /\ Answer("details")
    /\ \/ details' = {}
       \/ (token.account => zone.named) /\ details' = token.policies
    /\ UNCHANGED <<err, scope, records, covered>>

ReadRecords ==
    /\ Answer("dns")
    /\ \E e \in Answers("dns", "zones") :
          /\ err' = [err EXCEPT !["dns"] = e]
          /\ IF e = "none" THEN records' \in RecordSets ELSE UNCHANGED records
    /\ UNCHANGED <<details, scope, covered>>

\* Without the account's identifier its listings are not read.
ReadProduct(p) ==
    LET level == IF p = "tunnel" THEN "accounts" ELSE "zones" IN
    /\ p \in {"worker_routes", "tunnel"}
    /\ Answer(p)
    /\ \E e \in IF level = "accounts" /\ ~zone.named THEN {"failed"}
                ELSE Answers(p, level) :
          err' = [err EXCEPT ![p] = e]
    /\ UNCHANGED <<details, scope, records, covered>>

Applications(e) == IF e = "none" THEN covered' \in BOOLEAN ELSE UNCHANGED covered

\* The Access applications of the account, if it answers ...
ReadAccessOfAccount ==
    /\ scope = "accounts" /\ zone.named
    /\ Answer("access")
    /\ \E e \in Answers("access", "accounts") \cap {"none", "failed"} :
          err' = [err EXCEPT !["access"] = e] /\ Applications(e)
    /\ UNCHANGED <<details, scope, records>>

\* Faulty variant of FallBackToZone: after any error.
FallBackToZoneAlways ==
    /\ state = "reading" /\ "access" \in pending /\ scope = "accounts"
    /\ ~zone.named \/ Answers("access", "accounts") \ {"none"} # {}
    /\ scope' = "zones"
    /\ UNCHANGED <<token, plan, edits, state, zone, pending, details, err, records,
                   covered, history>>

\* ... and if it refuses, or has none, the ones of the zone instead.
FallBackToZone ==
    /\ state = "reading" /\ "access" \in pending /\ scope = "accounts"
    /\ ~zone.named \/ Answers("access", "accounts") \cap {"denied", "missing"} # {}
    /\ scope' = "zones"
    /\ UNCHANGED <<token, plan, edits, state, zone, pending, details, err, records,
                   covered, history>>

ReadAccessOfZone ==
    /\ scope = "zones"
    /\ Answer("access")
    /\ \E e \in Answers("access", "zones") :
          err' = [err EXCEPT !["access"] = e] /\ Applications(e)
    /\ UNCHANGED <<details, scope, records>>

\* wg.Wait: the report is made of what the goroutines have left.
Wait ==
    /\ state = "reading"
    /\ pending = {}
    /\ state' = "done"
    /\ UNCHANGED <<token, plan, edits, zone, pending, details, err, scope, records,
                   covered, history>>

Next ==
    \/ EditToken \/ EditPlan
    \/ Inspect \/ ReadZone \/ ReadDetails \/ ReadRecords
    \/ \E p \in Products : ReadProduct(p)
    \/ ReadAccessOfAccount \/ FallBackToZone \/ ReadAccessOfZone
    \/ Wait

Spec == Init /\ [][Next]_vars

-------------------------------------------------------------------------------
(* The report *)

AccountScope(p) == p = "tunnel" \/ (p = "access" /\ scope = "accounts")

\* resourceMatches, for the values below a key.
LeafMatches(f) ==
    f.key \in {"account", "account.*", "zone", "zone.*"} /\ f.value = "*"

resourceMatches(resources, accountScope) ==
    \E e \in resources :
        LET account == e.key \in {"account", "account.*"}
            zoneMatch == ~accountScope /\ e.key \in {"zone", "zone.*"}
        IN  \/ (account \/ zoneMatch) /\ e.value = "*"
            \/ /\ account /\ ~accountScope /\ e.value = "nested"
               /\ \E f \in e.nested : LeafMatches(f)

\* Faulty variant of writeEvidence: a deny policy is passed over.
writeEvidenceAllowed(policies, product, accountScope) ==
    LET groups == UNION {p.groups : p \in {q \in policies :
                    q.effect = "allow" /\ resourceMatches(q.resources, accountScope)}}
    IN  IF <<product, "write">> \in groups THEN "write"
        ELSE IF <<product, "read">> \in groups THEN "read" ELSE ""

\* Faulty variant of writeEvidence: the first group that is found decides.
writeEvidenceFirst(policies, product, accountScope) ==
    LET groups == UNION {p.groups : p \in {q \in policies :
                    resourceMatches(q.resources, accountScope)}}
    IN  IF \E q \in policies : q.effect # "allow" THEN ""
        ELSE IF <<product, "read">> \in groups THEN "read"
        ELSE IF <<product, "write">> \in groups THEN "write" ELSE ""

writeEvidence(policies, product, accountScope) ==
    LET groups == UNION {p.groups : p \in {q \in policies :
                    resourceMatches(q.resources, accountScope)}}
    IN  IF \E q \in policies : q.effect # "allow" THEN ""
        ELSE IF <<product, "write">> \in groups THEN "write"
        ELSE IF <<product, "read">> \in groups THEN "read" ELSE ""

capability(e, evidence) ==
    IF e \in {"denied", "missing"} THEN "unavailable"
    ELSE IF e = "failed" THEN "error"
    ELSE IF evidence = "write" THEN "available"
    ELSE IF evidence = "read" THEN "read_only" ELSE "unverified"

\* The permissions of the zone stand in for policies that could not be read.
Capability(p) ==
    IF p = "dns" /\ err["dns"] = "none" /\ details = {} /\ zone.edit THEN "available"
    ELSE capability(err[p], writeEvidence(details, p, AccountScope(p)))

\* A host name is proxied if each of its records is.
Proxied == records # <<>> /\ \A i \in DOMAIN records : records[i]

AccessEligible == Proxied /\ zone.active /\ err["access"] = "none" /\ ~covered

-------------------------------------------------------------------------------
(* Properties *)

Level(p) == IF AccountScope(p) THEN "accounts" ELSE "zones"

\* docs/cloudflare.md: "available" rests on an explicit grant.  The token could
\* write there at some moment of the inspection, whatever answers failed, however
\* its policies nest and whoever edited it between the reads.
AvailableWasGranted ==
    state = "done" =>
        \A p \in Products :
            Capability(p) = "available" => <<p, Level(p), "write">> \in history.had

\* "read_only" is said only of a token that could not write at some moment.
ReadOnlyWasSo ==
    state = "done" =>
        \A p \in Products :
            Capability(p) = "read_only" => <<p, Level(p), "write">> \in history.lacked

\* Where a product was read: Access is read for the zone after a refusal for the
\* account, if the account is named.
Tried(p) == IF p = "access" /\ zone.named THEN {"accounts", Level(p)} ELSE {Level(p)}

\* docs/cloudflare.md: "unavailable" means that the interface refused, or that the
\* product is not activated; a network failure must not be taken for a missing
\* right.  So wherever the product was read, the right to read or the product was
\* missing at some moment: for Access, both on the account and on the zone.  A
\* product that is said to be readable was so, and a host name is offered for
\* Access only if its records and the applications that might cover it were.
ReadingAsReported ==
    state = "done" =>
        /\ \A p \in Products : Capability(p) = "unavailable" =>
              \A level \in Tried(p) : \/ <<p, level, "read">> \in history.lacked
                                      \/ <<p, level>> \in history.inactive
        /\ \A p \in Products : Capability(p) \in {"available", "read_only", "unverified"} =>
              <<p, Level(p), "read">> \in history.had
        /\ AccessEligible =>
              {<<"dns", "zones", "read">>, <<"access", Level("access"), "read">>}
                  \subseteq history.had
===============================================================================

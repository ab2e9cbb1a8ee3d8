----------------------------- MODULE AccessPolicy -----------------------------
(***************************************************************************)
(* Who may talk to the control panel: the accessPolicy middleware and the  *)
(* policy setting (internal/httpapi/access.go, internal/store/settings.go) *)
(* with the two requests that write it, first-run setup and                *)
(* updateAccessPolicy.                                                     *)
(*                                                                         *)
(* The middleware reads the database twice and then lets the request go    *)
(* on; other requests may write in between.  Passwords and sessions are    *)
(* the subject of Authentication.  A host name is the sequence of its      *)
(* labels, in lower case and without the trailing dot that both sides cut  *)
(* off; the source of a request is a class of addresses.                   *)
(***************************************************************************)
EXTENDS Naturals, FiniteSets, Sequences, SequencesExt

CONSTANTS
    Requests,   \* requests that may be in flight at a time
    Names,      \* host names, as sequences of labels
    Lists,      \* lists of allowed hosts that a request may send
    MaxHosts,   \* 32 in the code
    MaxUpdates, \* bound: changes of the policy
    None        \* no request, nobody

Sources == {"loopback", "private", "link_local_v4", "link_local_v6", "public"}

Paths == {"health", "internal", "setup", "access"}

Modes == {"local", "lan", "public"}

\* The modes that a request may ask for.
Asked == Modes \cup {"unknown"}

\* An entry of a list, as normalizeAccessPolicy reads it.
Entries == [form : {"blank", "exact", "wildcard", "invalid"}, name : Names]

ASSUME PolicyAssumption ==
    /\ \A l \in Lists : l \in Seq(Entries)
    /\ MaxHosts \in Nat
    /\ MaxUpdates \in Nat

VARIABLES
    admin,    \* HasAdmin
    policy,   \* AccessPolicy: the default until the setting exists
    pc,       \* the step each request is at
    req,      \* its source, host and path
    updates,  \* changes of the policy so far
    founder,  \* history: the source of the setup that made the administrator
    verdicts  \* history: what the rules have said of it since it arrived

vars == <<admin, policy, pc, req, updates, founder, verdicts>>

RequestSet == [source : Sources, host : Names, path : Paths]

Policies == [mode : Modes, hosts : SUBSET Entries]

Steps == {"idle", "asked", "initialized", "admitted", "denied"}

\* The type of every variable.
TypeOK ==
    /\ admin \in BOOLEAN
    /\ policy \in Policies
    /\ pc \in [Requests -> Steps]
    /\ req \in [Requests -> RequestSet \cup {None}]
    /\ updates \in 0 .. MaxUpdates
    /\ founder \in Sources \cup {None}
    /\ verdicts \in [Requests -> SUBSET BOOLEAN]

\* DefaultAccessPolicy of internal/store/settings.go.
DefaultAccessPolicy == [mode |-> "lan", hosts |-> {}]

Init ==
    /\ admin = FALSE
    /\ policy = DefaultAccessPolicy
    /\ pc = [r \in Requests |-> "idle"]
    /\ req = [r \in Requests |-> None]
    /\ updates = 0
    /\ founder = None
    /\ verdicts = [r \in Requests |-> {}]

-------------------------------------------------------------------------------
(* The rules *)

isLocalNetwork(source) == source # "public"

sourceAllowed(mode, source) ==
    \/ mode = "local" /\ source = "loopback"
    \/ mode = "lan" /\ isLocalNetwork(source)
    \/ mode = "public"

\* A wildcard stands for the names below its own, not for its own.
hostAllowed(host, allowed) ==
    \E e \in allowed :
        \/ e.form = "exact" /\ host = e.name
        \/ e.form = "wildcard" /\ IsStrictSuffix(e.name, host)

\* Faulty variant of hostBypass: from every source.
hostBypassAnywhere(q) == q.path \in {"health", "internal"}

\* Faulty variant of hostBypass: the callbacks of natmap are forgotten.
hostBypassHealth(q) == q.source = "loopback" /\ q.path = "health"

hostBypass(q) == q.source = "loopback" /\ q.path \in {"health", "internal"}

\* What docs/deployment.md says of a request while this policy is in force.
Rules(initialized, p, q) ==
    IF ~initialized THEN q.source # "public"
    ELSE /\ p.mode = "local" => q.source = "loopback"
         /\ p.mode = "lan" => q.source # "public"
         /\ \/ p.hosts = {}
            \/ hostAllowed(q.host, p.hosts)
            \/ q.source = "loopback" /\ q.path \in {"health", "internal"}

\* net.ParseIP refuses an address with a zone, and the address of an IPv6
\* link-local peer always has one ("fe80::1%eth0").
Parsed(source) == source # "link_local_v6"

\* normalizeAccessPolicy: the inputs it does not refuse ...
Acceptable(mode, list) ==
    /\ mode \in Modes
    /\ Len(list) <= MaxHosts
    /\ \A e \in ToSet(list) : e.form # "invalid"
    /\ mode = "public" => \E e \in ToSet(list) : e.form # "blank"

\* ... and what it makes of them.  An empty mode means lan: such an input is
\* the same as one that says so.
normalizeAccessPolicy(mode, list) ==
    [mode |-> mode, hosts |-> {e \in ToSet(list) : e.form # "blank"}]

-------------------------------------------------------------------------------
(* The middleware *)

Arrive(r, q) ==
    /\ pc[r] = "idle"
    /\ pc' = [pc EXCEPT ![r] = "asked"]
    /\ req' = [req EXCEPT ![r] = q]
    /\ verdicts' = [verdicts EXCEPT ![r] = {Rules(admin, policy, q)}]
    /\ UNCHANGED <<admin, policy, updates, founder>>

Deny(r) == pc' = [pc EXCEPT ![r] = "denied"]

Admit(r) == pc' = [pc EXCEPT ![r] = "admitted"]

\* Faulty variant of ReadHasAdmin: setup is open to everybody.
ReadHasAdminOpen(r) ==
    /\ pc[r] = "asked"
    /\ \/ ~Parsed(req[r].source) /\ Deny(r)
       \/ Parsed(req[r].source) /\ ~admin /\ Admit(r)
       \/ /\ Parsed(req[r].source) /\ admin
          /\ pc' = [pc EXCEPT ![r] = "initialized"]
    /\ UNCHANGED <<admin, policy, req, updates, founder, verdicts>>

\* The address is parsed and HasAdmin read.  Before first-run setup the
\* request must come from the local network, and no policy is looked at.
ReadHasAdmin(r) ==
    /\ pc[r] = "asked"
    /\ \/ ~Parsed(req[r].source) /\ Deny(r)
       \/ /\ Parsed(req[r].source) /\ ~admin
          /\ IF isLocalNetwork(req[r].source) THEN Admit(r) ELSE Deny(r)
       \/ /\ Parsed(req[r].source) /\ admin
          /\ pc' = [pc EXCEPT ![r] = "initialized"]
    /\ UNCHANGED <<admin, policy, req, updates, founder, verdicts>>

\* AccessPolicy is read: the source first, then the host.
ReadPolicy(r) ==
    LET q == req[r] IN
    /\ pc[r] = "initialized"
    /\ IF /\ sourceAllowed(policy.mode, q.source)
          /\ \/ hostBypass(q)
             \/ policy.hosts = {}
             \/ hostAllowed(q.host, policy.hosts)
       THEN Admit(r) ELSE Deny(r)
    /\ UNCHANGED <<admin, policy, req, updates, founder, verdicts>>

\* Either read fails: 503, and the request goes no further.
ReadFails(r) ==
    /\ pc[r] \in {"asked", "initialized"}
    /\ Parsed(req[r].source)
    /\ pc' = [pc EXCEPT ![r] = "idle"]
    /\ req' = [req EXCEPT ![r] = None]
    /\ verdicts' = [verdicts EXCEPT ![r] = {}]
    /\ UNCHANGED <<admin, policy, updates, founder>>

-------------------------------------------------------------------------------
(* The handlers behind it *)

Gone(r, vs) ==
    /\ pc' = [pc EXCEPT ![r] = "idle"]
    /\ req' = [req EXCEPT ![r] = None]
    /\ verdicts' = [vs EXCEPT ![r] = {}]

\* The requests in the middleware, judged again under a new policy.
Rejudged(p) ==
    [o \in Requests |->
        IF pc[o] \in {"asked", "initialized"}
        THEN verdicts[o] \cup {Rules(TRUE, p, req[o])}
        ELSE verdicts[o]]

\* setup: InitializeAdmin writes the administrator and the policy in one
\* transaction, and fails if there is an administrator.
setup(r, mode, list) ==
    /\ pc[r] = "admitted" /\ req[r].path = "setup"
    /\ ~admin /\ Acceptable(mode, list)
    /\ admin' = TRUE
    /\ policy' = normalizeAccessPolicy(mode, list)
    /\ founder' = req[r].source
    /\ Gone(r, Rejudged(normalizeAccessPolicy(mode, list)))
    /\ UNCHANGED updates

\* updateAccessPolicy, behind a session, so after setup.
updateAccessPolicy(r, mode, list) ==
    /\ pc[r] = "admitted" /\ req[r].path = "access"
    /\ admin /\ Acceptable(mode, list)
    /\ updates < MaxUpdates
    /\ updates' = updates + 1
    /\ policy' = normalizeAccessPolicy(mode, list)
    /\ Gone(r, Rejudged(normalizeAccessPolicy(mode, list)))
    /\ UNCHANGED <<admin, founder>>

\* Every other answer: a denial, an error, a handler of another component.
Answer(r) ==
    /\ pc[r] \in {"admitted", "denied"}
    /\ Gone(r, verdicts)
    /\ UNCHANGED <<admin, policy, updates, founder>>

Next ==
    \E r \in Requests :
        \/ \E q \in RequestSet : Arrive(r, q)
        \/ ReadHasAdmin(r)
        \/ ReadPolicy(r)
        \/ ReadFails(r)
        \/ Answer(r)
        \/ \E mode \in Asked, list \in Lists :
              \/ setup(r, mode, list)
              \/ updateAccessPolicy(r, mode, list)

Spec == Init /\ [][Next]_vars

-------------------------------------------------------------------------------
(* Properties *)

\* A request that the middleware has let through was allowed by the rules
\* in force at some moment between its arrival and then, although the two
\* reads of the middleware see different moments.
AdmittedInForce ==
    \A r \in Requests : pc[r] = "admitted" => TRUE \in verdicts[r]

\* A request that the middleware has refused was refused by the rules at
\* some moment since its arrival, if its address can be parsed: in
\* particular the callbacks of natmap and the health check from loopback
\* are never refused, whatever hosts the administrator allows.
RefusedByRules ==
    \A r \in Requests :
        pc[r] = "denied" /\ Parsed(req[r].source) => FALSE \in verdicts[r]

\* Whoever has made himself the administrator came from the local network,
\* also when requests from elsewhere race with the setup.
FounderIsLocal ==
    admin => founder \in Sources \ {"public"}

\* A policy that is open to every source names at least one host, so the
\* panel does not answer every name that points to its address.
PublicNamesHosts ==
    policy.mode = "public" => policy.hosts # {}

\* docs/deployment.md: mode lan accepts link-local addresses.  As long as
\* the rules allow such a request it is not refused.
LinkLocalAdmitted ==
    \A r \in Requests :
        pc[r] = "denied" /\ req[r].source \in {"link_local_v4", "link_local_v6"}
            => FALSE \in verdicts[r]
===============================================================================

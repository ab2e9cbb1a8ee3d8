---------------------------- MODULE SecurityProofs -----------------------------
(***************************************************************************)
(* Theorems about AccessPolicy, for any number of requests and every list  *)
(* of hosts, and about MasterKey, for any number of programs and of starts *)
(* on one data directory.                                                  *)
(***************************************************************************)
EXTENDS AccessPolicy, TLAPS

\* What holds of a request at each step of its way: its latest verdict while
\* the middleware has it, and before first-run setup its source.
RequestOK(r) ==
    /\ pc[r] # "idle" => req[r] \in RequestSet
    /\ pc[r] \in {"asked", "initialized"} => Rules(admin, policy, req[r]) \in verdicts[r]
    /\ pc[r] = "initialized" => admin /\ Parsed(req[r].source)
    /\ pc[r] = "admitted" => TRUE \in verdicts[r]
    /\ pc[r] = "admitted" /\ ~admin => req[r].source # "public"
    /\ pc[r] = "denied" /\ Parsed(req[r].source) => FALSE \in verdicts[r]

IInv ==
    /\ TypeOK
    /\ \A r \in Requests : RequestOK(r)
    /\ FounderIsLocal
    /\ PublicNamesHosts

-------------------------------------------------------------------------------

\* What normalizeAccessPolicy accepts is a policy, with a host if it is public.
LEMMA PolicyOfList ==
  ASSUME NEW mode \in Asked, NEW list \in Lists, Acceptable(mode, list)
  PROVE  /\ normalizeAccessPolicy(mode, list) \in Policies
         /\ normalizeAccessPolicy(mode, list).mode = "public" =>
              normalizeAccessPolicy(mode, list).hosts # {}
  <1>1. list \in Seq(Entries)
    BY PolicyAssumption
  <1>2. ToSet(list) \subseteq Entries
    BY <1>1 DEF ToSet
  <1>3. mode \in Modes
    BY DEF Acceptable
  <1> QED
    BY <1>2, <1>3 DEF normalizeAccessPolicy, Policies, Acceptable

\* The two comparisons of the middleware are the rules for an initialized panel.
LEMMA Judgement ==
  ASSUME NEW q \in RequestSet, policy \in Policies
  PROVE  Rules(TRUE, policy, q) <=>
           /\ sourceAllowed(policy.mode, q.source)
           /\ hostBypass(q) \/ policy.hosts = {} \/ hostAllowed(q.host, policy.hosts)
  <1>1. policy.mode \in Modes
    BY DEF Policies
  <1>2. sourceAllowed(policy.mode, q.source) <=>
          /\ policy.mode = "local" => q.source = "loopback"
          /\ policy.mode = "lan" => q.source # "public"
    BY <1>1 DEF Modes, sourceAllowed, isLocalNetwork
  <1> QED
    BY <1>2 DEF Rules, hostBypass

\* A verdict is a truth value.
LEMMA VerdictType ==
  ASSUME NEW i \in BOOLEAN, NEW p, NEW q
  PROVE  Rules(i, p, q) \in BOOLEAN
  BY DEF Rules

\* A request that leaves the middleware, either way, with the verdict just reached.
LEMMA Passed ==
  ASSUME IInv, NEW r \in Requests, pc[r] # "idle",
         UNCHANGED <<admin, policy, req, updates, founder, verdicts>>,
         \/ /\ Admit(r) /\ TRUE \in verdicts[r]
            /\ ~admin => req[r].source # "public"
         \/ Deny(r) /\ (Parsed(req[r].source) => FALSE \in verdicts[r])
         \/ pc' = [pc EXCEPT ![r] = "initialized"] /\ pc[r] = "asked" /\ admin
              /\ Parsed(req[r].source)
  PROVE  IInv'
  <1>1. TypeOK'
    BY DEF IInv, TypeOK, Steps, Admit, Deny
  <1>2. ASSUME NEW o \in Requests PROVE RequestOK(o)'
    <2>1. CASE o # r
      <3>1. pc'[o] = pc[o]
        BY <2>1 DEF IInv, TypeOK, Admit, Deny
      <3> QED
        BY <3>1 DEF IInv, RequestOK, Rules, Parsed
    <2>2. CASE o = r
      <3>1. RequestOK(r)
        BY DEF IInv
      <3>2. CASE pc'[r] = "admitted" /\ TRUE \in verdicts[r] /\ (~admin => req[r].source # "public")
        BY <2>2, <3>1, <3>2 DEF RequestOK
      <3>3. CASE pc'[r] = "denied" /\ (Parsed(req[r].source) => FALSE \in verdicts[r])
        BY <2>2, <3>1, <3>3 DEF RequestOK, Parsed
      <3>4. CASE pc'[r] = "initialized" /\ pc[r] = "asked" /\ admin /\ Parsed(req[r].source)
        BY <2>2, <3>1, <3>4 DEF RequestOK, Rules, Parsed
      <3> QED
        BY <3>2, <3>3, <3>4 DEF IInv, TypeOK, Admit, Deny
    <2> QED
      BY <2>1, <2>2
  <1>3. FounderIsLocal' /\ PublicNamesHosts'
    BY DEF IInv, FounderIsLocal, PublicNamesHosts
  <1> QED
    BY <1>1, <1>2, <1>3 DEF IInv

\* A request that is answered, with the policy written by its handler if it
\* writes one: the requests in the middleware are judged again.
LEMMA Written ==
  ASSUME IInv, NEW r \in Requests, NEW p \in Policies,
         p.mode = "public" => p.hosts # {},
         Gone(r, Rejudged(p)), policy' = p, admin' = TRUE,
         updates' \in 0 .. MaxUpdates, founder' \in Sources \ {"public"}
  PROVE  IInv'
  <1>1. \A o \in Requests : Rejudged(p)[o] \in SUBSET BOOLEAN
    BY VerdictType DEF IInv, TypeOK, Rejudged
  <1>2. TypeOK'
    <2>1. Rejudged(p) \in [Requests -> SUBSET BOOLEAN]
      BY <1>1 DEF Rejudged
    <2> QED
      BY <2>1 DEF IInv, TypeOK, Steps, Gone
  <1>3. ASSUME NEW o \in Requests PROVE RequestOK(o)'
    <2>1. CASE o = r
      BY <2>1 DEF IInv, TypeOK, Gone, RequestOK
    <2>2. CASE o # r
      <3>1. /\ pc'[o] = pc[o]
            /\ req'[o] = req[o]
            /\ verdicts'[o] = Rejudged(p)[o]
        BY <2>2 DEF IInv, TypeOK, Gone, Rejudged
      <3>2. CASE pc[o] \in {"asked", "initialized"}
        <4>1. verdicts'[o] = verdicts[o] \cup {Rules(TRUE, p, req[o])}
          BY <3>1, <3>2 DEF Rejudged
        <4>2. Rules(admin, policy, req[o])' = Rules(TRUE, p, req[o])
          BY <3>1 DEF Rules
        <4> QED
          BY <3>1, <3>2, <4>1, <4>2 DEF IInv, RequestOK, Parsed
      <3>3. CASE pc[o] \notin {"asked", "initialized"}
        <4>1. verdicts'[o] = verdicts[o]
          BY <3>1, <3>3 DEF Rejudged
        <4> QED
          BY <3>1, <3>3, <4>1 DEF IInv, RequestOK, Parsed
      <3> QED
        BY <3>2, <3>3
    <2> QED
      BY <2>1, <2>2
  <1>4. FounderIsLocal' /\ PublicNamesHosts'
    BY DEF FounderIsLocal, PublicNamesHosts
  <1> QED
    BY <1>2, <1>3, <1>4 DEF IInv

\* Every step of the middleware and of the handlers keeps the invariant.
LEMMA Steps1 ==
  ASSUME IInv, NEW r \in Requests,
         \/ \E q \in RequestSet : Arrive(r, q)
         \/ ReadHasAdmin(r) \/ ReadPolicy(r) \/ ReadFails(r) \/ Answer(r)
  PROVE  IInv'
  <1>0. TypeOK /\ RequestOK(r)
    BY DEF IInv
  <1>1. CASE \E q \in RequestSet : Arrive(r, q)
    <2>1. PICK q \in RequestSet : Arrive(r, q)
      BY <1>1
    <2>2. TypeOK'
      BY <1>0, <2>1, VerdictType DEF TypeOK, Steps, Arrive
    <2>3. ASSUME NEW o \in Requests PROVE RequestOK(o)'
      <3>1. CASE o = r
        BY <1>0, <2>1, <3>1 DEF TypeOK, Arrive, RequestOK, Rules
      <3>2. CASE o # r
        <4>1. /\ pc'[o] = pc[o] /\ req'[o] = req[o] /\ verdicts'[o] = verdicts[o]
          BY <1>0, <2>1, <3>2 DEF TypeOK, Arrive
        <4> QED
          BY <2>1, <4>1 DEF IInv, Arrive, RequestOK, Rules, Parsed
      <3> QED
        BY <3>1, <3>2
    <2> QED
      BY <2>1, <2>2, <2>3 DEF IInv, Arrive, FounderIsLocal, PublicNamesHosts
  <1>2. CASE ReadHasAdmin(r)
    <2>1. /\ pc[r] = "asked" /\ req[r] \in RequestSet
          /\ Rules(admin, policy, req[r]) \in verdicts[r]
      BY <1>0, <1>2 DEF ReadHasAdmin, RequestOK
    <2>2. ~admin => ((req[r].source # "public") \in verdicts[r])
      BY <1>0, <2>1 DEF Rules
    <2>3. ~admin /\ isLocalNetwork(req[r].source) => TRUE \in verdicts[r]
      <3>1. isLocalNetwork(req[r].source) => ((req[r].source # "public") <=> TRUE)
        BY DEF isLocalNetwork
      <3> QED
        BY <2>2, <3>1, Zenon
    <2>4. ~admin /\ ~isLocalNetwork(req[r].source) => FALSE \in verdicts[r]
      <3>1. ~isLocalNetwork(req[r].source) => ((req[r].source # "public") <=> FALSE)
        BY DEF isLocalNetwork
      <3> QED
        BY <2>2, <3>1, Zenon
    <2> QED
      BY <1>2, <2>1, <2>3, <2>4, Passed DEF ReadHasAdmin, isLocalNetwork
  <1>3. CASE ReadPolicy(r)
    <2>1. /\ pc[r] = "initialized" /\ req[r] \in RequestSet /\ admin = TRUE
          /\ Rules(admin, policy, req[r]) \in verdicts[r]
      BY <1>0, <1>3 DEF ReadPolicy, RequestOK, TypeOK
    <2>2. Rules(TRUE, policy, req[r]) \in verdicts[r]
      BY <2>1
    <2>3. policy \in Policies
      BY <1>0 DEF TypeOK
    <2>4. Rules(TRUE, policy, req[r]) \in BOOLEAN
      BY VerdictType
    <2>5. CASE Rules(TRUE, policy, req[r]) = TRUE
      <3>1. Admit(r)
        BY <1>3, <2>1, <2>3, <2>5, Judgement DEF ReadPolicy
      <3> QED
        BY <1>3, <2>1, <2>2, <2>5, <3>1, Passed DEF ReadPolicy
    <2>6. CASE Rules(TRUE, policy, req[r]) = FALSE
      <3>1. Deny(r)
        BY <1>3, <2>1, <2>3, <2>6, Judgement DEF ReadPolicy
      <3> QED
        BY <1>3, <2>1, <2>2, <2>6, <3>1, Passed DEF ReadPolicy
    <2> QED
      BY <2>4, <2>5, <2>6
  <1>4. CASE ReadFails(r) \/ Answer(r)
    <2>1. /\ UNCHANGED <<admin, policy, updates, founder>>
          /\ pc' = [pc EXCEPT ![r] = "idle"]
          /\ req' = [req EXCEPT ![r] = None]
          /\ verdicts' = [verdicts EXCEPT ![r] = {}]
      BY <1>4 DEF ReadFails, Answer, Gone
    <2>2. TypeOK'
      BY <1>0, <2>1 DEF TypeOK, Steps
    <2>3. ASSUME NEW o \in Requests PROVE RequestOK(o)'
      <3>1. CASE o = r
        BY <1>0, <2>1, <3>1 DEF TypeOK, RequestOK
      <3>2. CASE o # r
        <4>1. /\ pc'[o] = pc[o] /\ req'[o] = req[o] /\ verdicts'[o] = verdicts[o]
          BY <1>0, <2>1, <3>2 DEF TypeOK
        <4> QED
          BY <2>1, <4>1 DEF IInv, RequestOK, Rules, Parsed
      <3> QED
        BY <3>1, <3>2
    <2> QED
      BY <2>1, <2>2, <2>3 DEF IInv, FounderIsLocal, PublicNamesHosts
  <1> QED
    BY <1>1, <1>2, <1>3, <1>4

\* The invariant is inductive.
THEOREM Invariance == Spec => []IInv
  <1>1. Init => IInv
    <2> SUFFICES ASSUME Init PROVE IInv
      OBVIOUS
    <2>1. policy \in Policies /\ policy.mode # "public"
      BY DEF Init, Policies, DefaultAccessPolicy, Modes
    <2>2. updates \in 0 .. MaxUpdates
      BY PolicyAssumption DEF Init
    <2>3. TypeOK
      BY <2>1, <2>2 DEF Init, TypeOK, Steps
    <2>4. ASSUME NEW r \in Requests PROVE RequestOK(r)
      BY DEF Init, RequestOK
    <2> QED
      BY <2>1, <2>3, <2>4 DEF Init, IInv, FounderIsLocal, PublicNamesHosts
  <1>2. IInv /\ [Next]_vars => IInv'
    <2> SUFFICES ASSUME IInv, [Next]_vars PROVE IInv'
      OBVIOUS
    <2>1. CASE UNCHANGED vars
      <3>1. TypeOK'
        BY <2>1 DEF IInv, TypeOK, vars
      <3>2. ASSUME NEW o \in Requests PROVE RequestOK(o)'
        BY <2>1 DEF IInv, vars, RequestOK, Rules, Parsed
      <3> QED
        BY <2>1, <3>1, <3>2 DEF IInv, vars, FounderIsLocal, PublicNamesHosts
    <2>2. ASSUME NEW r \in Requests, NEW mode \in Asked, NEW list \in Lists,
                 setup(r, mode, list)
          PROVE  IInv'
      <3>1. req[r].source \in Sources \ {"public"}
        BY <2>2 DEF setup, IInv, RequestOK, RequestSet
      <3>2. updates' \in 0 .. MaxUpdates
        BY <2>2 DEF setup, IInv, TypeOK
      <3> QED
        BY <2>2, <3>1, <3>2, PolicyOfList, Written DEF setup
    <2>3. ASSUME NEW r \in Requests, NEW mode \in Asked, NEW list \in Lists,
                 updateAccessPolicy(r, mode, list)
          PROVE  IInv'
      <3>1. founder' \in Sources \ {"public"}
        BY <2>3 DEF updateAccessPolicy, IInv, FounderIsLocal
      <3>2. updates' \in 0 .. MaxUpdates
        BY <2>3, PolicyAssumption DEF updateAccessPolicy, IInv, TypeOK
      <3>3. admin' = TRUE
        BY <2>3 DEF updateAccessPolicy, IInv, TypeOK
      <3> QED
        BY <2>3, <3>1, <3>2, <3>3, PolicyOfList, Written DEF updateAccessPolicy
    <2> QED
      BY <2>1, <2>2, <2>3, Steps1 DEF Next
  <1> QED
    BY <1>1, <1>2, PTL DEF Spec

\* The type invariant, for every instance.
THEOREM TypeCorrect == Spec => []TypeOK
  <1>1. IInv => TypeOK
    BY DEF IInv
  <1> QED
    BY <1>1, Invariance, PTL

\* accessPolicy lets through only what the rules allowed at some moment of the
\* request, however many requests write the policy meanwhile.
THEOREM Admission == Spec => []AdmittedInForce
  <1>1. IInv => AdmittedInForce
    BY DEF IInv, RequestOK, AdmittedInForce
  <1> QED
    BY <1>1, Invariance, PTL

\* accessPolicy refuses only what the rules refused at some moment of the
\* request, so no callback of natmap.
THEOREM Refusal == Spec => []RefusedByRules
  <1>1. IInv => RefusedByRules
    BY DEF IInv, RequestOK, RefusedByRules
  <1> QED
    BY <1>1, Invariance, PTL

\* First-run setup is won by a request of the local network.
THEOREM Founder == Spec => []FounderIsLocal
  <1>1. IInv => FounderIsLocal
    BY DEF IInv
  <1> QED
    BY <1>1, Invariance, PTL

-------------------------------------------------------------------------------
(* The master key *)

CONSTANTS Processes, Keys, Absent, Short, PowerLoss

VARIABLES file, disk, step, key, stored, used

K == INSTANCE MasterKey WITH pc <- step

\* Where the key is at each step of a start.  The file belongs to its one
\* writer, and once it holds a key every program that runs has that key.
Loading ==
    /\ \A p \in Processes : step[p] = "up" => file = key[p]
    /\ \A p \in Processes : step[p] \in {"create", "write"} => key[p] \in Keys
    /\ \A p \in Processes : step[p] = "write" => file = Short
    /\ \A p, q \in Processes : step[p] = "write" /\ step[q] = "write" => p = q

KeyInv == K!TypeOK /\ Loading

-------------------------------------------------------------------------------

\* A program that ends takes nothing with it.
LEMMA ExitKeeps ==
  ASSUME KeyInv, NEW p \in Processes, K!Exit(p), UNCHANGED <<file, stored, used>>, disk' \in K!Contents
  PROVE  KeyInv'
  BY DEF KeyInv, K!TypeOK, Loading, K!Exit, K!Goto, K!Contents

\* The invariant is inductive.
THEOREM KeyInvariance == ASSUME K!KeyAssumption PROVE K!Spec => []KeyInv
  <1>1. K!Init => KeyInv
    BY DEF K!KeyAssumption, K!Init, KeyInv, K!TypeOK, Loading, K!Contents
  <1>2. KeyInv /\ [K!Next]_(K!vars) => KeyInv'
    <2> SUFFICES ASSUME KeyInv, [K!Next]_(K!vars) PROVE KeyInv'
      OBVIOUS
    <2> USE DEF KeyInv, K!TypeOK, Loading, K!Goto, K!Contents, K!KeyAssumption
    <2>1. ASSUME NEW p \in Processes, K!Start(p) PROVE KeyInv'
      BY <2>1 DEF K!Start
    <2>2. ASSUME NEW p \in Processes, K!ReadKey(p) PROVE KeyInv'
      <3>1. CASE file = Short
        BY <2>2, <3>1, ExitKeeps DEF K!ReadKey
      <3>2. CASE file # Short
        BY <2>2, <3>2 DEF K!ReadKey
      <3> QED
        BY <3>1, <3>2
    <2>3. ASSUME NEW p \in Processes, K!GenerateKey(p) PROVE KeyInv'
      BY <2>3 DEF K!GenerateKey
    <2>4. ASSUME NEW p \in Processes, K!CreateFile(p) PROVE KeyInv'
      <3>1. CASE file = Absent
        BY <2>4, <3>1 DEF K!CreateFile
      <3>2. CASE file # Absent
        BY <2>4, <3>2 DEF K!CreateFile
      <3> QED
        BY <3>1, <3>2
    <2>5. ASSUME NEW p \in Processes, K!WriteKey(p) PROVE KeyInv'
      <3>1. CASE file' = key[p] /\ K!Goto(p, "up") /\ UNCHANGED key
        BY <2>5, <3>1 DEF K!WriteKey
      <3>2. CASE UNCHANGED file /\ K!Exit(p)
        BY <2>5, <3>2, ExitKeeps DEF K!WriteKey
      <3> QED
        BY <2>5, <3>1, <3>2 DEF K!WriteKey
    <2>6. ASSUME NEW p \in Processes, K!Encrypt(p) PROVE KeyInv'
      BY <2>6 DEF K!Encrypt
    <2>7. ASSUME NEW p \in Processes, K!Crash(p) PROVE KeyInv'
      BY <2>7, ExitKeeps DEF K!Crash
    <2>8. CASE K!WriteBack
      BY <2>8 DEF K!WriteBack
    <2>9. CASE K!PowerFails
      BY <2>9 DEF K!PowerFails
    <2>10. CASE UNCHANGED K!vars
      BY <2>10 DEF K!vars
    <2> QED
      BY <2>1, <2>2, <2>3, <2>4, <2>5, <2>6, <2>7, <2>8, <2>9, <2>10 DEF K!Next, K!Load
  <1> QED
    BY <1>1, <1>2, PTL DEF K!Spec

\* The type invariant, for every instance.
THEOREM KeyTypes == ASSUME K!KeyAssumption PROVE K!Spec => []K!TypeOK
  <1>1. KeyInv => K!TypeOK
    BY DEF KeyInv
  <1> QED
    BY <1>1, KeyInvariance, PTL

\* However many starts race on a data directory, and whatever a crash or a power
\* failure has left there, the programs that run share one key.
THEOREM KeyShared == ASSUME K!KeyAssumption PROVE K!Spec => []K!OneKey
  <1>1. KeyInv => K!OneKey
    BY DEF KeyInv, Loading, K!OneKey
  <1> QED
    BY <1>1, KeyInvariance, PTL

\* As long as the power does not fail, what has been encrypted can be decrypted.
THEOREM KeyReadable == ASSUME K!KeyAssumption, PowerLoss = FALSE PROVE K!Spec => []K!StoredReadable
  <1>1. K!Init => K!StoredReadable
    BY DEF K!Init, K!StoredReadable
  <1>2. KeyInv /\ K!StoredReadable /\ [K!Next]_(K!vars) => K!StoredReadable'
    <2> SUFFICES ASSUME KeyInv, K!StoredReadable, [K!Next]_(K!vars) PROVE K!StoredReadable'
      OBVIOUS
    <2>1. stored # {} => file \in Keys
      BY DEF KeyInv, K!TypeOK, K!StoredReadable
    <2>2. ASSUME NEW p \in Processes, K!CreateFile(p) PROVE K!StoredReadable'
      BY <2>1, <2>2 DEF K!KeyAssumption, K!CreateFile, K!StoredReadable
    <2>3. ASSUME NEW p \in Processes, K!WriteKey(p) PROVE K!StoredReadable'
      <3>1. file = Short
        BY <2>3 DEF KeyInv, Loading, K!WriteKey
      <3>2. stored = {}
        BY <2>1, <3>1 DEF K!KeyAssumption
      <3> QED
        BY <2>3, <3>2 DEF K!WriteKey, K!StoredReadable
    <2>4. ASSUME NEW p \in Processes, K!Encrypt(p) PROVE K!StoredReadable'
      BY <2>4 DEF KeyInv, Loading, K!Encrypt, K!StoredReadable
    <2>5. ASSUME NEW p \in Processes,
                 K!Start(p) \/ K!ReadKey(p) \/ K!GenerateKey(p) \/ K!Crash(p)
          PROVE  K!StoredReadable'
      BY <2>5 DEF K!Start, K!ReadKey, K!GenerateKey, K!Crash, K!StoredReadable
    <2>6. CASE K!WriteBack \/ UNCHANGED K!vars
      BY <2>6 DEF K!WriteBack, K!vars, K!StoredReadable
    <2>7. ~K!PowerFails
      BY DEF K!PowerFails
    <2> QED
      BY <2>2, <2>3, <2>4, <2>5, <2>6, <2>7 DEF K!Next, K!Load
  <1> QED
    BY <1>1, <1>2, KeyInvariance, PTL DEF K!Spec
===============================================================================

-------------------------- MODULE AuthenticationProofs --------------------------
(***************************************************************************)
(* Proofs about Authentication for every value of its constants.           *)
(***************************************************************************)
EXTENDS Authentication, FiniteSetTheorems, TLAPS

Inside == {"session", "confirm", "enable", "disable", "switch off", "policy"}

\* Nobody has a session, or a request behind one, before there is a user.
Inhabited ==
    /\ \A t \in Tokens : sessions[t] # "none" => admins # {}
    /\ \A r \in Requests : pc[r] \in Inside => admins # {}

SetupInv == SetupIsWhole /\ Inhabited

UserPasswords == {u.password : u \in admins}

\* What a login knows of the users is at most as old as the login.
LoginOK(r) ==
    /\ pc[r] \in Trying => req[r].key \in Keys /\ InForce \subseteq seen[r]
    /\ pc[r] = "initialize" => req[r].key = None /\ req[r].password \in Passwords
    /\ pc[r] # "settle" => user[r] = {}
    /\ pc[r] = "settle" =>
         \A u \in user[r] : u.password \in UserPasswords /\ u.secret \in seen[r]
    /\ pc[r] = "session" =>
         /\ req[r].password \in UserPasswords
         /\ req[r].key # None => {req[r].code, None} \cap seen[r] # {}

LoginInv == \A r \in Requests : LoginOK(r)

\* The logins of a client address that the limiter has let through.
InFlight(k) == {r \in Requests : pc[r] \in Trying /\ req[r].key = k}

Budget == Threshold + Cardinality(Requests) - 1

\* While a key is blocked nobody joins those in flight, and each fails once.
LimiterOK(k) ==
    IF attempts[k].blocked THEN guesses[k] + Cardinality(InFlight(k)) <= Budget
                           ELSE guesses[k] <= attempts[k].count

LimiterInv == \A k \in Keys : LimiterOK(k)

IInv == TypeOK /\ SetupInv /\ LoginInv /\ LimiterInv

-------------------------------------------------------------------------------
(* Types *)

LEMMA InitType == Init => TypeOK
BY AuthAssumption DEF Init, TypeOK, Open, Input, NoInput, Steps, Factors

\* What Take, Goto and End write.
LEMMA MovesType ==
    ASSUME TypeOK, NEW r \in Requests, NEW step \in Steps, NEW k \in Keys \cup {None},
           NEW p \in Passwords \cup {None}, NEW c \in Factors
    PROVE  /\ Take(r, step, k, p, c) \/ Goto(r, step) \/ End(r) =>
                pc' \in [Requests -> Steps] /\ req' \in [Requests -> Input]
           /\ EndLogin(r) => /\ pc' \in [Requests -> Steps] /\ req' \in [Requests -> Input]
                             /\ user' \in [Requests -> SUBSET Users]
                             /\ seen' \in [Requests -> SUBSET Factors]
<1>1. ASSUME NEW st \in Steps, NEW kk \in Keys \cup {None}, NEW pp \in Passwords \cup {None},
             NEW cc \in Factors, Take(r, st, kk, pp, cc)
      PROVE  pc' \in [Requests -> Steps] /\ req' \in [Requests -> Input]
    <2>1. [key |-> kk, password |-> pp, code |-> cc] \in Input
        BY DEF Input
    <2> QED
        BY <1>1, <2>1 DEF TypeOK, Take
<1>2. Goto(r, step) => pc' \in [Requests -> Steps] /\ req' \in [Requests -> Input]
    BY DEF TypeOK, Goto
<1>3. "idle" \in Steps /\ None \in Factors
    BY DEF Steps, Factors
<1>4. End(r) => pc' \in [Requests -> Steps] /\ req' \in [Requests -> Input]
    BY <1>1, <1>3 DEF End
<1>5. EndLogin(r) => /\ user' \in [Requests -> SUBSET Users]
                     /\ seen' \in [Requests -> SUBSET Factors]
    BY DEF TypeOK, EndLogin
<1> QED
    BY <1>1, <1>2, <1>4, <1>5 DEF EndLogin

LEMMA LimiterType ==
    ASSUME TypeOK, NEW k \in Keys
    PROVE  failed(k) \/ clear(k) =>
               /\ attempts' \in [Keys -> [count : 0..(Threshold - 1), blocked : BOOLEAN]]
               /\ guesses' \in [Keys -> Nat]
<1> DEFINE Attempt == [count : 0..(Threshold - 1), blocked : BOOLEAN]
<1>1. /\ [count |-> 0, blocked |-> TRUE] \in Attempt
      /\ [count |-> 0, blocked |-> FALSE] \in Attempt
    BY AuthAssumption
<1>2. ASSUME attempts[k].count + 1 < Threshold
      PROVE  [count |-> attempts[k].count + 1, blocked |-> attempts[k].blocked] \in Attempt
    BY <1>2, AuthAssumption DEF TypeOK
<1>3. attempts[k].count \in Nat
    BY AuthAssumption DEF TypeOK
<1>4. failed(k) => attempts' \in [Keys -> Attempt]
    <2>1. CASE attempts[k].count + 1 >= Threshold
        BY <1>1, <2>1 DEF failed, TypeOK
    <2>2. CASE attempts[k].count + 1 < Threshold
        <3>1. ~(attempts[k].count + 1 >= Threshold)
            BY <1>3, <2>2, AuthAssumption
        <3>. HIDE DEF Attempt
        <3>2. attempts \in [Keys -> Attempt]
            BY DEF TypeOK, Attempt
        <3> QED
            BY <1>2, <2>2, <3>1, <3>2 DEF failed
    <2> QED
        BY <1>3, <2>1, <2>2, AuthAssumption
<1>5. clear(k) => attempts' \in [Keys -> Attempt]
    BY <1>1 DEF clear, Open, TypeOK
<1>6. failed(k) \/ clear(k) => guesses' \in [Keys -> Nat]
    BY DEF failed, clear, TypeOK
<1> QED
    BY <1>4, <1>5, <1>6

LEMMA BeginType ==
    ASSUME TypeOK, NEW r \in Requests, Begin(r)
    PROVE  TypeOK'
<1> USE DEF tables, limiter, copies
<1>1. /\ Steps = Steps \cup {"initialize", "read", "confirm", "disable", "policy"}
      /\ None \in Factors /\ Secrets \subseteq Factors
    BY DEF Steps, Factors
<1>0. InForce \subseteq Factors
    <2>1. \A u \in admins : u.secret \in Factors
        BY DEF TypeOK, Users
    <2> QED
        BY <1>1, <2>1 DEF InForce
<1>2. ASSUME NEW p \in Passwords, SetupCheck(r, p)
      PROVE  TypeOK'
    BY <1>1, <1>2, MovesType DEF SetupCheck, TypeOK
<1>3. ASSUME NEW k \in Keys, NEW p \in Passwords, NEW c \in Factors, LoginAllowed(r, k, p, c)
      PROVE  TypeOK'
    BY <1>0, <1>1, <1>3, MovesType DEF LoginAllowed, TypeOK
<1>4. ASSUME NEW t \in Tokens, NEW step \in Steps, NEW p \in Passwords \cup {None},
             NEW c \in Factors, Protected(r, t, step, p, c)
      PROVE  TypeOK'
    BY <1>4, MovesType DEF Protected, TypeOK
<1>5. ASSUME NEW t \in Tokens, NEW c \in Secrets, ConfirmTOTP(r, t, c)
      PROVE  TypeOK'
    BY <1>1, <1>4, <1>5 DEF ConfirmTOTP
<1>6. ASSUME NEW t \in Tokens, NEW p \in Passwords, NEW c \in Secrets, DisableTOTP(r, t, p, c)
      PROVE  TypeOK'
    BY <1>1, <1>4, <1>6 DEF DisableTOTP
<1>7. ASSUME NEW t \in Tokens, UpdateAccessPolicy(r, t)
      PROVE  TypeOK'
    BY <1>1, <1>4, <1>7 DEF UpdateAccessPolicy
<1> QED
    BY <1>2, <1>3, <1>5, <1>6, <1>7 DEF Begin

LEMMA ContinueType ==
    ASSUME TypeOK, LoginInv, NEW r \in Requests, Continue(r)
    PROVE  TypeOK'
<1> USE DEF tables, limiter, copies
<1>0. /\ Steps = Steps \cup {"session", "enable", "switch off", "settle"}
      /\ None \in Factors
    BY DEF Steps, Factors
<1> USE <1>0, MovesType
<1>1. CASE InitializeAdmin(r)
    <2>1. req[r].password \in Passwords
        BY <1>1 DEF InitializeAdmin, LoginInv, LoginOK
    <2>2. [password |-> req[r].password, secret |-> None] \in Users
        BY <2>1 DEF Users, Factors
    <2> QED
        BY <1>1, <2>1, <2>2 DEF InitializeAdmin, TypeOK
<1>2. CASE ReadUser(r)
    BY <1>2 DEF ReadUser, TypeOK
<1>3. CASE LoginFails(r)
    <2>1. req[r].key \in Keys
        BY <1>3 DEF LoginFails, LoginInv, LoginOK, Trying
    <2> QED
        BY <1>3, <2>1, LimiterType DEF LoginFails, TypeOK
<1>4. CASE LoginAsksForCode(r)
    <2>1. EndLogin(r) /\ UNCHANGED <<tables, limiter, boots>>
        BY <1>4 DEF LoginAsksForCode
    <2>2. /\ pc' \in [Requests -> Steps] /\ req' \in [Requests -> Input]
          /\ user' \in [Requests -> SUBSET Users]
          /\ seen' \in [Requests -> SUBSET Factors]
        BY <2>1
    <2> QED
        BY <2>1, <2>2 DEF TypeOK
<1>5. CASE LoginSucceeds(r)
    <2>1. req[r].key \in Keys
        BY <1>5 DEF LoginSucceeds, LoginInv, LoginOK, Trying
    <2> QED
        BY <1>5, <2>1, LimiterType DEF LoginSucceeds, TypeOK
<1>6. CASE CreateSession(r)
    BY <1>6 DEF CreateSession, TypeOK
<1>7. CASE ReadForConfirm(r)
    BY <1>7 DEF ReadForConfirm, TypeOK
<1>8. CASE ReadForDisable(r)
    BY <1>8 DEF ReadForDisable, TypeOK
<1>9. CASE WriteTOTP(r)
    <2>1. ASSUME NEW s \in Factors, SetUserTOTP(s)
          PROVE  admins' \in SUBSET Users /\ seen' \in [Requests -> SUBSET Factors]
        <3>1. \A u \in admins : [password |-> u.password, secret |-> s] \in Users
            BY DEF TypeOK, Users
        <3>2. admins' \in SUBSET Users
            BY <2>1, <3>1 DEF SetUserTOTP
        <3>3. seen' \in [Requests -> SUBSET Factors]
            BY <2>1 DEF SetUserTOTP, TypeOK
        <3> QED
            BY <3>2, <3>3
    <2>2. req[r].code \in Factors
        BY DEF TypeOK, Input
    <2>3. admins' \in SUBSET Users /\ seen' \in [Requests -> SUBSET Factors]
        BY <1>9, <2>1, <2>2 DEF WriteTOTP, TypeOK
    <2> QED
        BY <1>9, <2>3 DEF WriteTOTP, TypeOK
<1>10. CASE SetAccessPolicy(r)
    BY <1>10 DEF SetAccessPolicy, TypeOK
<1> QED
    BY <1>1, <1>2, <1>3, <1>4, <1>5, <1>6, <1>7, <1>8, <1>9, <1>10 DEF Continue

\* The steps that are not of a request.
Others ==
    \/ \E k \in Keys : BlockEnds(k)
    \/ \E t \in Tokens : SessionExpires(t) \/ DeleteSession(t)
    \/ Restart
    \/ UNCHANGED vars

LEMMA OthersType ==
    ASSUME TypeOK, Others
    PROVE  TypeOK'
<1> USE DEF tables, limiter, copies
<1>1. ASSUME NEW k \in Keys, BlockEnds(k)
      PROVE  TypeOK'
    BY <1>1 DEF BlockEnds, TypeOK
<1>2. ASSUME NEW t \in Tokens, SessionExpires(t) \/ DeleteSession(t)
      PROVE  TypeOK'
    BY <1>2 DEF SessionExpires, DeleteSession, TypeOK
<1>3. CASE Restart
    <2>1. NoInput \in Input /\ "idle" \in Steps
        BY DEF NoInput, Input, Factors, Steps
    <2>2. Open \in [count : 0..(Threshold - 1), blocked : BOOLEAN]
        BY AuthAssumption DEF Open
    <2>3. sessions' \in [Tokens -> {"none", "live", "expired", "gone"}]
        BY <1>3 DEF Restart, TypeOK
    <2> QED
        BY <1>3, <2>1, <2>2, <2>3, AuthAssumption DEF Restart, TypeOK
<1>4. CASE UNCHANGED vars
    BY <1>4 DEF vars, TypeOK
<1> QED
    BY <1>1, <1>2, <1>3, <1>4 DEF Others
-------------------------------------------------------------------------------
(* Setup *)

\* A write of the second factor keeps the passwords.
LEMMA Rewritten ==
    ASSUME NEW s, admins # {},
           admins' = {[password |-> u.password, secret |-> s] : u \in admins}
    PROVE  UserPasswords' = UserPasswords /\ admins' # {} /\ InForce' \subseteq {s}
<1>1. \A v \in admins' : v.secret = s /\ \E u \in admins : v.password = u.password
    OBVIOUS
<1>2. \A u \in admins : [password |-> u.password, secret |-> s] \in admins'
    OBVIOUS
<1>3. \A u \in admins : \E v \in admins' : v.password = u.password
    <2> SUFFICES ASSUME NEW u \in admins
                 PROVE  \E v \in admins' : v.password = u.password
        OBVIOUS
    <2> WITNESS [password |-> u.password, secret |-> s] \in admins'
    <2> QED
        OBVIOUS
<1>4. admins' # {}
    BY <1>2
<1>5. InForce' \subseteq {s}
    BY <1>1, <1>4 DEF InForce
<1>6. UserPasswords' = UserPasswords
    BY <1>1, <1>3 DEF UserPasswords
<1> QED
    BY <1>4, <1>5, <1>6

\* A step that leaves the users and the policy alone and lets nobody in.
LEMMA SetupSteady ==
    ASSUME SetupInv, UNCHANGED <<admins, policy>>,
           \A t \in Tokens : sessions'[t] # "none" => sessions[t] # "none" \/ admins # {},
           \A r \in Requests : pc'[r] \in Inside => pc[r] \in Inside \/ admins # {}
    PROVE  SetupInv'
BY DEF SetupInv, SetupIsWhole, Inhabited

LEMMA BeginSetup ==
    ASSUME TypeOK, SetupInv, NEW r \in Requests, Begin(r)
    PROVE  SetupInv'
<1> USE DEF tables, limiter, copies, Take
<1>1. UNCHANGED <<admins, policy, sessions>>
    BY DEF Begin, SetupCheck, LoginAllowed, ConfirmTOTP, DisableTOTP, UpdateAccessPolicy, Protected
<1>2. \A q \in Requests \ {r} : pc'[q] = pc[q]
    BY DEF TypeOK, Begin, SetupCheck, LoginAllowed, ConfirmTOTP, DisableTOTP, UpdateAccessPolicy,
           Protected
<1>3. CASE \E p \in Passwords : SetupCheck(r, p)
    <2>1. pc'[r] = "initialize"
        BY <1>3 DEF SetupCheck, TypeOK
    <2> QED
        BY <1>1, <1>2, <2>1, SetupSteady DEF Inside
<1>4. CASE \E k \in Keys, p \in Passwords, c \in Factors : LoginAllowed(r, k, p, c)
    <2>1. pc'[r] = "read"
        BY <1>4 DEF LoginAllowed, TypeOK
    <2> QED
        BY <1>1, <1>2, <2>1, SetupSteady DEF Inside
<1>5. ASSUME NEW t \in Tokens, sessions[t] = "live"
      PROVE  SetupInv'
    <2>1. admins # {}
        BY <1>5 DEF SetupInv, Inhabited
    <2> QED
        BY <1>1, <2>1, SetupSteady
<1> QED
    BY <1>3, <1>4, <1>5 DEF Begin, ConfirmTOTP, DisableTOTP, UpdateAccessPolicy, Protected

LEMMA ContinueSetup ==
    ASSUME TypeOK, SetupInv, LoginInv, NEW r \in Requests, Continue(r)
    PROVE  SetupInv'
<1> USE DEF tables, limiter, copies, Take, Goto, End, EndLogin, Inside
<1>1. CASE InitializeAdmin(r)
    <2>1. CASE UNCHANGED <<admins, policy>> /\ End(r)
        BY <1>1, <2>1, SetupSteady DEF InitializeAdmin, TypeOK
    <2>2. CASE admins = {} /\ policy' = req[r].password
               /\ admins' = {[password |-> req[r].password, secret |-> None]}
        <3>1. req[r].password \in Passwords
            BY <1>1 DEF InitializeAdmin, LoginInv, LoginOK
        <3>2. policy' # "default"
            BY <2>2, <3>1, AuthAssumption
        <3>3. SetupIsWhole'
            BY <2>2, <3>2 DEF SetupIsWhole
        <3>4. Inhabited'
            BY <2>2 DEF Inhabited
        <3> QED
            BY <3>3, <3>4 DEF SetupInv
    <2> QED
        BY <1>1, <2>1, <2>2 DEF InitializeAdmin
<1>2. CASE ReadUser(r)
    BY <1>2, SetupSteady DEF ReadUser, TypeOK
<1>3. CASE LoginFails(r) \/ LoginAsksForCode(r)
    BY <1>3, SetupSteady DEF LoginFails, LoginAsksForCode, TypeOK
<1>4. CASE LoginSucceeds(r)
    <2>1. admins # {}
        BY <1>4 DEF LoginSucceeds, PasswordRight, LoginInv, LoginOK, UserPasswords
    <2> QED
        BY <1>4, <2>1, SetupSteady DEF LoginSucceeds, TypeOK
<1>5. CASE CreateSession(r)
    <2>1. admins # {}
        BY <1>5 DEF CreateSession, SetupInv, Inhabited
    <2> QED
        BY <1>5, <2>1, SetupSteady DEF CreateSession, TypeOK
<1>6. CASE ReadForConfirm(r) \/ ReadForDisable(r)
    <2>1. admins # {}
        BY <1>6 DEF ReadForConfirm, ReadForDisable, SetupInv, Inhabited
    <2> QED
        BY <1>6, <2>1, SetupSteady DEF ReadForConfirm, ReadForDisable, TypeOK
<1>7. CASE WriteTOTP(r)
    <2>1. admins # {} /\ UNCHANGED <<policy, sessions>>
        BY <1>7 DEF WriteTOTP, SetupInv, Inhabited
    <2>2. CASE UNCHANGED admins
        BY <1>7, <2>1, <2>2, SetupSteady DEF WriteTOTP, TypeOK
    <2>3. ASSUME NEW s, admins' = {[password |-> u.password, secret |-> s] : u \in admins}
          PROVE  SetupInv'
        <3>1. admins' # {} /\ UserPasswords' = UserPasswords
            BY <2>1, <2>3, Rewritten
        <3>2. \A u, v \in admins' : u = v
            BY <2>3 DEF SetupInv, SetupIsWhole
        <3>4. SetupIsWhole'
            <4>1. policy \in {"default", "updated"} \cup {u.password : u \in admins}
                BY DEF SetupInv, SetupIsWhole
            <4>2. policy' \in {"default", "updated"} \cup {u.password : u \in admins'}
                BY <2>1, <3>1, <4>1 DEF UserPasswords
            <4>3. policy' # "default"
                BY <2>1 DEF SetupInv, SetupIsWhole
            <4> QED
                BY <3>1, <3>2, <4>2, <4>3 DEF SetupIsWhole
        <3> QED
            BY <3>1, <3>4 DEF SetupInv, Inhabited
    <2> QED
        BY <1>7, <2>2, <2>3 DEF WriteTOTP, SetUserTOTP
<1>8. CASE SetAccessPolicy(r)
    <2>1. admins # {}
        BY <1>8 DEF SetAccessPolicy, SetupInv, Inhabited
    <2>2. SetupIsWhole'
        BY <1>8, <2>1 DEF SetAccessPolicy, SetupInv, SetupIsWhole
    <2>3. Inhabited'
        BY <1>8, <2>1 DEF SetAccessPolicy, Inhabited
    <2> QED
        BY <2>2, <2>3 DEF SetupInv
<1> QED
    BY <1>1, <1>2, <1>3, <1>4, <1>5, <1>6, <1>7, <1>8 DEF Continue

LEMMA OthersSetup ==
    ASSUME TypeOK, SetupInv, Others
    PROVE  SetupInv'
<1> USE DEF tables, limiter, copies, Inside
<1>1. ASSUME NEW k \in Keys, BlockEnds(k)
      PROVE  SetupInv'
    BY <1>1, SetupSteady DEF BlockEnds
<1>2. ASSUME NEW t \in Tokens, SessionExpires(t) \/ DeleteSession(t)
      PROVE  SetupInv'
    <2>1. \A x \in Tokens : sessions'[x] # "none" => sessions[x] # "none"
        BY <1>2 DEF SessionExpires, DeleteSession, TypeOK
    <2> QED
        BY <1>2, <2>1, SetupSteady DEF SessionExpires, DeleteSession
<1>3. CASE Restart
    BY <1>3, SetupSteady DEF Restart, TypeOK
<1>4. CASE UNCHANGED vars
    BY <1>4, SetupSteady DEF vars
<1> QED
    BY <1>1, <1>2, <1>3, <1>4 DEF Others
-------------------------------------------------------------------------------
(* Logins *)

\* A step that leaves q's request alone and forgets no factor and no password.
LEMMA LoginKept ==
    ASSUME NEW q \in Requests, LoginOK(q),
           pc'[q] = pc[q], req'[q] = req[q], user'[q] = user[q],
           seen[q] \subseteq seen'[q], UserPasswords \subseteq UserPasswords',
           pc[q] \in Trying => InForce' \subseteq seen'[q]
    PROVE  LoginOK(q)'
BY DEF LoginOK

\* A request whose step says nothing about a login.
LEMMA LoginElsewhere ==
    ASSUME NEW q \in Requests, pc'[q] \notin Trying \cup {"initialize", "session"},
           user'[q] = {}
    PROVE  LoginOK(q)'
BY DEF LoginOK, Trying

\* A step of r that does not touch the users.
LEMMA LoginOthersKept ==
    ASSUME LoginInv, NEW r \in Requests, UNCHANGED admins, LoginOK(r)',
           \A q \in Requests \ {r} : /\ pc'[q] = pc[q] /\ req'[q] = req[q]
                                    /\ user'[q] = user[q] /\ seen'[q] = seen[q]
    PROVE  LoginInv'
<1>1. ASSUME NEW q \in Requests \ {r}
      PROVE  LoginOK(q)'
    <2>1. UserPasswords' = UserPasswords /\ InForce' = InForce
        BY DEF UserPasswords, InForce
    <2> QED
        BY <1>1, <2>1, LoginKept DEF LoginInv, LoginOK
<1> QED
    BY <1>1 DEF LoginInv

LEMMA BeginLogin ==
    ASSUME TypeOK, SetupInv, LoginInv, NEW r \in Requests, Begin(r)
    PROVE  LoginInv'
<1> USE DEF tables, limiter, copies, Take, Trying
<1>1. UNCHANGED admins
    BY DEF Begin, SetupCheck, LoginAllowed, ConfirmTOTP, DisableTOTP, UpdateAccessPolicy, Protected
<1>2. \A q \in Requests \ {r} : /\ pc'[q] = pc[q] /\ req'[q] = req[q]
                               /\ user'[q] = user[q] /\ seen'[q] = seen[q]
    BY DEF TypeOK, Begin, SetupCheck, LoginAllowed, ConfirmTOTP, DisableTOTP, UpdateAccessPolicy,
           Protected
<1>7. pc[r] = "idle" /\ user'[r] = {}
    BY DEF Begin, SetupCheck, LoginAllowed, ConfirmTOTP, DisableTOTP, UpdateAccessPolicy, Protected,
           LoginInv, LoginOK
<1>3. ASSUME NEW p \in Passwords, SetupCheck(r, p)
      PROVE  LoginOK(r)'
    BY <1>3, <1>7 DEF SetupCheck, TypeOK, LoginOK
<1>4. ASSUME NEW k \in Keys, NEW p \in Passwords, NEW c \in Factors, LoginAllowed(r, k, p, c)
      PROVE  LoginOK(r)'
    <2>1. /\ pc'[r] = "read" /\ req'[r].key = k /\ seen'[r] = InForce
        BY <1>4 DEF LoginAllowed, TypeOK
    <2>2. InForce' = InForce
        BY <1>1 DEF InForce
    <2> QED
        BY <1>7, <2>1, <2>2 DEF LoginOK
<1>5. ASSUME NEW t \in Tokens, NEW step \in {"confirm", "disable", "policy"},
             NEW p, NEW c, Protected(r, t, step, p, c)
      PROVE  LoginOK(r)'
    <2>1. pc'[r] = step
        BY <1>5 DEF Protected, TypeOK
    <2> QED
        BY <1>7, <2>1, LoginElsewhere
<1>6. LoginOK(r)'
    BY <1>3, <1>4, <1>5 DEF Begin, ConfirmTOTP, DisableTOTP, UpdateAccessPolicy
<1> QED
    BY <1>1, <1>2, <1>6, LoginOthersKept

LEMMA ContinueLogin ==
    ASSUME TypeOK, SetupInv, LoginInv, NEW r \in Requests, Continue(r)
    PROVE  LoginInv'
<1> USE DEF tables, limiter, copies, Take, Goto, End, EndLogin, Trying
<1> DEFINE Else == \A q \in Requests \ {r} : /\ pc'[q] = pc[q] /\ req'[q] = req[q]
                                            /\ user'[q] = user[q] /\ seen'[q] = seen[q]
<1>1. CASE InitializeAdmin(r)
    <2>1. Else /\ UNCHANGED copies
        BY <1>1 DEF InitializeAdmin, TypeOK
    <2>2. CASE UNCHANGED admins /\ End(r)
        <3>1. pc'[r] = "idle" /\ user'[r] = {}
            BY <1>1, <2>1, <2>2 DEF InitializeAdmin, TypeOK, LoginInv, LoginOK
        <3> QED
            BY <2>1, <2>2, <3>1, LoginElsewhere, LoginOthersKept
    <2>3. CASE admins = {} /\ admins' = {[password |-> req[r].password, secret |-> None]}
               /\ Goto(r, "session")
        <3>1. req[r].password \in UserPasswords' /\ InForce' = InForce /\ UserPasswords = {}
            BY <2>3 DEF UserPasswords, InForce
        <3>2. /\ pc'[r] = "session" /\ req'[r] = req[r] /\ req[r].key = None
              /\ user'[r] = {}
            BY <1>1, <2>3 DEF InitializeAdmin, TypeOK, LoginInv, LoginOK
        <3>3. LoginOK(r)'
            BY <3>1, <3>2 DEF LoginOK
        <3>4. ASSUME NEW q \in Requests \ {r}
              PROVE  LoginOK(q)'
            BY <2>1, <3>1, <3>4, LoginKept DEF LoginInv, LoginOK
        <3> QED
            BY <3>3, <3>4 DEF LoginInv
    <2> QED
        BY <1>1, <2>2, <2>3 DEF InitializeAdmin
<1>2. CASE ReadUser(r)
    <2>1. Else /\ UNCHANGED admins /\ UNCHANGED seen /\ UNCHANGED req
        BY <1>2 DEF ReadUser, TypeOK
    <2>2. pc[r] = "read" /\ pc'[r] = "settle" /\ user'[r] \in {admins, {}}
        BY <1>2 DEF ReadUser, TypeOK, LoginInv, LoginOK
    <2>3. \A u \in admins : u.password \in UserPasswords /\ u.secret \in InForce
        BY DEF UserPasswords, InForce
    <2>4. req[r].key \in Keys /\ InForce \subseteq seen[r]
        BY <2>2 DEF LoginInv, LoginOK
    <2>5. UserPasswords' = UserPasswords /\ InForce' = InForce
        BY <2>1 DEF UserPasswords, InForce
    <2>6. LoginOK(r)'
        BY <2>1, <2>2, <2>3, <2>4, <2>5 DEF LoginOK
    <2> QED
        BY <2>1, <2>6, LoginOthersKept
<1>3. CASE LoginFails(r) \/ LoginAsksForCode(r) \/ CreateSession(r)
    <2>1. Else /\ UNCHANGED admins
        BY <1>3 DEF LoginFails, LoginAsksForCode, CreateSession, TypeOK
    <2>2. pc'[r] = "idle" /\ user'[r] = {}
        BY <1>3 DEF LoginFails, LoginAsksForCode, CreateSession, TypeOK
    <2> QED
        BY <2>1, <2>2, LoginElsewhere, LoginOthersKept
<1>4. CASE LoginSucceeds(r)
    <2>1. /\ Else /\ UNCHANGED admins /\ UNCHANGED seen /\ UNCHANGED req
          /\ pc[r] = "settle" /\ pc'[r] = "session" /\ user'[r] = {}
        BY <1>4 DEF LoginSucceeds, TypeOK
    <2>2. PICK u \in user[r] : u.password = req[r].password
        BY <1>4 DEF LoginSucceeds, PasswordRight
    <2>3. u.password \in UserPasswords /\ u.secret \in seen[r]
        BY <2>1 DEF LoginInv, LoginOK
    <2>4. u.secret \in {req[r].code, None}
        BY <1>4 DEF LoginSucceeds, SecondFactor
    <2>5. UserPasswords' = UserPasswords
        BY <2>1 DEF UserPasswords
    <2>6. LoginOK(r)'
        BY <2>1, <2>2, <2>3, <2>4, <2>5 DEF LoginOK
    <2> QED
        BY <2>1, <2>6, LoginOthersKept
<1>5. CASE ReadForConfirm(r) \/ ReadForDisable(r) \/ SetAccessPolicy(r)
    <2>1. Else /\ UNCHANGED admins
        BY <1>5 DEF ReadForConfirm, ReadForDisable, SetAccessPolicy, TypeOK
    <2>2. pc'[r] \in {"idle", "enable", "switch off"}
        BY <1>5 DEF ReadForConfirm, ReadForDisable, SetAccessPolicy, TypeOK
    <2>3. user'[r] = {}
        BY <1>5 DEF ReadForConfirm, ReadForDisable, SetAccessPolicy, LoginInv, LoginOK
    <2> QED
        BY <2>1, <2>2, <2>3, LoginElsewhere, LoginOthersKept
<1>6. CASE WriteTOTP(r)
    <2>1. /\ \A q \in Requests \ {r} : pc'[q] = pc[q] /\ req'[q] = req[q]
          /\ UNCHANGED user /\ pc'[r] = "idle" /\ pc[r] # "settle"
        BY <1>6 DEF WriteTOTP, TypeOK
    <2>2. LoginOK(r)'
        BY <2>1, LoginElsewhere DEF LoginInv, LoginOK
    <2>3. CASE UNCHANGED <<admins, seen>>
        BY <2>1, <2>2, <2>3, LoginOthersKept
    <2>4. ASSUME NEW s, SetUserTOTP(s)
          PROVE  LoginInv'
        <3>1. admins # {}
            BY <1>6 DEF WriteTOTP, SetupInv, Inhabited, Inside
        <3>2. UserPasswords' = UserPasswords /\ InForce' \subseteq {s}
            BY <2>4, <3>1, Rewritten DEF SetUserTOTP
        <3>4. \A q \in Requests : /\ seen[q] \subseteq seen'[q]
                                  /\ pc[q] \in Trying => s \in seen'[q]
            BY <2>4 DEF SetUserTOTP
        <3>5. ASSUME NEW q \in Requests \ {r}
              PROVE  LoginOK(q)'
            BY <2>1, <3>2, <3>4, <3>5, LoginKept DEF LoginInv
        <3> QED
            BY <2>2, <3>5 DEF LoginInv
    <2> QED
        BY <1>6, <2>3, <2>4 DEF WriteTOTP
<1> QED
    BY <1>1, <1>2, <1>3, <1>4, <1>5, <1>6 DEF Continue

LEMMA OthersLogin ==
    ASSUME TypeOK, LoginInv, Others
    PROVE  LoginInv'
<1> USE DEF tables, limiter, copies
<1>1. CASE UNCHANGED <<admins, pc, req, user, seen>>
    <2>1. UserPasswords' = UserPasswords /\ InForce' = InForce
        BY <1>1 DEF UserPasswords, InForce
    <2> QED
        BY <1>1, <2>1 DEF LoginInv, LoginOK
<1>2. CASE Restart
    <2>1. \A q \in Requests : pc'[q] = "idle" /\ user'[q] = {}
        BY <1>2 DEF Restart
    <2> QED
        BY <2>1, LoginElsewhere DEF LoginInv, Trying
<1> QED
    BY <1>1, <1>2 DEF Others, BlockEnds, SessionExpires, DeleteSession, vars
-------------------------------------------------------------------------------
(* The limiter *)

LEMMA InFlightFinite ==
    ASSUME NEW k
    PROVE  /\ IsFiniteSet(InFlight(k)) /\ Cardinality(InFlight(k)) \in Nat
           /\ Cardinality(Requests) \in Nat
BY AuthAssumption, FS_Subset, FS_CardinalityType DEF InFlight

\* A step after which no more logins of k are in flight, and k's counters are what
\* they were.
LEMMA LimiterKept ==
    ASSUME TypeOK, NEW k \in Keys, LimiterOK(k),
           attempts'[k] = attempts[k], guesses'[k] = guesses[k],
           InFlight(k)' \subseteq InFlight(k)
    PROVE  LimiterOK(k)'
<1>1. Cardinality(InFlight(k)') <= Cardinality(InFlight(k))
    BY InFlightFinite, FS_Subset
<1>2. Cardinality(InFlight(k)') \in Nat /\ Cardinality(InFlight(k)) \in Nat
    BY InFlightFinite, FS_Subset, FS_CardinalityType
<1>3. guesses[k] \in Nat /\ Budget \in Int
    <2>1. Threshold \in Nat
        BY AuthAssumption
    <2>2. guesses[k] \in Nat
        BY DEF TypeOK
    <2> QED
        BY <2>1, <2>2, InFlightFinite DEF Budget
<1>4. Budget' = Budget
    BY DEF Budget
<1> QED
    BY <1>1, <1>2, <1>3, <1>4 DEF LimiterOK

\* Steps that leave the limiter alone.
LEMMA LimiterSteady ==
    ASSUME TypeOK, LimiterInv, UNCHANGED limiter,
           \A q \in Requests : pc'[q] \in Trying => pc[q] \in Trying /\ req'[q].key = req[q].key
    PROVE  LimiterInv'
<1>1. ASSUME NEW k \in Keys
      PROVE  LimiterOK(k)'
    <2>1. InFlight(k)' \subseteq InFlight(k)
        BY DEF InFlight
    <2> QED
        BY <2>1, LimiterKept DEF LimiterInv, limiter
<1> QED
    BY <1>1 DEF LimiterInv

LEMMA BeginLimiter ==
    ASSUME TypeOK, LimiterInv, NEW r \in Requests, Begin(r)
    PROVE  LimiterInv'
<1> USE DEF tables, limiter, copies, Take, Trying
<1>1. ASSUME NEW l \in Keys, NEW p \in Passwords, NEW c \in Factors, LoginAllowed(r, l, p, c)
      PROVE  LimiterInv'
    <2>1. /\ UNCHANGED limiter /\ ~attempts[l].blocked /\ req'[r].key = l
          /\ \A q \in Requests \ {r} : pc'[q] = pc[q] /\ req'[q] = req[q]
        BY <1>1 DEF LoginAllowed, TypeOK
    <2>2. ASSUME NEW k \in Keys \ {l}
          PROVE  LimiterOK(k)'
        <3>1. InFlight(k)' \subseteq InFlight(k)
            BY <2>1, <2>2 DEF InFlight
        <3> QED
            BY <2>1, <3>1, LimiterKept DEF LimiterInv
    <2>3. LimiterOK(l)'
        BY <2>1 DEF LimiterInv, LimiterOK
    <2> QED
        BY <2>2, <2>3 DEF LimiterInv
<1>2. CASE \E p \in Passwords : SetupCheck(r, p)
    BY <1>2, LimiterSteady DEF SetupCheck, TypeOK
<1>3. ASSUME NEW t \in Tokens, NEW step \in {"confirm", "disable", "policy"},
             NEW p, NEW c, Protected(r, t, step, p, c)
      PROVE  LimiterInv'
    BY <1>3, LimiterSteady DEF Protected, TypeOK
<1> QED
    BY <1>1, <1>2, <1>3 DEF Begin, ConfirmTOTP, DisableTOTP, UpdateAccessPolicy

\* The failure that blocks a key is counted, and so may be each of those in flight.
LEMMA FailureCounted ==
    ASSUME TypeOK, LimiterInv, LoginInv, NEW r \in Requests, LoginFails(r)
    PROVE  LimiterInv'
<1>0. PICK k \in Keys : k = req[r].key
    BY DEF LoginFails, LoginInv, LoginOK, Trying
<1>1. k \in Keys /\ r \in InFlight(k) /\ pc'[r] = "idle" /\ failed(k)
    BY <1>0 DEF LoginFails, Trying, InFlight, EndLogin, End, Take, TypeOK
<1>2. \A q \in Requests \ {r} : pc'[q] = pc[q] /\ req'[q] = req[q]
    BY DEF LoginFails, EndLogin, End, Take, TypeOK
<1>3. \A l : InFlight(l)' = InFlight(l) \ {r}
    BY <1>1, <1>2 DEF InFlight, Trying
<1>4. ASSUME NEW l \in Keys \ {k}
      PROVE  LimiterOK(l)'
    <2>1. attempts'[l] = attempts[l] /\ guesses'[l] = guesses[l]
        BY <1>1, <1>4 DEF failed, TypeOK
    <2> QED
        BY <1>3, <2>1, LimiterKept DEF LimiterInv
<1>5. LimiterOK(k)'
    <2> DEFINE n == Cardinality(InFlight(k))
    <2>1. /\ n \in Nat /\ Cardinality(InFlight(k)') = n - 1
          /\ n <= Cardinality(Requests) /\ Cardinality(Requests) \in Nat
        <3>1. IsFiniteSet(InFlight(k)) /\ n \in Nat /\ Cardinality(Requests) \in Nat
            BY InFlightFinite
        <3>2. Cardinality(InFlight(k) \ {r}) = n - 1
            BY <1>1, <3>1, FS_RemoveElement
        <3>3. n <= Cardinality(Requests)
            BY AuthAssumption, FS_Subset DEF InFlight
        <3> QED
            BY <1>3, <3>1, <3>2, <3>3
    <2>2. /\ attempts[k].count \in 0..(Threshold - 1) /\ attempts[k].blocked \in BOOLEAN
          /\ guesses[k] \in Nat
        BY <1>1 DEF TypeOK
    <2>3. guesses'[k] = guesses[k] + 1
        BY <1>1 DEF failed, TypeOK
    <2>4. LimiterOK(k)
        BY <1>1 DEF LimiterInv
    <2>5. CASE attempts[k].count + 1 >= Threshold
        <3>1. attempts'[k].blocked
            BY <1>1, <2>5 DEF failed, TypeOK
        <3> QED
            BY <2>1, <2>2, <2>3, <2>4, <2>5, <3>1, AuthAssumption DEF LimiterOK, Budget
    <2>6. CASE attempts[k].count + 1 < Threshold
        <3>1. attempts'[k].blocked = attempts[k].blocked /\ attempts'[k].count = attempts[k].count + 1
            <4>1. ~(attempts[k].count + 1 >= Threshold)
                BY <2>2, <2>6, AuthAssumption
            <4> QED
                BY <1>1, <4>1 DEF failed, TypeOK
        <3> QED
            BY <2>1, <2>2, <2>3, <2>4, <2>6, <3>1, AuthAssumption DEF LimiterOK, Budget
    <2> QED
        BY <2>2, <2>5, <2>6, AuthAssumption
<1> QED
    BY <1>4, <1>5 DEF LimiterInv

LEMMA ContinueLimiter ==
    ASSUME TypeOK, LimiterInv, LoginInv, NEW r \in Requests, Continue(r)
    PROVE  LimiterInv'
<1> USE DEF tables, limiter, copies, Take, Goto, End, EndLogin, Trying
<1>1. CASE LoginFails(r)
    BY <1>1, FailureCounted
<1>2. CASE LoginSucceeds(r)
    <2>0. PICK k \in Keys : k = req[r].key
        BY <1>2 DEF LoginSucceeds, LoginInv, LoginOK
    <2>1. /\ k \in Keys /\ clear(k) /\ pc'[r] = "session" /\ UNCHANGED req
          /\ \A q \in Requests \ {r} : pc'[q] = pc[q]
        BY <1>2, <2>0 DEF LoginSucceeds, TypeOK
    <2>2. ASSUME NEW l \in Keys \ {k}
          PROVE  LimiterOK(l)'
        <3>1. attempts'[l] = attempts[l] /\ guesses'[l] = guesses[l]
            BY <2>1, <2>2 DEF clear, TypeOK
        <3>2. InFlight(l)' \subseteq InFlight(l)
            BY <2>1 DEF InFlight
        <3> QED
            BY <3>1, <3>2, LimiterKept DEF LimiterInv
    <2>3. LimiterOK(k)'
        BY <2>1 DEF clear, Open, LimiterOK, TypeOK
    <2> QED
        BY <2>2, <2>3 DEF LimiterInv
<1>3. CASE InitializeAdmin(r) \/ ReadUser(r) \/ LoginAsksForCode(r) \/ CreateSession(r)
    <2>1. \A q \in Requests : pc'[q] \in Trying => pc[q] \in Trying /\ req'[q].key = req[q].key
        BY <1>3 DEF InitializeAdmin, ReadUser, LoginAsksForCode, CreateSession, TypeOK
    <2> QED
        BY <1>3, <2>1, LimiterSteady DEF InitializeAdmin, ReadUser, LoginAsksForCode, CreateSession
<1>4. CASE ReadForConfirm(r) \/ ReadForDisable(r) \/ WriteTOTP(r) \/ SetAccessPolicy(r)
    <2>1. \A q \in Requests : pc'[q] \in Trying => pc[q] \in Trying /\ req'[q].key = req[q].key
        BY <1>4 DEF ReadForConfirm, ReadForDisable, WriteTOTP, SetAccessPolicy, TypeOK
    <2> QED
        BY <1>4, <2>1, LimiterSteady DEF ReadForConfirm, ReadForDisable, WriteTOTP, SetAccessPolicy
<1> QED
    BY <1>1, <1>2, <1>3, <1>4 DEF Continue

LEMMA OthersLimiter ==
    ASSUME TypeOK, LimiterInv, Others
    PROVE  LimiterInv'
<1> USE DEF tables, limiter, copies
<1>1. ASSUME NEW k \in Keys, BlockEnds(k)
      PROVE  LimiterInv'
    <2>1. UNCHANGED <<pc, req>>
        BY <1>1 DEF BlockEnds
    <2>2. ASSUME NEW l \in Keys \ {k}
          PROVE  LimiterOK(l)'
        <3>1. attempts'[l] = attempts[l] /\ guesses'[l] = guesses[l]
            BY <1>1, <2>2 DEF BlockEnds, TypeOK
        <3>2. InFlight(l)' \subseteq InFlight(l)
            BY <2>1 DEF InFlight
        <3> QED
            BY <3>1, <3>2, LimiterKept DEF LimiterInv
    <2>3. LimiterOK(k)'
        <3>1. guesses'[k] = 0 /\ ~attempts'[k].blocked /\ attempts'[k].count = attempts[k].count
            BY <1>1 DEF BlockEnds, TypeOK
        <3>2. attempts[k].count >= 0
            BY AuthAssumption DEF TypeOK
        <3> QED
            BY <3>1, <3>2 DEF LimiterOK
    <2> QED
        BY <2>2, <2>3 DEF LimiterInv
<1>2. CASE UNCHANGED <<pc, req, limiter>>
    BY <1>2, LimiterSteady
<1>3. CASE Restart
    BY <1>3 DEF Restart, Open, LimiterInv, LimiterOK
<1> QED
    BY <1>1, <1>2, <1>3 DEF Others, SessionExpires, DeleteSession, vars

-------------------------------------------------------------------------------

LEMMA InitInv == Init => IInv
<1> SUFFICES ASSUME Init
             PROVE  IInv
    OBVIOUS
<1>1. SetupInv
    BY DEF Init, SetupInv, SetupIsWhole, Inhabited, Inside
<1>2. LoginInv
    BY DEF Init, LoginInv, LoginOK, Trying
<1>3. LimiterInv
    BY DEF Init, LimiterInv, LimiterOK, Open
<1> QED
    BY <1>1, <1>2, <1>3, InitType DEF IInv

LEMMA NextInv == IInv /\ [Next]_vars => IInv'
<1> SUFFICES ASSUME IInv, [Next]_vars
             PROVE  IInv'
    OBVIOUS
<1> USE DEF IInv
<1>1. ASSUME NEW r \in Requests, Begin(r)
      PROVE  IInv'
    BY <1>1, BeginType, BeginSetup, BeginLogin, BeginLimiter
<1>2. ASSUME NEW r \in Requests, Continue(r)
      PROVE  IInv'
    BY <1>2, ContinueType, ContinueSetup, ContinueLogin, ContinueLimiter
<1>3. CASE Others
    BY <1>3, OthersType, OthersSetup, OthersLogin, OthersLimiter
<1> QED
    BY <1>1, <1>2, <1>3 DEF Next, Others

LEMMA Invariance == Spec => []IInv
BY InitInv, NextInv, PTL DEF Spec

LEMMA InvGuesses == IInv => GuessesBounded
<1> SUFFICES ASSUME IInv, NEW k \in Keys
             PROVE  guesses[k] <= Budget
    BY DEF GuessesBounded, Budget
<1>1. /\ guesses[k] \in Nat /\ attempts[k].count \in 0..(Threshold - 1) /\ LimiterOK(k)
    BY DEF IInv, TypeOK, LimiterInv
<1>2. Cardinality(InFlight(k)) \in Nat /\ Cardinality(Requests) \in Nat
    BY InFlightFinite
<1> QED
    BY <1>1, <1>2, AuthAssumption DEF LimiterOK, Budget

\* Every variable keeps its type; in particular a key's failures are forgotten or
\* block it before they reach Threshold.
THEOREM TypeCorrect == Spec => []TypeOK
<1>1. IInv => TypeOK
    BY DEF IInv
<1> QED
    BY <1>1, Invariance, PTL

\* Of any number of racing setups one wins whole.
THEOREM SetupWhole == Spec => []SetupIsWhole
<1>1. IInv => SetupIsWhole
    BY DEF IInv, SetupInv
<1> QED
    BY <1>1, Invariance, PTL

\* No interleaving with confirmations and disables of the second factor lets a
\* login in without a factor that was in force while it ran.
THEOREM Granted == Spec => []GrantedWhileInForce
<1>1. IInv => GrantedWhileInForce
    BY DEF IInv, LoginInv, LoginOK, UserPasswords, GrantedWhileInForce
<1> QED
    BY <1>1, Invariance, PTL

\* However many logins of an address run at a time, the failures it is told of
\* between two openings of the limiter are bounded.
THEOREM Guesses == Spec => []GuessesBounded
BY InvGuesses, Invariance, PTL
===============================================================================

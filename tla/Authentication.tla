---------------------------- MODULE Authentication ----------------------------
(***************************************************************************)
(* First-run setup, login with its limiter, sessions and the second factor *)
(* (internal/httpapi/auth.go, security_settings.go), with the statements   *)
(* on the tables users, sessions and settings they use                     *)
(* (internal/store/auth.go, settings.go).                                  *)
(*                                                                         *)
(* A request is a goroutine; other requests run between its statements.    *)
(* A one-time code is named by the secret it was computed from, and the    *)
(* access policy a setup stores by that setup's password.                  *)
(***************************************************************************)
EXTENDS Naturals, FiniteSets

CONSTANTS
    Requests,   \* requests that may be in flight at a time
    Keys,       \* client addresses, the limiter's keys
    Passwords,  \* user name and password, taken together
    Secrets,    \* secrets of authenticators
    Tokens,     \* session tokens
    None,       \* no second factor, no code, no address
    Threshold,  \* failures that block a key (5 in the code)
    MaxBoots    \* bound: starts of the program

ASSUME AuthAssumption ==
    /\ IsFiniteSet(Requests)
    /\ None \notin Secrets \cup Passwords \cup Keys
    /\ Threshold \in Nat \ {0}
    /\ MaxBoots \in Nat
    /\ {"default", "updated"} \cap Passwords = {}

VARIABLES
    admins,    \* the users table: at most one row, if setup is right
    policy,    \* the access_policy row of settings
    sessions,  \* the sessions table; "live" rows have not expired
    attempts,  \* loginLimiter.attempts, in memory
    pc,        \* the step each request is at
    req,       \* its address and input
    user,      \* its copy of the user's row
    seen,      \* the second factors in force since it began, for a login
    boots,     \* starts of the program so far
    guesses    \* failures told per key since it was last opened

vars == <<admins, policy, sessions, attempts, pc, req, user, seen, boots, guesses>>

tables == <<admins, policy, sessions>>
limiter == <<attempts, guesses>>
copies == <<user, seen>>

Factors == Secrets \cup {None}
Users == [password : Passwords, secret : Factors]

Steps == {"idle", "initialize", "read", "settle", "session", "confirm", "enable",
          "disable", "switch off", "policy"}

\* The steps of a login between the limiter's answer and what it is told.
Trying == {"read", "settle"}

Input == [key : Keys \cup {None}, password : Passwords \cup {None}, code : Factors]

NoInput == [key |-> None, password |-> None, code |-> None]

Open == [count |-> 0, blocked |-> FALSE]

TypeOK ==
    /\ admins \in SUBSET Users
    /\ policy \in Passwords \cup {"default", "updated"}
    /\ sessions \in [Tokens -> {"none", "live", "expired", "gone"}]
    /\ attempts \in [Keys -> [count : 0..(Threshold - 1), blocked : BOOLEAN]]
    /\ pc \in [Requests -> Steps]
    /\ req \in [Requests -> Input]
    /\ user \in [Requests -> SUBSET Users]
    /\ seen \in [Requests -> SUBSET Factors]
    /\ boots \in Nat
    /\ guesses \in [Keys -> Nat]

Init ==
    /\ admins = {}
    /\ policy = "default"
    /\ sessions = [t \in Tokens |-> "none"]
    /\ attempts = [k \in Keys |-> Open]
    /\ pc = [r \in Requests |-> "idle"]
    /\ req = [r \in Requests |-> NoInput]
    /\ user = [r \in Requests |-> {}]
    /\ seen = [r \in Requests |-> {}]
    /\ boots = 1
    /\ guesses = [k \in Keys |-> 0]

\* The second factor that is in force, if there is one.
InForce == IF admins = {} THEN {None} ELSE {u.secret : u \in admins}

\* A request begins, goes on and ends.
Take(r, step, k, p, c) ==
    /\ pc' = [pc EXCEPT ![r] = step]
    /\ req' = [req EXCEPT ![r] = [key |-> k, password |-> p, code |-> c]]

Goto(r, step) == pc' = [pc EXCEPT ![r] = step] /\ UNCHANGED req

End(r) == Take(r, "idle", None, None, None)

EndLogin(r) ==
    /\ End(r)
    /\ user' = [user EXCEPT ![r] = {}]
    /\ seen' = [seen EXCEPT ![r] = {}]

-------------------------------------------------------------------------------
(* First-run setup *)

\* HasAdmin; the checks of the input and the hash of the password follow.
SetupCheck(r, p) ==
    /\ pc[r] = "idle"
    /\ admins = {}
    /\ Take(r, "initialize", None, p, None)
    /\ UNCHANGED <<tables, limiter, copies, boots>>

\* Faulty variant of InitializeAdmin: relies on the look of SetupCheck.
InitializeAdminUnchecked(r) ==
    /\ pc[r] = "initialize"
    /\ admins' = admins \cup {[password |-> req[r].password, secret |-> None]}
    /\ policy' = req[r].password
    /\ Goto(r, "session")
    /\ UNCHANGED <<sessions, limiter, copies, boots>>

\* One transaction inserts the user, if there is none, and the policy.  An error,
\* also that of a cancelled request, rolls back.
InitializeAdmin(r) ==
    /\ pc[r] = "initialize"
    /\ \/ /\ admins = {}
          /\ admins' = {[password |-> req[r].password, secret |-> None]}
          /\ policy' = req[r].password
          /\ Goto(r, "session")
       \/ End(r) /\ UNCHANGED <<admins, policy>>
    /\ UNCHANGED <<sessions, limiter, copies, boots>>

-------------------------------------------------------------------------------
(* Login *)

\* Faulty variant of LoginAllowed: the limiter is not asked.
LoginUnlimited(r, k, p, c) ==
    /\ pc[r] = "idle"
    /\ Take(r, "read", k, p, c)
    /\ seen' = [seen EXCEPT ![r] = InForce]
    /\ UNCHANGED <<tables, limiter, user, boots>>

\* loginLimiter.allowed.
LoginAllowed(r, k, p, c) ==
    /\ pc[r] = "idle"
    /\ ~attempts[k].blocked
    /\ Take(r, "read", k, p, c)
    /\ seen' = [seen EXCEPT ![r] = InForce]
    /\ UNCHANGED <<tables, limiter, user, boots>>

\* UserByUsername.  An error counts as a user that is not known.
ReadUser(r) ==
    /\ pc[r] = "read"
    /\ Goto(r, "settle")
    /\ \/ user' = [user EXCEPT ![r] = admins]
       \/ UNCHANGED user
    /\ UNCHANGED <<tables, limiter, seen, boots>>

\* What the copy of the row says about the input.
PasswordRight(r) == \E u \in user[r] : u.password = req[r].password
SecondFactor(r) == {u.secret : u \in user[r]} \ {None}

\* loginLimiter.failed.
failed(k) ==
    /\ attempts' = [attempts EXCEPT ![k] =
         IF @.count + 1 >= Threshold THEN [count |-> 0, blocked |-> TRUE]
                                     ELSE [count |-> @.count + 1, blocked |-> @.blocked]]
    /\ guesses' = [guesses EXCEPT ![k] = @ + 1]

\* A wrong password; a wrong code, or any code if the secret cannot be decrypted.
LoginFails(r) ==
    /\ pc[r] = "settle"
    /\ \/ ~PasswordRight(r)
       \/ req[r].code # None /\ SecondFactor(r) # {}
    /\ failed(req[r].key)
    /\ EndLogin(r)
    /\ UNCHANGED <<tables, boots>>

\* The limiter is neither told nor cleared.
LoginAsksForCode(r) ==
    /\ pc[r] = "settle"
    /\ PasswordRight(r)
    /\ req[r].code = None
    /\ SecondFactor(r) # {}
    /\ EndLogin(r)
    /\ UNCHANGED <<tables, limiter, boots>>

\* loginLimiter.clear.
clear(k) ==
    /\ attempts' = [attempts EXCEPT ![k] = Open]
    /\ guesses' = [guesses EXCEPT ![k] = 0]

\* Faulty variant of LoginSucceeds: a login without a code is let through.
LoginWithoutCode(r) ==
    /\ pc[r] = "settle"
    /\ PasswordRight(r)
    /\ req[r].code = None \/ SecondFactor(r) \subseteq {req[r].code}
    /\ clear(req[r].key)
    /\ Goto(r, "session")
    /\ user' = [user EXCEPT ![r] = {}]
    /\ UNCHANGED <<tables, seen, boots>>

LoginSucceeds(r) ==
    /\ pc[r] = "settle"
    /\ PasswordRight(r)
    /\ SecondFactor(r) \subseteq {req[r].code}
    /\ clear(req[r].key)
    /\ Goto(r, "session")
    /\ user' = [user EXCEPT ![r] = {}]
    /\ UNCHANGED <<tables, seen, boots>>

\* createAuthenticatedSession, of a login or a setup.  The insertion may fail.
CreateSession(r) ==
    /\ pc[r] = "session"
    /\ \/ \E t \in Tokens : /\ sessions[t] = "none"
                            /\ sessions' = [sessions EXCEPT ![t] = "live"]
       \/ UNCHANGED sessions
    /\ EndLogin(r)
    /\ UNCHANGED <<admins, policy, limiter, boots>>

\* BlockedUntil has passed.
BlockEnds(k) ==
    /\ attempts[k].blocked
    /\ attempts' = [attempts EXCEPT ![k].blocked = FALSE]
    /\ guesses' = [guesses EXCEPT ![k] = 0]
    /\ UNCHANGED <<tables, pc, req, copies, boots>>

-------------------------------------------------------------------------------
(* Sessions *)

SessionExpires(t) ==
    /\ sessions[t] = "live"
    /\ sessions' = [sessions EXCEPT ![t] = "expired"]
    /\ UNCHANGED <<admins, policy, limiter, pc, req, copies, boots>>

\* logout deletes a live session; a look at an expired one deletes it too.
DeleteSession(t) ==
    /\ sessions[t] \in {"live", "expired"}
    /\ sessions' = [sessions EXCEPT ![t] = "gone"]
    /\ UNCHANGED <<admins, policy, limiter, pc, req, copies, boots>>

\* protected: a request of a live session reaches its handler.
Protected(r, t, step, p, c) ==
    /\ pc[r] = "idle"
    /\ sessions[t] = "live"
    /\ Take(r, step, None, p, c)
    /\ UNCHANGED <<tables, limiter, copies, boots>>

ConfirmTOTP(r, t, c) == Protected(r, t, "confirm", None, c)
DisableTOTP(r, t, p, c) == Protected(r, t, "disable", p, c)
UpdateAccessPolicy(r, t) == Protected(r, t, "policy", None, None)

-------------------------------------------------------------------------------
(* The second factor.  The user's row is read, and written by a statement of   *)
(* its own.                                                                    *)

\* confirmTOTP is refused if the copy has a second factor, and for a wrong code.
ReadForConfirm(r) ==
    /\ pc[r] = "confirm"
    /\ \/ InForce = {None} /\ Goto(r, "enable")
       \/ End(r)
    /\ UNCHANGED <<tables, limiter, copies, boots>>

\* disableTOTP needs the password and a code of the copy's secret.
ReadForDisable(r) ==
    /\ pc[r] = "disable"
    /\ \/ /\ \E u \in admins : /\ u.secret # None
                               /\ u.password = req[r].password
                               /\ u.secret = req[r].code
          /\ Goto(r, "switch off")
       \/ End(r)
    /\ UNCHANGED <<tables, limiter, copies, boots>>

\* The statement names the user, not what was read.
SetUserTOTP(s) ==
    /\ admins' = {[password |-> u.password, secret |-> s] : u \in admins}
    /\ seen' = [q \in Requests |-> IF pc[q] \in Trying THEN seen[q] \cup {s} ELSE seen[q]]

\* The write of confirmTOTP and disableTOTP, which may fail.
WriteTOTP(r) ==
    /\ \/ pc[r] = "enable" /\ SetUserTOTP(req[r].code)
       \/ pc[r] = "switch off" /\ SetUserTOTP(None)
       \/ pc[r] \in {"enable", "switch off"} /\ UNCHANGED <<admins, seen>>
    /\ End(r)
    /\ UNCHANGED <<policy, sessions, limiter, user, boots>>

SetAccessPolicy(r) ==
    /\ pc[r] = "policy"
    /\ policy' \in {policy, "updated"}
    /\ End(r)
    /\ UNCHANGED <<admins, sessions, limiter, copies, boots>>

-------------------------------------------------------------------------------

\* The program ends, in order or by a crash, and starts again: the limiter is
\* empty and expired sessions are deleted.
Restart ==
    /\ boots < MaxBoots
    /\ boots' = boots + 1
    /\ pc' = [r \in Requests |-> "idle"]
    /\ req' = [r \in Requests |-> NoInput]
    /\ user' = [r \in Requests |-> {}]
    /\ seen' = [r \in Requests |-> {}]
    /\ attempts' = [k \in Keys |-> Open]
    /\ guesses' = [k \in Keys |-> 0]
    /\ sessions' = [t \in Tokens |-> IF sessions[t] = "expired" THEN "gone"
                                     ELSE sessions[t]]
    /\ UNCHANGED <<admins, policy>>

Begin(r) ==
    \/ \E p \in Passwords : SetupCheck(r, p)
    \/ \E k \in Keys, p \in Passwords, c \in Factors : LoginAllowed(r, k, p, c)
    \/ \E t \in Tokens, c \in Secrets : ConfirmTOTP(r, t, c)
    \/ \E t \in Tokens, p \in Passwords, c \in Secrets : DisableTOTP(r, t, p, c)
    \/ \E t \in Tokens : UpdateAccessPolicy(r, t)

Continue(r) ==
    \/ InitializeAdmin(r)
    \/ ReadUser(r)
    \/ LoginFails(r)
    \/ LoginAsksForCode(r)
    \/ LoginSucceeds(r)
    \/ CreateSession(r)
    \/ ReadForConfirm(r)
    \/ ReadForDisable(r)
    \/ WriteTOTP(r)
    \/ SetAccessPolicy(r)

Next ==
    \/ \E r \in Requests : Begin(r) \/ Continue(r)
    \/ \E k \in Keys : BlockEnds(k)
    \/ \E t \in Tokens : SessionExpires(t) \/ DeleteSession(t)
    \/ Restart

Spec == Init /\ [][Next]_vars

-------------------------------------------------------------------------------
(* Properties *)

\* However many setups race, there is one administrator, and the access policy
\* is that of the setup that made it until somebody changes it; a program that
\* nobody has set up has the default policy.
SetupIsWhole ==
    /\ \A u, v \in admins : u = v
    /\ policy = "default" <=> admins = {}
    /\ policy \in {"default", "updated"} \cup {u.password : u \in admins}

\* Who gets as far as a session after a login or a setup has the administrator's
\* password, and, if a second factor was in force all the while, a code of one
\* that was in force at some time since the limiter let the request in.
GrantedWhileInForce ==
    \A r \in Requests :
        pc[r] = "session" =>
            /\ req[r].password \in {u.password : u \in admins}
            /\ req[r].key # None => {req[r].code, None} \cap seen[r] # {}

\* Between two openings of the limiter a client address is told of at most
\* Threshold failures, and of those requests that were already past the limiter.
GuessesBounded ==
    \A k \in Keys : guesses[k] <= Threshold + Cardinality(Requests) - 1

\* A second factor that is in force only goes away by being switched off with a
\* code of it; a confirmation is refused as "already enabled".
ChangedOnlyByItsCode ==
    [][admins' # admins /\ InForce # {None} =>
         \E r \in Requests : /\ pc[r] = "switch off" /\ pc'[r] = "idle"
                            /\ req[r].code \in InForce]_vars
===============================================================================

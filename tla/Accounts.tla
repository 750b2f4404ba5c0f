------------------------------- MODULE Accounts -------------------------------
(***************************************************************************)
(* Login accounts: users and their roles, sessions and API tokens, the       *)
(* second factor, and the throttle on failed logins (internal/web/auth.go,   *)
(* throttle.go, totp.go, users.go, tokens.go, proxy_auth.go, bootstrap.go).  *)
(*                                                                           *)
(* A request is one handler at work. Its statements and the throttle's       *)
(* critical sections are atomic, what lies between them is not: the steps    *)
(* below are those between which other requests act. A transaction (WithTx)  *)
(* is one step.                                                              *)
(*                                                                           *)
(* Times are left open: a lock lapses, a ticket or a session expires, at any *)
(* moment, and a code may be for any time step.                              *)
(***************************************************************************)
EXTENDS Naturals, FiniteSets

CONSTANTS
  User,       \* user rows; the name is the row's
  Id,         \* of sessions, API tokens and tickets
  Password,
  Request,
  AdminName,  \* ALMANAUT_AUTH_USER, or "admin"
  Threshold,  \* loginFailureThreshold
  Proxied,    \* the users a trusted proxy vouches for
  Enrolling,  \* bound: the users who may set up a second factor
  Failing,    \* bound: the users for whom a wrong password or code is sent
  MaxStep,    \* bound on the time step
  Codes,      \* recoveryCodeCount
  Unusable,   \* the password of a provisioned user: nobody knows it
  None

ASSUME AdminAssumption == AdminName \in User
ASSUME UnusableAssumption == Unusable \notin Password /\ Unusable # None
ASSUME BoundsAssumption == Threshold \in Nat \ {0} /\ MaxStep \in Nat /\ Codes \in Nat

\* An editor is a viewer here: neither administers users.
Role == {"admin", "viewer"}
UserRow == [role : Role, pw : Password \cup {Unusable}]
FactorRow == [enabled : BOOLEAN, last : Nat]

ASSUME NoneAssumption == None \notin User \cup Id \cup Password \cup UserRow \cup FactorRow

VARIABLES
  up,           \* the server has started
  users,        \* table users: role and password
  credentials,  \* tables sessions and api_tokens
  tickets,      \* table totp_pending
  totp,         \* table user_totp, but for the secret
  codes,        \* table totp_recovery_codes: how many each user has unused
  attempts,     \* loginThrottle.attempts
  request,      \* where each request is and what it has read
  accepted,     \* history: the steps accepted for the secret in force
  late          \* history: failures counted under the lock in force

factorTables == <<totp, codes, accepted>>
tables == <<users, credentials, tickets, factorTables>>
throttle == <<attempts, late>>
vars == <<up, tables, throttle, request>>

\* Where a request is, and what it has read: its user, the session or ticket it
\* came with, a password and the step of a code.
At(to, u, i, pw, s) == [at |-> to, user |-> u, id |-> i, pw |-> pw, step |-> s]
Idle == At("idle", None, None, None, 0)
NoAttempts == [failures |-> 0, locked |-> FALSE]

Exists(u) == users[u] # None
Admins == {u \in User : Exists(u) /\ users[u].role = "admin"}
Enabled2FA(u) == totp[u] # None /\ totp[u].enabled
Locked(u) == attempts[u].locked

\* A new password is another one than the one in force; it may be an older one.
Fresh(u, pw) == Exists(u) => users[u].pw # pw

FreshId(i) ==
  /\ \A c \in credentials \cup tickets : c.id # i
  /\ \A r \in Request : request[r].id # i

FreshUser(u) == ~Exists(u) /\ \A r \in Request : request[r].user # u

Init ==
  /\ up = FALSE
  /\ users = [u \in User |-> None]
  /\ credentials = {} /\ tickets = {}
  /\ totp = [u \in User |-> None]
  /\ codes = [u \in User |-> 0]
  /\ attempts = [u \in User |-> NoAttempts]
  /\ request = [r \in Request |-> Idle]
  /\ accepted = [u \in User |-> {}]
  /\ late = [u \in User |-> 0]

-----------------------------------------------------------------------------
(* Starting and stopping. The throttle is in memory.                         *)

\* BootstrapAdmin on an empty table.
BootFirst(pw) ==
  /\ ~up /\ \A u \in User : ~Exists(u)
  /\ Fresh(AdminName, pw)
  /\ users' = [users EXCEPT ![AdminName] = [role |-> "admin", pw |-> pw]]
  /\ up' = TRUE
  /\ UNCHANGED <<credentials, tickets, factorTables, throttle, request>>

Boot ==
  /\ ~up /\ \E u \in User : Exists(u)
  /\ up' = TRUE
  /\ UNCHANGED <<tables, throttle, request>>

\* For history: the sessions of u in cs outlive its password on purpose.
Kept(cs, u) ==
  {[c EXCEPT !.since = IF c.user = u THEN None ELSE @] : c \in cs}

\* The named user, else an admin, else anybody (the oldest of them).
ResetTarget(u) ==
  /\ Exists(u)
  /\ Exists(AdminName) => u = AdminName
  /\ ~Exists(AdminName) /\ Admins # {} => u \in Admins

\* ALMANAUT_RESET_ADMIN: the password, then the role, in a statement of its
\* own (whole). The sessions of before are kept.
BootReset(u, pw, whole) ==
  /\ ~up
  /\ ResetTarget(u)
  /\ Fresh(u, pw)
  /\ users' = [users EXCEPT ![u] = [role |-> IF whole THEN "admin" ELSE @.role, pw |-> pw]]
  /\ credentials' = Kept(credentials, u)
  /\ up' = whole
  /\ UNCHANGED <<tickets, factorTables, throttle, request>>

\* The process ends, whatever its requests were doing.
Stop ==
  /\ up
  /\ up' = FALSE
  /\ attempts' = [u \in User |-> NoAttempts]
  /\ late' = [u \in User |-> 0]
  /\ request' = [r \in Request |-> Idle]
  /\ UNCHANGED tables

-----------------------------------------------------------------------------
(* The throttle: critical sections of loginThrottle.                         *)

\* cleanup: entries that are not locked and have been idle for the cooldown.
Cleaned(a, old) == [u \in User |-> IF u \in old /\ ~a[u].locked THEN NoAttempts ELSE a[u]]

RecordFailure(u) ==
  LET n == attempts[u].failures + 1
      counted == [attempts EXCEPT ![u] =
                    IF n >= Threshold THEN [failures |-> 0, locked |-> TRUE]
                    ELSE [failures |-> n, locked |-> @.locked]]
  IN /\ \E old \in SUBSET (User \ {u}) : attempts' = Cleaned(counted, old)
     /\ late' = [late EXCEPT ![u] = IF Locked(u) THEN @ + 1 ELSE 0]

RecordSuccess(u) ==
  /\ attempts' = [attempts EXCEPT ![u] = NoAttempts]
  /\ late' = [late EXCEPT ![u] = 0]

Lapse(u) ==
  /\ Locked(u)
  /\ attempts' = [attempts EXCEPT ![u] = [failures |-> @.failures, locked |-> FALSE]]
  /\ late' = [late EXCEPT ![u] = 0]
  /\ UNCHANGED <<up, tables, request>>

-----------------------------------------------------------------------------
(* login                                                                     *)

\* The request goes on at another place.
Goes(r, to) == request' = [request EXCEPT ![r].at = to]
Ends(r) == request' = [request EXCEPT ![r] = Idle]

LoginBegins(r, u) ==
  /\ up /\ request[r] = Idle
  /\ ~Locked(u)
  /\ request' = [request EXCEPT ![r] = At("login", u, None, None, 0)]
  /\ UNCHANGED <<up, tables, throttle>>

\* An unknown user, or a wrong password.
LoginFails(r) ==
  /\ request[r].at = "login" /\ request[r].user \in Failing
  /\ RecordFailure(request[r].user)
  /\ Ends(r)
  /\ UNCHANGED <<up, tables>>

PasswordRight(r) ==
  LET u == request[r].user IN
  /\ request[r].at = "login"
  /\ Exists(u) /\ users[u].pw # Unusable
  /\ request' = [request EXCEPT ![r] = At("password", u, None, users[u].pw, 0)]
  /\ UNCHANGED <<up, tables, throttle>>

AskFactor(r) ==
  /\ request[r].at = "password"
  /\ Goes(r, IF Enabled2FA(request[r].user) THEN "ticket" ELSE "open")
  /\ UNCHANGED <<up, tables, throttle>>

\* An insert for a user that is gone fails on the foreign key.
GiveTicket(r, i) ==
  LET u == request[r].user IN
  /\ request[r].at = "ticket"
  /\ FreshId(i)
  /\ tickets' = IF Exists(u) THEN tickets \cup {[id |-> i, user |-> u, pw |-> request[r].pw]}
                ELSE tickets
  /\ Ends(r)
  /\ UNCHANGED <<up, users, credentials, factorTables, throttle>>

Opened(r) == request' = [request EXCEPT ![r] = At("opened", request[r].user, None, None, 0)]

\* For history: the password that the login verified and the one in force now.
\* They differ when a change came between: nothing looks at the password again.
OpenSession(r, i) ==
  LET u == request[r].user
      session == [id |-> i, user |-> u, kind |-> "session",
                  pw |-> request[r].pw, since |-> users[u].pw]
  IN /\ request[r].at \in {"open", "reopen"}
     /\ FreshId(i)
     /\ IF Exists(u)
        THEN /\ credentials' = credentials \cup {session}
             /\ IF request[r].at = "open" THEN Opened(r) ELSE Ends(r)
        ELSE UNCHANGED credentials /\ Ends(r)
     /\ UNCHANGED <<up, users, tickets, factorTables, throttle>>

LoginSucceeds(r) ==
  LET u == request[r].user
      cleared == [attempts EXCEPT ![u] = NoAttempts] IN
  /\ request[r].at = "opened"
  /\ \E old \in SUBSET (User \ {u}) : attempts' = Cleaned(cleared, old)
  /\ late' = [late EXCEPT ![u] = 0]
  /\ Ends(r)
  /\ UNCHANGED <<up, tables>>

-----------------------------------------------------------------------------
(* verify2FA, and the second factor of disable2FA                            *)

\* Faulty: the throttle is not asked.
VerifyBeginsAnyway(r, t) ==
  /\ up /\ request[r] = Idle
  /\ request' = [request EXCEPT ![r] = At("verify", t.user, t.id, t.pw, 0)]
  /\ UNCHANGED <<up, tables, throttle>>

\* PendingUser, the user's row, the throttle.
VerifyBegins(r, t) ==
  /\ up /\ request[r] = Idle
  /\ ~Locked(t.user)
  /\ request' = [request EXCEPT ![r] = At("verify", t.user, t.id, t.pw, 0)]
  /\ UNCHANGED <<up, tables, throttle>>

\* The steps MatchTOTP may find a code to be for; which of them are within one
\* step of the clock is left open.
Matching == 1 .. MaxStep

Proved(r) == IF request[r].at = "verify" THEN "proved" ELSE "disproved"

\* Faulty: the step of the last code counts again.
UseStepAgain(r, s) ==
  LET u == request[r].user IN
  /\ request[r].at \in {"verify", "disable"}
  /\ s \in Matching
  /\ totp[u] # None /\ s >= totp[u].last
  /\ totp' = [totp EXCEPT ![u] = [enabled |-> @.enabled, last |-> s]]
  /\ accepted' = [accepted EXCEPT ![u] = @ \cup {s}]
  /\ request' = [request EXCEPT ![r] = At(Proved(r), u, request[r].id, request[r].pw, s)]
  /\ UNCHANGED <<up, users, credentials, tickets, codes, throttle>>

\* Which secret the code was compared with makes no difference here: the
\* statement looks at the last step only, and it is check and write in one.
UseStep(r, s) ==
  LET u == request[r].user IN
  /\ request[r].at \in {"verify", "disable"}
  /\ s \in Matching
  /\ totp[u] # None /\ s > totp[u].last
  /\ totp' = [totp EXCEPT ![u] = [enabled |-> @.enabled, last |-> s]]
  /\ accepted' = [accepted EXCEPT ![u] = @ \cup {s}]
  /\ request' = [request EXCEPT ![r] = At(Proved(r), u, request[r].id, request[r].pw, s)]
  /\ UNCHANGED <<up, users, credentials, tickets, codes, throttle>>

UseRecoveryCode(r) ==
  LET u == request[r].user IN
  /\ request[r].at \in {"verify", "disable"}
  /\ codes[u] > 0
  /\ codes' = [codes EXCEPT ![u] = @ - 1]
  /\ Goes(r, Proved(r))
  /\ UNCHANGED <<up, users, credentials, tickets, totp, accepted, throttle>>

CodeFails(r) ==
  /\ \/ request[r].at = "verify" /\ request[r].user \in Failing /\ RecordFailure(request[r].user)
     \/ request[r].at = "disable" /\ UNCHANGED throttle
  /\ Ends(r)
  /\ UNCHANGED <<up, tables>>

VerifySucceeds(r) ==
  /\ request[r].at = "proved"
  /\ RecordSuccess(request[r].user)
  /\ request' = [request EXCEPT ![r] = At("consume", request[r].user, request[r].id, request[r].pw, 0)]
  /\ UNCHANGED <<up, tables>>

DeletePending(r) ==
  /\ request[r].at = "consume"
  /\ tickets' = {t \in tickets : t.id # request[r].id}
  /\ Goes(r, "reopen")
  /\ UNCHANGED <<up, users, credentials, factorTables, throttle>>

-----------------------------------------------------------------------------
(* What a signed-in user does; sessionAuth reads the session and its user.   *)

Sessions == {c \in credentials : c.kind = "session"}

\* The sessions a request of u may come with: None if the proxy vouches for it.
ComesWith(u) ==
  {c.id : c \in {d \in Sessions : d.user = u}}
  \cup (IF u \in Proxied /\ Exists(u) THEN {None} ELSE {})

Acts(r, u, i, as) ==
  /\ up /\ request[r] = Idle
  /\ request' = [request EXCEPT ![r] = At(as, u, i, None, 0)]
  /\ UNCHANGED <<up, tables, throttle>>

SetupBegins(r, u) == u \in Enrolling /\ ~Enabled2FA(u) /\ Acts(r, u, None, "setup")
DisableBegins(r, u) == totp[u] # None /\ Acts(r, u, None, "disable")
ChangeBegins(r, u, i) == users[u].pw # Unusable /\ Acts(r, u, i, "change")
AdminBegins(r, u, i) == u \in Admins /\ Acts(r, u, i, "admin")

\* confirm2FA up to its transaction: a code for the secret that was read.
ConfirmBegins(r, u, s) ==
  /\ up /\ request[r] = Idle
  /\ totp[u] # None /\ s \in Matching
  /\ request' = [request EXCEPT ![r] = At("confirm", u, None, None, s)]
  /\ UNCHANGED <<up, tables, throttle>>

SetSecret(r) ==
  LET u == request[r].user IN
  /\ request[r].at = "setup"
  /\ IF Exists(u)
     THEN /\ totp' = [totp EXCEPT ![u] = [enabled |-> FALSE, last |-> 0]]
          /\ accepted' = [accepted EXCEPT ![u] = {}]
     ELSE UNCHANGED <<totp, accepted>>
  /\ Ends(r)
  /\ UNCHANGED <<up, users, credentials, tickets, codes, throttle>>

\* The transaction of confirm2FA: Enable, UseStep, ReplaceRecoveryCodes. The
\* result of UseStep is not looked at.
Confirm(r) ==
  LET u == request[r].user
      s == request[r].step IN
  /\ request[r].at = "confirm"
  /\ IF totp[u] # None
     THEN /\ totp' = [totp EXCEPT ![u] = [enabled |-> TRUE, last |-> IF @.last < s THEN s ELSE @.last]]
          /\ accepted' = [accepted EXCEPT ![u] = @ \cup {s}]
          /\ codes' = [codes EXCEPT ![u] = Codes]
     ELSE UNCHANGED factorTables
  /\ Ends(r)
  /\ UNCHANGED <<up, users, credentials, tickets, throttle>>

DisabledFor(u) ==
  /\ totp' = [totp EXCEPT ![u] = None]
  /\ codes' = [codes EXCEPT ![u] = 0]
  /\ accepted' = [accepted EXCEPT ![u] = {}]

Disable(r) ==
  /\ request[r].at = "disproved"
  /\ DisabledFor(request[r].user)
  /\ Ends(r)
  /\ UNCHANGED <<up, users, credentials, tickets, throttle>>

\* revokeSessions: every session of u but the one that asks for it.
Unrevoked(r, u) ==
  {c \in credentials : c.kind = "session" /\ c.user = u => c.id = request[r].id}

\* Faulty: the password is stored, the sessions stay.
SetPasswordOnly(r, u, pw) ==
  /\ Exists(u) /\ Fresh(u, pw)
  /\ users' = [users EXCEPT ![u] = [role |-> @.role, pw |-> pw]]
  /\ UNCHANGED credentials

SetPasswordAndRevoke(r, u, pw) ==
  /\ Exists(u) /\ Fresh(u, pw)
  /\ users' = [users EXCEPT ![u] = [role |-> @.role, pw |-> pw]]
  /\ credentials' = Kept(Unrevoked(r, u), u)

\* The current password was compared with the one sessionAuth read.
ChangePassword(r, pw) ==
  /\ request[r].at = "change"
  /\ SetPasswordAndRevoke(r, request[r].user, pw)
  /\ Ends(r)
  /\ UNCHANGED <<up, tickets, factorTables, throttle>>

Logout(c) ==
  /\ up /\ c \in Sessions
  /\ credentials' = credentials \ {c}
  /\ UNCHANGED <<up, users, tickets, factorTables, throttle, request>>

CreateToken(c, i) ==
  /\ up /\ c \in Sessions /\ FreshId(i)
  /\ credentials' = credentials \cup
       {[id |-> i, user |-> c.user, kind |-> "token", pw |-> None, since |-> None]}
  /\ UNCHANGED <<up, users, tickets, factorTables, throttle, request>>

\* Only a token of one's own.
DeleteToken(c, t) ==
  /\ up /\ c \in Sessions /\ t \in credentials \ Sessions /\ t.user = c.user
  /\ credentials' = credentials \ {t}
  /\ UNCHANGED <<up, users, tickets, factorTables, throttle, request>>

-----------------------------------------------------------------------------
(* What an admin does, by the role that sessionAuth read, and the proxy.     *)

CreateUser(r, u, role, pw) ==
  /\ request[r].at = "admin"
  /\ FreshUser(u) /\ Fresh(u, pw)
  /\ users' = [users EXCEPT ![u] = [role |-> role, pw |-> pw]]
  /\ Ends(r)
  /\ UNCHANGED <<up, credentials, tickets, factorTables, throttle>>

\* Faulty: the last admin may become a viewer.
UpdateRoleAnyway(r, u, role) ==
  /\ request[r].at = "admin"
  /\ Exists(u)
  /\ users' = [users EXCEPT ![u] = [role |-> role, pw |-> @.pw]]
  /\ Ends(r)
  /\ UNCHANGED <<up, credentials, tickets, factorTables, throttle>>

\* requireAnotherAdmin
AnotherAdmin(u) == Admins \ {u} # {}

UpdateRole(r, u, role) ==
  /\ request[r].at = "admin"
  /\ Exists(u)
  /\ u \in Admins /\ role # "admin" => AnotherAdmin(u)
  /\ users' = [users EXCEPT ![u] = [role |-> role, pw |-> @.pw]]
  /\ Ends(r)
  /\ UNCHANGED <<up, credentials, tickets, factorTables, throttle>>

\* The rows of the other tables go by ON DELETE CASCADE.
DeleteUser(r, u) ==
  /\ request[r].at = "admin"
  /\ Exists(u)
  /\ \E v \in User \ {u} : Exists(v)
  /\ u \in Admins => AnotherAdmin(u)
  /\ users' = [users EXCEPT ![u] = None]
  /\ credentials' = {c \in credentials : c.user # u}
  /\ tickets' = {t \in tickets : t.user # u}
  /\ DisabledFor(u)
  /\ Ends(r)
  /\ UNCHANGED <<up, throttle>>

ResetPassword(r, u, pw) ==
  /\ request[r].at = "admin"
  /\ SetPasswordAndRevoke(r, u, pw)
  /\ Ends(r)
  /\ UNCHANGED <<up, tickets, factorTables, throttle>>

Reset2FA(r, u) ==
  /\ request[r].at = "admin"
  /\ Exists(u)
  /\ DisabledFor(u)
  /\ credentials' = Unrevoked(r, u)
  /\ Ends(r)
  /\ UNCHANGED <<up, users, tickets, throttle>>

\* provisionProxyUser: the first request of a user the proxy vouches for.
Provision(u) ==
  /\ up /\ u \in Proxied /\ FreshUser(u)
  /\ users' = [users EXCEPT ![u] = [role |-> "viewer", pw |-> Unusable]]
  /\ UNCHANGED <<up, credentials, tickets, factorTables, throttle, request>>

-----------------------------------------------------------------------------
(* Time passes; a request may end early.                                     *)

Expire(x) ==
  /\ credentials' = credentials \ (Sessions \cap {x})
  /\ tickets' = tickets \ {x}
  /\ UNCHANGED <<up, users, factorTables, throttle, request>>

\* A statement fails: the handler answers with an error.
GiveUp(r) ==
  /\ request[r] # Idle
  /\ Ends(r)
  /\ UNCHANGED <<up, tables, throttle>>

Lifecycle ==
  \/ \E pw \in Password : BootFirst(pw)
  \/ Boot
  \/ \E u \in User, pw \in Password, whole \in BOOLEAN : BootReset(u, pw, whole)
  \/ Stop
  \/ \E u \in User : Lapse(u) \/ Provision(u)
  \/ \E x \in Sessions \cup tickets : Expire(x)

Login(r) ==
  \/ \E u \in User : LoginBegins(r, u)
  \/ LoginFails(r) \/ PasswordRight(r) \/ AskFactor(r) \/ LoginSucceeds(r)
  \/ \E i \in Id : GiveTicket(r, i) \/ OpenSession(r, i)

Factor(r) ==
  \/ \E t \in tickets : VerifyBegins(r, t)
  \/ CodeFails(r) \/ VerifySucceeds(r) \/ DeletePending(r) \/ Disable(r)
  \/ \E s \in Matching : UseStep(r, s)
  \/ UseRecoveryCode(r) \/ SetSecret(r) \/ Confirm(r)

Account(r) ==
  \/ \E u \in User : \E i \in ComesWith(u) :
       \/ SetupBegins(r, u) \/ DisableBegins(r, u)
       \/ ChangeBegins(r, u, i) \/ AdminBegins(r, u, i)
       \/ \E s \in Matching : ConfirmBegins(r, u, s)
  \/ \E pw \in Password : ChangePassword(r, pw)
  \/ GiveUp(r)

Tokens ==
  \E c \in Sessions :
    \/ Logout(c)
    \/ \E i \in Id : CreateToken(c, i)
    \/ \E t \in credentials \ Sessions : DeleteToken(c, t)

Admin(r) ==
  \E u \in User :
    \/ \E role \in Role, pw \in Password : CreateUser(r, u, role, pw)
    \/ \E role \in Role : UpdateRole(r, u, role)
    \/ DeleteUser(r, u) \/ Reset2FA(r, u)
    \/ \E pw \in Password : ResetPassword(r, u, pw)

Next ==
  \/ Lifecycle \/ Tokens
  \/ \E r \in Request : Login(r) \/ Factor(r) \/ Account(r) \/ Admin(r)

Spec == Init /\ [][Next]_vars
-----------------------------------------------------------------------------
Places ==
  {"idle", "login", "password", "ticket", "open", "opened", "verify", "proved", "consume",
   "reopen", "disable", "disproved", "setup", "confirm", "change", "admin"}

Credential ==
  [id : Id, user : User, kind : {"session", "token"}, pw : Password \cup {None},
   since : Password \cup {Unusable, None}]

TypeOK ==
  /\ up \in BOOLEAN
  /\ users \in [User -> UserRow \cup {None}]
  /\ credentials \in SUBSET Credential
  /\ tickets \in SUBSET [id : Id, user : User, pw : Password]
  /\ totp \in [User -> FactorRow \cup {None}]
  /\ codes \in [User -> Nat]
  /\ attempts \in [User -> [failures : 0 .. Threshold - 1, locked : BOOLEAN]]
  /\ request \in [Request ->
       [at : Places, user : User \cup {None}, id : Id \cup {None},
        pw : Password \cup {Unusable, None}, step : Nat]]
  /\ accepted \in [User -> SUBSET (Nat \ {0})]
  /\ late \in [User -> Nat]

(***************************************************************************)
(* Once there are users there is an admin, whatever is demoted or deleted   *)
(* at the same time, by admins who may not be admins any more (errLastAdmin: *)
(* "nobody able to manage users").                                          *)
(***************************************************************************)
AdminRemains == (\E u \in User : Exists(u)) => Admins # {}

(***************************************************************************)
(* No session, token, ticket, secret or recovery code is left of a user     *)
(* that is gone, even of a login that the deletion overtook.                *)
(***************************************************************************)
RowsHaveUsers ==
  /\ \A c \in credentials \cup tickets : Exists(c.user)
  /\ \A u \in User : totp[u] # None \/ codes[u] # 0 => Exists(u)

(***************************************************************************)
(* "A session stolen before the change must not outlive it"                  *)
(* (setPasswordAndRevoke, docs/authentication.md:25-27): every session was   *)
(* inserted since the last change or reset of its user's password, but for   *)
(* those that are spared on purpose, the session that asks for the change    *)
(* and the sessions of a user that BootstrapAdmin resets.                    *)
(*                                                                           *)
(* It does not say that the login verified the password in force. One that   *)
(* was under way, or holds a ticket, when the password was changed opens its *)
(* session afterwards, on the old password (c.pw # c.since): the change does *)
(* not reach it, and only the next one does.                                 *)
(***************************************************************************)
SessionsAreCurrent ==
  \A c \in Sessions : c.since \in {None, users[c.user].pw}

(***************************************************************************)
(* The rows that let somebody in are current: whatever is deleted, changed,  *)
(* reset or opened at the same time, a session or token is of a user that    *)
(* exists, and a session is not older than its user's password.              *)
(***************************************************************************)
RowsAreCurrent == TypeOK /\ RowsHaveUsers /\ SessionsAreCurrent

(***************************************************************************)
(* To log in or to turn the factor off, a time step proves a user's identity *)
(* only if no request has been let through with it for the secret in force,  *)
(* to log in, to turn the factor off or to confirm the enrolment, however    *)
(* many bring the code at once (UseStep).                                    *)
(*                                                                           *)
(* Confirming is not held to it: confirm2FA drops what UseStep answers       *)
(* (totp.go:165-173), so a code that has been used confirms, and a second    *)
(* confirmation with it replaces the recovery codes, although                *)
(* docs/authentication.md:75-78 says that a used code is refused.            *)
(***************************************************************************)
CodesCountOnce ==
  [][ \A r \in Request :
        /\ request[r].at \in {"verify", "disable"}
        /\ request'[r].at \in {"proved", "disproved"}
        => request'[r].step \notin accepted[request[r].user] ]_vars

\* Requests that have passed the throttle and may still fail.
Attempting(u) ==
  {r \in Request : request[r].at \in {"login", "verify"} /\ request[r].user = u}

(***************************************************************************)
(* A lock holds: once a user is locked out, only the attempts that had      *)
(* passed the check before can still fail, fewer than there are requests,   *)
(* and the two kinds of attempts, password and code, share the lock.        *)
(***************************************************************************)
LockHolds ==
  \A u \in User : Locked(u) => late[u] + Cardinality(Attempting(u)) < Cardinality(Request)
=============================================================================

---------------------------- MODULE AccountsProofs ----------------------------
(***************************************************************************)
(* Proofs about accounts, for any users, requests, passwords and bounds.    *)
(*                                                                          *)
(* The invariant has a part for each of the things that the handlers work   *)
(* on. Beyond the properties themselves it says that a server that is up    *)
(* has users (so that an admin who is deleted or demoted meanwhile is not   *)
(* the last one when the request comes to its statement), what a request    *)
(* has read by the time it is at a place, and that the steps accepted for   *)
(* a secret are no later than the last one.                                 *)
(***************************************************************************)
EXTENDS Accounts, FiniteSetTheorems, TLAPS

Throttled == [failures : 0 .. Threshold - 1, locked : BOOLEAN]
Asking ==
  [at : Places, user : User \cup {None}, id : Id \cup {None},
   pw : Password \cup {Unusable, None}, step : Nat]

\* What a request has read by the time it is at a place.
RequestOK(x) ==
  /\ x \in Asking
  /\ x.at # "idle" => x.user \in User
  /\ x.at \in {"password", "ticket", "open", "verify", "proved", "consume", "reopen"} =>
       x.pw \in Password
  /\ x.at \in {"verify", "disable"} => x.step = 0
  /\ x.at = "confirm" => x.step \in Nat \ {0}

RequestsPart ==
  /\ up \in BOOLEAN
  /\ request = [r \in Request |-> request[r]]
  /\ \A r \in Request : RequestOK(request[r])
  /\ \A r \in Request : request[r].at # "idle" => up

UsersPart ==
  /\ users \in [User -> UserRow \cup {None}]
  /\ up => \E u \in User : Exists(u)
  /\ AdminRemains

CredentialsPart ==
  /\ credentials \in SUBSET Credential
  /\ tickets \in SUBSET [id : Id, user : User, pw : Password]
  /\ \A c \in credentials \cup tickets : Exists(c.user)
  /\ SessionsAreCurrent

FactorsPart ==
  /\ totp \in [User -> FactorRow \cup {None}]
  /\ codes \in [User -> Nat]
  /\ accepted \in [User -> SUBSET (Nat \ {0})]
  /\ \A u \in User : totp[u] # None \/ codes[u] # 0 => Exists(u)
  /\ \A u \in User : \A s \in accepted[u] : totp[u] # None /\ s <= totp[u].last

ThrottlePart ==
  /\ attempts \in [User -> Throttled]
  /\ late \in [User -> Nat]

IInv == RequestsPart /\ UsersPart /\ CredentialsPart /\ FactorsPart /\ ThrottlePart

USE AdminAssumption, NoneAssumption, UnusableAssumption, BoundsAssumption
-----------------------------------------------------------------------------
(* Initially                                                                 *)

LEMMA IdleOK == RequestOK(Idle) /\ Idle.at = "idle"
BY DEF Idle, At, RequestOK, Asking, Places

LEMMA InitOK == Init => IInv
<1>. SUFFICES ASSUME Init PROVE IInv
  OBVIOUS
<1>1. RequestsPart
  BY IdleOK DEF Init, RequestsPart
<1>2. UsersPart /\ CredentialsPart
  BY DEF Init, UsersPart, CredentialsPart, AdminRemains, Admins, Exists, SessionsAreCurrent, Sessions
<1>3. FactorsPart /\ ThrottlePart
  BY DEF Init, FactorsPart, ThrottlePart, NoAttempts, Throttled
<1>. QED  BY <1>1, <1>2, <1>3 DEF IInv
-----------------------------------------------------------------------------
(* Requests                                                                  *)

\* One request goes on.
GoesOn(r) ==
  \E x \in Asking :
    /\ RequestOK(x) /\ (x.at # "idle" => up)
    /\ request' = [request EXCEPT ![r] = x] /\ up' = up

RequestsRest == request' = request /\ up' = up

LEMMA GoesOnOK ==
  ASSUME RequestsPart, NEW r \in Request, GoesOn(r)
  PROVE  RequestsPart'
<1>1. PICK x \in Asking :
        /\ RequestOK(x) /\ (x.at # "idle" => up)
        /\ request' = [request EXCEPT ![r] = x] /\ up' = up
  BY DEF GoesOn
<1>2. \A q \in Request : request'[q] = IF q = r THEN x ELSE request[q]
  BY <1>1 DEF RequestsPart
<1>3. request' = [q \in Request |-> request'[q]]
  BY <1>1 DEF RequestsPart
<1>. QED  BY <1>1, <1>2, <1>3 DEF RequestsPart, RequestOK

LEMMA EndsGoesOn ==
  ASSUME NEW r \in Request, Ends(r), up' = up
  PROVE  GoesOn(r)
BY IdleOK DEF Ends, GoesOn, RequestOK

\* A request goes on with what it has read.
LEMMA GoesToGoesOn ==
  ASSUME RequestsPart, NEW r \in Request, NEW to \in Places, Goes(r, to), up' = up,
         request[r].at # "idle",
         to \in {"password", "ticket", "open", "verify", "proved", "consume", "reopen"} =>
           request[r].pw \in Password,
         to \in {"verify", "disable", "confirm"} => FALSE
  PROVE  GoesOn(r)
<1>. DEFINE x == [request[r] EXCEPT !.at = to]
<1>1. request[r] \in Asking /\ request[r].user \in User /\ up
  BY DEF RequestsPart, RequestOK
<1>2. x \in Asking /\ x.at = to /\ x.user = request[r].user /\ x.pw = request[r].pw
  BY <1>1 DEF Asking
<1>3. request' = [request EXCEPT ![r] = x]
  BY DEF Goes
<1>. HIDE DEF x
<1>4. RequestOK(x)
  BY <1>1, <1>2 DEF RequestOK
<1>. QED  BY <1>1, <1>2, <1>3, <1>4 DEF GoesOn

LEMMA LoginRequests ==
  ASSUME IInv, NEW r \in Request, Login(r)
  PROVE  GoesOn(r)
<1>1. RequestsPart /\ RequestOK(request[r])
  BY DEF IInv, RequestsPart
<1>2. ASSUME NEW u \in User, LoginBegins(r, u) PROVE GoesOn(r)
  <2>. DEFINE x == [at |-> "login", user |-> u, id |-> None, pw |-> None, step |-> 0]
  <2>1. request' = [request EXCEPT ![r] = x] /\ up /\ up' = up
    BY <1>2 DEF LoginBegins, At
  <2>2. x \in Asking /\ RequestOK(x)
    BY DEF Asking, Places, RequestOK
  <2>. QED  BY <2>1, <2>2 DEF GoesOn
<1>3. CASE LoginFails(r)
  BY <1>3, EndsGoesOn DEF LoginFails
<1>4. CASE PasswordRight(r)
  <2>. DEFINE u == request[r].user
            x == [at |-> "password", user |-> u, id |-> None, pw |-> users[u].pw, step |-> 0]
  <2>1. u \in User /\ users[u].pw \in Password /\ request[r].at = "login" /\ up
    BY <1>1, <1>4 DEF PasswordRight, RequestOK, IInv, RequestsPart, UsersPart, UserRow, Exists
  <2>2. request' = [request EXCEPT ![r] = x] /\ up' = up
    BY <1>4 DEF PasswordRight, At
  <2>3. x \in Asking /\ RequestOK(x)
    BY <1>1, <2>1 DEF Asking, Places, RequestOK
  <2>. QED  BY <2>1, <2>2, <2>3 DEF GoesOn
<1>5. CASE AskFactor(r)
  BY <1>1, <1>5, GoesToGoesOn DEF AskFactor, RequestOK, Places
<1>6. CASE LoginSucceeds(r)
  BY <1>6, EndsGoesOn DEF LoginSucceeds
<1>7. ASSUME NEW i \in Id, GiveTicket(r, i) PROVE GoesOn(r)
  BY <1>7, EndsGoesOn DEF GiveTicket
<1>8. ASSUME NEW i \in Id, OpenSession(r, i) PROVE GoesOn(r)
  <2>1. CASE Ends(r)
    BY <2>1, <1>8, EndsGoesOn DEF OpenSession
  <2>2. CASE Opened(r)
    <3>. DEFINE x == [at |-> "opened", user |-> request[r].user, id |-> None, pw |-> None, step |-> 0]
    <3>1. request' = [request EXCEPT ![r] = x] /\ up' = up
      BY <1>8, <2>2 DEF Opened, OpenSession, At
    <3>2. request[r].at # "idle" /\ up /\ request[r].user \in User
      BY <1>1, <1>8 DEF OpenSession, RequestOK, RequestsPart
    <3>3. x \in Asking /\ RequestOK(x)
      BY <3>2 DEF Asking, Places, RequestOK
    <3>. QED  BY <3>1, <3>2, <3>3 DEF GoesOn
  <2>. QED  BY <1>8, <2>1, <2>2 DEF OpenSession
<1>. QED  BY <1>2, <1>3, <1>4, <1>5, <1>6, <1>7, <1>8 DEF Login

LEMMA FactorRequests ==
  ASSUME IInv, NEW r \in Request, Factor(r)
  PROVE  GoesOn(r)
<1>1. RequestsPart /\ RequestOK(request[r]) /\ (request[r].at # "idle" => up)
  BY DEF IInv, RequestsPart
<1>. DEFINE q == request[r]
<1>2. ASSUME NEW t \in tickets, VerifyBegins(r, t) PROVE GoesOn(r)
  <2>. DEFINE x == [at |-> "verify", user |-> t.user, id |-> t.id, pw |-> t.pw, step |-> 0]
  <2>1. t.user \in User /\ t.id \in Id /\ t.pw \in Password
    BY DEF IInv, CredentialsPart
  <2>2. request' = [request EXCEPT ![r] = x] /\ up /\ up' = up
    BY <1>2 DEF VerifyBegins, At
  <2>3. x \in Asking /\ RequestOK(x)
    BY <2>1 DEF Asking, Places, RequestOK
  <2>. QED  BY <2>2, <2>3 DEF GoesOn
<1>3. CASE CodeFails(r)
  BY <1>3, EndsGoesOn DEF CodeFails
<1>4. CASE VerifySucceeds(r)
  <2>. DEFINE x == [at |-> "consume", user |-> q.user, id |-> q.id, pw |-> q.pw, step |-> 0]
  <2>1. q.user \in User /\ q.id \in Id \cup {None} /\ q.pw \in Password /\ up
    BY <1>1, <1>4 DEF VerifySucceeds, RequestOK, Asking
  <2>2. request' = [request EXCEPT ![r] = x] /\ up' = up
    BY <1>4 DEF VerifySucceeds, At
  <2>3. x \in Asking /\ RequestOK(x)
    BY <2>1 DEF Asking, Places, RequestOK
  <2>. QED  BY <2>1, <2>2, <2>3 DEF GoesOn
<1>5. CASE DeletePending(r)
  BY <1>1, <1>5, GoesToGoesOn DEF DeletePending, RequestOK, Places
<1>6. CASE Disable(r)
  BY <1>6, EndsGoesOn DEF Disable
<1>7. ASSUME NEW s \in Matching, UseStep(r, s) PROVE GoesOn(r)
  <2>. DEFINE x == [at |-> Proved(r), user |-> q.user, id |-> q.id, pw |-> q.pw, step |-> s]
  <2>1. /\ q.user \in User /\ q.id \in Id \cup {None} /\ q.pw \in Password \cup {Unusable, None}
        /\ q.at \in {"verify", "disable"} /\ (q.at = "verify" => q.pw \in Password) /\ up
    BY <1>1, <1>7 DEF UseStep, RequestOK, Asking
  <2>2. Proved(r) = IF q.at = "verify" THEN "proved" ELSE "disproved"
    BY DEF Proved
  <2>3. request' = [request EXCEPT ![r] = x] /\ up' = up
    BY <1>7 DEF UseStep, At
  <2>4. s \in Nat
    BY DEF Matching
  <2>. HIDE DEF q
  <2>5. x \in Asking /\ RequestOK(x)
    BY <2>1, <2>2, <2>4 DEF Asking, Places, RequestOK
  <2>. QED  BY <2>1, <2>3, <2>5 DEF GoesOn
<1>8. CASE UseRecoveryCode(r)
  <2>1. /\ Goes(r, Proved(r)) /\ up' = up /\ q.at \in {"verify", "disable"}
        /\ Proved(r) = IF q.at = "verify" THEN "proved" ELSE "disproved"
        /\ (q.at = "verify" => q.pw \in Password)
    BY <1>1, <1>8 DEF UseRecoveryCode, Proved, RequestOK
  <2>. QED  BY <1>1, <2>1, GoesToGoesOn DEF Places
<1>9. CASE SetSecret(r) \/ Confirm(r)
  BY <1>9, EndsGoesOn DEF SetSecret, Confirm
<1>. QED  BY <1>2, <1>3, <1>4, <1>5, <1>6, <1>7, <1>8, <1>9 DEF Factor

LEMMA ActsGoesOn ==
  ASSUME NEW r \in Request, NEW u \in User, NEW i \in Id \cup {None},
         NEW as \in {"setup", "disable", "change", "admin"}, Acts(r, u, i, as)
  PROVE  GoesOn(r)
<1>. DEFINE x == [at |-> as, user |-> u, id |-> i, pw |-> None, step |-> 0]
<1>1. request' = [request EXCEPT ![r] = x] /\ up /\ up' = up
  BY DEF Acts, At
<1>2. x \in Asking /\ RequestOK(x)
  BY DEF Asking, Places, RequestOK
<1>. QED  BY <1>1, <1>2 DEF GoesOn

LEMMA AccountRequests ==
  ASSUME IInv, NEW r \in Request, Account(r)
  PROVE  GoesOn(r)
<1>1. ASSUME NEW u \in User, NEW i \in ComesWith(u),
             SetupBegins(r, u) \/ DisableBegins(r, u) \/ ChangeBegins(r, u, i) \/ AdminBegins(r, u, i)
      PROVE  GoesOn(r)
  <2>1. i \in Id \cup {None}
    BY DEF ComesWith, Sessions, IInv, CredentialsPart, Credential
  <2>. QED  BY <1>1, <2>1, ActsGoesOn DEF SetupBegins, DisableBegins, ChangeBegins, AdminBegins
<1>2. ASSUME NEW u \in User, NEW s \in Matching, ConfirmBegins(r, u, s)
      PROVE  GoesOn(r)
  <2>. DEFINE x == [at |-> "confirm", user |-> u, id |-> None, pw |-> None, step |-> s]
  <2>1. s \in Nat \ {0}
    BY DEF Matching
  <2>2. request' = [request EXCEPT ![r] = x] /\ up /\ up' = up
    BY <1>2 DEF ConfirmBegins, At
  <2>3. x \in Asking /\ RequestOK(x)
    BY <2>1 DEF Asking, Places, RequestOK
  <2>. QED  BY <2>2, <2>3 DEF GoesOn
<1>3. ASSUME NEW pw \in Password, ChangePassword(r, pw) PROVE GoesOn(r)
  BY <1>3, EndsGoesOn DEF ChangePassword
<1>4. CASE GiveUp(r)
  BY <1>4, EndsGoesOn DEF GiveUp
<1>. QED  BY <1>1, <1>2, <1>3, <1>4 DEF Account

LEMMA AdminRequests ==
  ASSUME NEW r \in Request, Admin(r)
  PROVE  GoesOn(r)
BY EndsGoesOn DEF Admin, CreateUser, UpdateRole, DeleteUser, Reset2FA, ResetPassword

LEMMA StopRequests ==
  ASSUME RequestsPart, Stop
  PROVE  RequestsPart'
<1>1. request' = [r \in Request |-> Idle] /\ up' = FALSE
  BY DEF Stop
<1>. QED  BY <1>1, IdleOK DEF RequestsPart

\* What the others leave to the requests.
LEMMA LifecycleRequests ==
  ASSUME RequestsPart, Lifecycle \/ Tokens \/ UNCHANGED vars
  PROVE  RequestsPart'
<1>1. CASE Stop
  BY <1>1, StopRequests
<1>2. CASE RequestsRest
  BY <1>2 DEF RequestsRest, RequestsPart
<1>3. CASE request' = request /\ up = FALSE /\ up' \in BOOLEAN
  BY <1>3 DEF RequestsPart
<1>4. CASE (\E pw \in Password : BootFirst(pw)) \/ Boot
           \/ \E u \in User, pw \in Password, whole \in BOOLEAN : BootReset(u, pw, whole)
  BY <1>3, <1>4 DEF BootFirst, Boot, BootReset, RequestsPart
<1>5. CASE (\E u \in User : Lapse(u) \/ Provision(u)) \/ \E x \in Sessions \cup tickets : Expire(x)
  BY <1>2, <1>5 DEF Lapse, Provision, Expire, RequestsRest
<1>6. CASE Tokens \/ UNCHANGED vars
  BY <1>2, <1>6 DEF Tokens, Logout, CreateToken, DeleteToken, RequestsRest, vars
<1>. QED  BY <1>1, <1>4, <1>5, <1>6 DEF Lifecycle

LEMMA RequestsOK ==
  ASSUME IInv, [Next]_vars
  PROVE  RequestsPart'
BY LoginRequests, FactorRequests, AccountRequests, AdminRequests, GoesOnOK, LifecycleRequests
DEF Next, IInv
-----------------------------------------------------------------------------
(* Users                                                                     *)

LEMMA UsersRestOK ==
  ASSUME UsersPart, users' = users, up' => up
  PROVE  UsersPart'
BY DEF UsersPart, AdminRemains, Admins, Exists

\* A row is written, and it is an admin's or there is another admin.
LEMMA WriteUser ==
  ASSUME UsersPart, NEW u \in User, NEW x \in UserRow,
         users' = [users EXCEPT ![u] = x],
         x.role = "admin" \/ \E v \in User \ {u} : v \in Admins
  PROVE  UsersPart'
<1>1. /\ users' \in [User -> UserRow \cup {None}] /\ users'[u] = x
      /\ \A v \in User \ {u} : users'[v] = users[v]
  BY DEF UsersPart
<1>2. x # None
  BY DEF UserRow, Role
<1>3. Admins' # {}
  <2>1. CASE x.role = "admin"
    BY <2>1, <1>1, <1>2 DEF Admins, Exists
  <2>2. ASSUME NEW v \in User \ {u}, v \in Admins PROVE Admins' # {}
    BY <2>2, <1>1 DEF Admins, Exists
  <2>. QED  BY <2>1, <2>2
<1>. QED  BY <1>1, <1>2, <1>3 DEF UsersPart, AdminRemains, Admins, Exists

\* A row of a user keeps its role.
LEMMA KeepRole ==
  ASSUME UsersPart, NEW u \in User, Exists(u), NEW pw \in Password \cup {Unusable},
         users' = [users EXCEPT ![u] = [role |-> users[u].role, pw |-> pw]]
  PROVE  UsersPart'
<1>. DEFINE x == [role |-> users[u].role, pw |-> pw]
<1>1. users[u] \in UserRow /\ users \in [User -> UserRow \cup {None}]
  BY DEF UsersPart, Exists
<1>2. users[u] = [role |-> users[u].role, pw |-> users[u].pw] /\ users[u].role \in Role
  BY <1>1 DEF UserRow
<1>3. users' = [users EXCEPT ![u] = x]
  BY <1>1, <1>2
<1>4. x \in UserRow
  BY <1>2 DEF UserRow
<1>5. x.role = "admin" \/ \E v \in User \ {u} : v \in Admins
  BY <1>1 DEF UsersPart, AdminRemains, Admins, Exists
<1>. HIDE DEF x
<1>. QED  BY <1>3, <1>4, <1>5, WriteUser

\* A new user: there are others.
LEMMA NewUser ==
  ASSUME UsersPart, up, NEW u \in User, ~Exists(u), NEW x \in UserRow,
         users' = [users EXCEPT ![u] = x]
  PROVE  UsersPart'
<1>1. \E v \in User \ {u} : v \in Admins
  BY DEF UsersPart, AdminRemains, Admins
<1>. QED  BY <1>1, WriteUser

LEMMA LifecycleUsers ==
  ASSUME UsersPart, Lifecycle
  PROVE  UsersPart'
<1>1. ASSUME NEW pw \in Password, BootFirst(pw) PROVE UsersPart'
  <2>. DEFINE x == [role |-> "admin", pw |-> pw]
  <2>1. x \in UserRow /\ x.role = "admin" /\ users' = [users EXCEPT ![AdminName] = x]
    BY <1>1 DEF BootFirst, UserRow, Role
  <2>. QED  BY <2>1, WriteUser
<1>2. CASE Boot
  BY <1>2 DEF Boot, UsersPart, AdminRemains, Admins, Exists, tables
<1>3. ASSUME NEW u \in User, NEW pw \in Password, NEW whole \in BOOLEAN, BootReset(u, pw, whole)
      PROVE  UsersPart'
  <2>. DEFINE x == [role |-> IF whole THEN "admin" ELSE users[u].role, pw |-> pw]
  <2>1. Exists(u) /\ users[u] \in UserRow
    BY <1>3 DEF BootReset, ResetTarget, UsersPart, Exists
  <2>2. x \in UserRow
    BY <2>1 DEF UserRow, Role
  <2>3. users' = [users EXCEPT ![u] = x]
    BY <1>3 DEF BootReset
  <2>4. x.role = "admin" \/ \E v \in User \ {u} : v \in Admins
    BY <2>1 DEF UsersPart, AdminRemains, Admins, Exists
  <2>. QED  BY <2>2, <2>3, <2>4, WriteUser
<1>4. CASE Stop
  BY <1>4, UsersRestOK DEF Stop, tables
<1>5. ASSUME NEW u \in User, Lapse(u) PROVE UsersPart'
  BY <1>5, UsersRestOK DEF Lapse, tables
<1>6. ASSUME NEW u \in User, Provision(u) PROVE UsersPart'
  <2>1. [role |-> "viewer", pw |-> Unusable] \in UserRow
    BY DEF UserRow, Role
  <2>. QED  BY <1>6, <2>1, NewUser DEF Provision, FreshUser
<1>7. ASSUME NEW x \in Sessions \cup tickets, Expire(x) PROVE UsersPart'
  BY <1>7, UsersRestOK DEF Expire
<1>. QED  BY <1>1, <1>2, <1>3, <1>4, <1>5, <1>6, <1>7 DEF Lifecycle

LEMMA AdminUsers ==
  ASSUME RequestsPart, UsersPart, NEW r \in Request, Admin(r)
  PROVE  UsersPart'
<1>1. ASSUME NEW u \in User, NEW role \in Role, NEW pw \in Password, CreateUser(r, u, role, pw)
      PROVE  UsersPart'
  <2>1. [role |-> role, pw |-> pw] \in UserRow
    BY DEF UserRow
  <2>2. up
    BY <1>1 DEF CreateUser, RequestsPart
  <2>. QED  BY <1>1, <2>1, <2>2, NewUser DEF CreateUser, FreshUser
<1>2. ASSUME NEW u \in User, NEW role \in Role, UpdateRole(r, u, role)
      PROVE  UsersPart'
  <2>. DEFINE x == [role |-> role, pw |-> users[u].pw]
  <2>1. users[u] \in UserRow /\ users \in [User -> UserRow \cup {None}]
    BY <1>2 DEF UpdateRole, UsersPart, Exists
  <2>2. users[u] = [role |-> users[u].role, pw |-> users[u].pw] /\ x \in UserRow
    BY <2>1 DEF UserRow
  <2>3. users' = [users EXCEPT ![u] = x]
    BY <1>2, <2>1, <2>2 DEF UpdateRole
  <2>4. x.role = "admin" \/ \E v \in User \ {u} : v \in Admins
    BY <1>2 DEF UpdateRole, AnotherAdmin, UsersPart, AdminRemains, Admins
  <2>. HIDE DEF x
  <2>. QED  BY <2>2, <2>3, <2>4, WriteUser
<1>3. ASSUME NEW u \in User, DeleteUser(r, u)
      PROVE  UsersPart'
  <2>1. /\ users' = [users EXCEPT ![u] = None] /\ Exists(u)
        /\ \E v \in User \ {u} : Exists(v)
        /\ u \in Admins => AnotherAdmin(u)
    BY <1>3 DEF DeleteUser
  <2>2. /\ users' \in [User -> UserRow \cup {None}]
        /\ \A v \in User \ {u} : users'[v] = users[v]
    BY <2>1 DEF UsersPart
  <2>3. PICK v \in User \ {u} : v \in Admins
    BY <2>1 DEF AnotherAdmin, UsersPart, AdminRemains, Admins
  <2>4. v \in Admins'
    BY <2>2, <2>3 DEF Admins, Exists
  <2>. QED  BY <2>2, <2>4 DEF UsersPart, AdminRemains, Admins, Exists
<1>4. ASSUME NEW u \in User, Reset2FA(r, u)
      PROVE  UsersPart'
  BY <1>4, UsersRestOK DEF Reset2FA
<1>5. ASSUME NEW u \in User, NEW pw \in Password, ResetPassword(r, u, pw)
      PROVE  UsersPart'
  BY <1>5, KeepRole DEF ResetPassword, SetPasswordAndRevoke
<1>. QED  BY <1>1, <1>2, <1>3, <1>4, <1>5 DEF Admin

LEMMA UsersOK ==
  ASSUME IInv, [Next]_vars
  PROVE  UsersPart'
<1>. RequestsPart /\ UsersPart
  BY DEF IInv
<1>1. ASSUME NEW r \in Request, Login(r) PROVE UsersPart'
  BY <1>1, UsersRestOK
  DEF Login, LoginBegins, LoginFails, PasswordRight, AskFactor, LoginSucceeds, GiveTicket, OpenSession, tables
<1>2. ASSUME NEW r \in Request, Factor(r) PROVE UsersPart'
  <2>1. CASE \E t \in tickets : VerifyBegins(r, t)
    BY <2>1, UsersRestOK DEF VerifyBegins, tables
  <2>2. CASE CodeFails(r) \/ VerifySucceeds(r) \/ DeletePending(r)
    BY <2>2, UsersRestOK DEF CodeFails, VerifySucceeds, DeletePending, tables
  <2>3. CASE (\E s \in Matching : UseStep(r, s)) \/ UseRecoveryCode(r)
    <3>1. users' = users /\ up' = up
      BY <2>3 DEF UseStep, UseRecoveryCode
    <3>. QED  BY <3>1, UsersRestOK
  <2>4. CASE SetSecret(r) \/ Confirm(r) \/ Disable(r)
    BY <2>4, UsersRestOK DEF SetSecret, Confirm, Disable
  <2>. QED  BY <1>2, <2>1, <2>2, <2>3, <2>4 DEF Factor
<1>3. ASSUME NEW r \in Request, Account(r) PROVE UsersPart'
  <2>1. ASSUME NEW pw \in Password, ChangePassword(r, pw) PROVE UsersPart'
    <3>1. request[r].user \in User
      BY <2>1 DEF RequestsPart, RequestOK, ChangePassword
    <3>. QED  BY <2>1, <3>1, KeepRole DEF ChangePassword, SetPasswordAndRevoke
  <2>2. CASE users' = users /\ up' = up
    BY <2>2, UsersRestOK
  <2>. QED  BY <1>3, <2>1, <2>2
            DEF Account, SetupBegins, DisableBegins, ChangeBegins, AdminBegins, Acts, ConfirmBegins, GiveUp, tables
<1>4. CASE Tokens \/ UNCHANGED vars
  BY <1>4, UsersRestOK DEF Tokens, Logout, CreateToken, DeleteToken, vars, tables
<1>. QED  BY <1>1, <1>2, <1>3, <1>4, LifecycleUsers, AdminUsers DEF Next
-----------------------------------------------------------------------------
(* The throttle                                                              *)

LEMMA CleanedType ==
  ASSUME NEW a \in [User -> Throttled], NEW old \in SUBSET User
  PROVE  Cleaned(a, old) \in [User -> Throttled]
<1>1. NoAttempts \in Throttled
  BY DEF NoAttempts, Throttled
<1>. QED  BY <1>1 DEF Cleaned

LEMMA RecordFailureOK ==
  ASSUME ThrottlePart, NEW u \in User, RecordFailure(u)
  PROVE  ThrottlePart'
<1>. DEFINE n == attempts[u].failures + 1
            x == IF n >= Threshold THEN [failures |-> 0, locked |-> TRUE]
                 ELSE [failures |-> n, locked |-> attempts[u].locked]
            counted == [attempts EXCEPT ![u] = x]
<1>1. attempts[u].failures \in 0 .. Threshold - 1 /\ attempts[u].locked \in BOOLEAN
  BY DEF ThrottlePart, Throttled
<1>2. x \in Throttled
  BY <1>1 DEF Throttled
<1>3. counted \in [User -> Throttled]
  BY <1>2 DEF ThrottlePart
<1>4. /\ \E old \in SUBSET (User \ {u}) : attempts' = Cleaned(counted, old)
      /\ late' = [late EXCEPT ![u] = IF Locked(u) THEN @ + 1 ELSE 0]
  BY DEF RecordFailure
<1>. HIDE DEF counted
<1>5. attempts' \in [User -> Throttled]
  BY <1>3, <1>4, CleanedType
<1>6. late' \in [User -> Nat]
  BY <1>4 DEF ThrottlePart
<1>. QED  BY <1>5, <1>6 DEF ThrottlePart

LEMMA ThrottleOK ==
  ASSUME IInv, [Next]_vars
  PROVE  ThrottlePart'
<1>. ThrottlePart /\ RequestsPart
  BY DEF IInv
<1>n. NoAttempts \in Throttled
  BY DEF NoAttempts, Throttled
<1>1. CASE UNCHANGED throttle
  BY <1>1 DEF throttle, ThrottlePart
<1>2. ASSUME NEW r \in Request, Login(r) PROVE ThrottlePart'
  <2>1. CASE LoginFails(r)
    <3>1. request[r].user \in User
      BY <2>1 DEF LoginFails, RequestsPart, RequestOK
    <3>. QED  BY <2>1, <3>1, RecordFailureOK DEF LoginFails
  <2>2. CASE LoginSucceeds(r)
    <3>. DEFINE u == request[r].user
                cleared == [attempts EXCEPT ![u] = NoAttempts]
    <3>1. u \in User
      BY <2>2 DEF LoginSucceeds, RequestsPart, RequestOK
    <3>2. cleared \in [User -> Throttled]
      BY <3>1, <1>n DEF ThrottlePart
    <3>3. /\ \E old \in SUBSET (User \ {u}) : attempts' = Cleaned(cleared, old)
          /\ late' = [late EXCEPT ![u] = 0]
      BY <2>2 DEF LoginSucceeds
    <3>. HIDE DEF cleared
    <3>4. attempts' \in [User -> Throttled]
      BY <3>2, <3>3, CleanedType
    <3>. QED  BY <3>3, <3>4 DEF ThrottlePart
  <2>3. CASE UNCHANGED throttle
    BY <2>3, <1>1
  <2>. QED  BY <1>2, <2>1, <2>2, <2>3
            DEF Login, LoginBegins, PasswordRight, AskFactor, GiveTicket, OpenSession
<1>3. ASSUME NEW r \in Request, Factor(r) PROVE ThrottlePart'
  <2>1. CASE CodeFails(r)
    <3>1. request[r].at = "verify" => request[r].user \in User
      BY DEF RequestsPart, RequestOK
    <3>. QED  BY <2>1, <3>1, <1>1, RecordFailureOK DEF CodeFails
  <2>2. CASE VerifySucceeds(r)
    <3>1. attempts' \in [User -> Throttled] /\ late' \in [User -> Nat]
      BY <2>2, <1>n DEF VerifySucceeds, RecordSuccess, ThrottlePart
    <3>. QED  BY <3>1 DEF ThrottlePart
  <2>3. CASE UNCHANGED throttle
    BY <2>3, <1>1
  <2>4. ASSUME \/ \E t \in tickets : VerifyBegins(r, t)
               \/ DeletePending(r) \/ Disable(r) \/ (\E s \in Matching : UseStep(r, s))
               \/ UseRecoveryCode(r) \/ SetSecret(r) \/ Confirm(r)
        PROVE  UNCHANGED throttle
    BY <2>4 DEF VerifyBegins, DeletePending, Disable, UseStep, UseRecoveryCode, SetSecret, Confirm
  <2>. QED  BY <1>3, <2>1, <2>2, <2>3, <2>4 DEF Factor
<1>4. ASSUME NEW r \in Request, Account(r) \/ Admin(r) PROVE ThrottlePart'
  <2>1. CASE Account(r)
    BY <2>1, <1>1
    DEF Account, SetupBegins, DisableBegins, ChangeBegins, AdminBegins, Acts, ConfirmBegins, ChangePassword, GiveUp
  <2>2. CASE Admin(r)
    BY <2>2, <1>1 DEF Admin, CreateUser, UpdateRole, DeleteUser, Reset2FA, ResetPassword
  <2>. QED  BY <1>4, <2>1, <2>2
<1>5. CASE Lifecycle
  <2>1. CASE Stop
    BY <2>1, <1>n DEF Stop, ThrottlePart
  <2>2. ASSUME NEW u \in User, Lapse(u) PROVE ThrottlePart'
    <3>. DEFINE x == [failures |-> attempts[u].failures, locked |-> FALSE]
    <3>1. x \in Throttled
      BY DEF ThrottlePart, Throttled
    <3>2. attempts' = [attempts EXCEPT ![u] = x] /\ late' = [late EXCEPT ![u] = 0]
      BY <2>2 DEF Lapse
    <3>. QED  BY <3>1, <3>2 DEF ThrottlePart
  <2>3. CASE UNCHANGED throttle
    BY <2>3, <1>1
  <2>. QED  BY <1>5, <2>1, <2>2, <2>3 DEF Lifecycle, BootFirst, Boot, BootReset, Provision, Expire
<1>6. CASE Tokens \/ UNCHANGED vars
  BY <1>1, <1>6 DEF Tokens, Logout, CreateToken, DeleteToken, vars
<1>. QED  BY <1>2, <1>3, <1>4, <1>5, <1>6 DEF Next
-----------------------------------------------------------------------------
(* Second factors                                                            *)

LEMMA FactorsRest ==
  ASSUME FactorsPart, UNCHANGED factorTables, \A u \in User : Exists(u) => users'[u] # None
  PROVE  FactorsPart'
BY DEF FactorsPart, factorTables, Exists

\* What is stored for one user, who exists.
LEMMA WriteFactor ==
  ASSUME FactorsPart, NEW u \in User, Exists(u), users' = users,
         NEW x \in FactorRow, NEW n \in Nat, NEW steps \in SUBSET (Nat \ {0}),
         \A s \in steps : s <= x.last,
         totp' = [totp EXCEPT ![u] = x], codes' = [codes EXCEPT ![u] = n],
         accepted' = [accepted EXCEPT ![u] = steps]
  PROVE  FactorsPart'
<1>1. x # None
  OBVIOUS
<1>2. \A v \in User :
        /\ totp'[v] = IF v = u THEN x ELSE totp[v]
        /\ codes'[v] = IF v = u THEN n ELSE codes[v]
        /\ accepted'[v] = IF v = u THEN steps ELSE accepted[v]
  BY DEF FactorsPart
<1>3. /\ totp' \in [User -> FactorRow \cup {None}] /\ codes' \in [User -> Nat]
      /\ accepted' \in [User -> SUBSET (Nat \ {0})]
  BY DEF FactorsPart
<1>. QED  BY <1>1, <1>2, <1>3 DEF FactorsPart, Exists

\* What goes with a user, or with the user's second factor.
LEMMA ClearFactor ==
  ASSUME FactorsPart, NEW u \in User, DisabledFor(u),
         \A v \in User \ {u} : Exists(v) => users'[v] # None
  PROVE  FactorsPart'
<1>1. \A v \in User :
        /\ totp'[v] = IF v = u THEN None ELSE totp[v]
        /\ codes'[v] = IF v = u THEN 0 ELSE codes[v]
        /\ accepted'[v] = IF v = u THEN {} ELSE accepted[v]
  BY DEF FactorsPart, DisabledFor
<1>2. /\ totp' \in [User -> FactorRow \cup {None}] /\ codes' \in [User -> Nat]
      /\ accepted' \in [User -> SUBSET (Nat \ {0})]
  BY DEF FactorsPart, DisabledFor
<1>. QED  BY <1>1, <1>2 DEF FactorsPart, Exists

\* A written row is a row.
LEMMA WriteStays ==
  ASSUME UsersPart, NEW u \in User, NEW x \in UserRow, users' = [users EXCEPT ![u] = x]
  PROVE  \A v \in User : Exists(v) => users'[v] # None
BY DEF UsersPart, Exists

\* A user who gets a new password stays.
LEMMA PasswordStays ==
  ASSUME UsersPart, NEW r \in Request, NEW u \in User, NEW pw \in Password,
         SetPasswordAndRevoke(r, u, pw)
  PROVE  \A v \in User : Exists(v) => users'[v] # None
<1>1. users[u] \in UserRow
  BY DEF SetPasswordAndRevoke, UsersPart, Exists
<1>2. [role |-> users[u].role, pw |-> pw] \in UserRow
  BY <1>1 DEF UserRow
<1>3. users' = [users EXCEPT ![u] = [role |-> users[u].role, pw |-> pw]]
  BY DEF SetPasswordAndRevoke
<1>. QED  BY <1>2, <1>3, WriteStays

LEMMA FactorFactors ==
  ASSUME IInv, NEW r \in Request, Factor(r)
  PROVE  FactorsPart'
<1>. DEFINE u == request[r].user
<1>. FactorsPart /\ UsersPart
  BY DEF IInv
<1>0. /\ request[r].at # "idle" => u \in User
      /\ request[r].at = "confirm" => request[r].step \in Nat \ {0}
  BY DEF IInv, RequestsPart, RequestOK
<1>r. ASSUME UNCHANGED <<users, factorTables>> PROVE FactorsPart'
  BY <1>r, FactorsRest DEF Exists
<1>w. ASSUME u \in User
      PROVE  /\ totp[u] # None => totp[u] \in FactorRow
             /\ codes[u] \in Nat /\ codes = [codes EXCEPT ![u] = codes[u]]
             /\ totp = [totp EXCEPT ![u] = totp[u]]
             /\ accepted[u] \in SUBSET (Nat \ {0}) /\ accepted = [accepted EXCEPT ![u] = accepted[u]]
             /\ totp[u] # None \/ codes[u] # 0 => Exists(u)
             /\ \A s \in accepted[u] : totp[u] # None /\ s <= totp[u].last
  BY <1>w DEF FactorsPart
<1>1. CASE \/ \E t \in tickets : VerifyBegins(r, t)
           \/ CodeFails(r) \/ VerifySucceeds(r) \/ DeletePending(r)
  BY <1>1, <1>r DEF VerifyBegins, CodeFails, VerifySucceeds, DeletePending, tables
<1>2. CASE Disable(r)
  <2>1. u \in User /\ DisabledFor(u) /\ users' = users
    BY <1>0, <1>2 DEF Disable
  <2>. QED  BY <2>1, ClearFactor DEF Exists
<1>3. ASSUME NEW s \in Matching, UseStep(r, s) PROVE FactorsPart'
  <2>. DEFINE x == [enabled |-> totp[u].enabled, last |-> s]
  <2>1. u \in User /\ totp[u] \in FactorRow /\ s \in Nat \ {0} /\ s > totp[u].last /\ Exists(u)
    BY <1>0, <1>3, <1>w DEF UseStep, Matching
  <2>2. /\ totp' = [totp EXCEPT ![u] = x] /\ users' = users
        /\ accepted' = [accepted EXCEPT ![u] = accepted[u] \cup {s}]
        /\ codes' = [codes EXCEPT ![u] = codes[u]]
    BY <1>3, <2>1, <1>w DEF UseStep
  <2>3. x \in FactorRow /\ x.last = s
    BY <2>1 DEF FactorRow
  <2>4. accepted[u] \cup {s} \in SUBSET (Nat \ {0}) /\ \A t \in accepted[u] \cup {s} : t <= x.last
    BY <1>w, <2>1 DEF FactorRow
  <2>5. codes[u] \in Nat
    BY <2>1, <1>w
  <2>. HIDE DEF x, u
  <2>. QED  BY <2>1, <2>2, <2>3, <2>4, <2>5, WriteFactor
<1>4. CASE UseRecoveryCode(r)
  <2>1. u \in User /\ codes[u] > 0 /\ codes' = [codes EXCEPT ![u] = codes[u] - 1]
        /\ totp' = totp /\ accepted' = accepted /\ users' = users
    BY <1>0, <1>4 DEF UseRecoveryCode
  <2>2. \A v \in User : codes'[v] = IF v = u THEN codes[u] - 1 ELSE codes[v]
    BY <2>1 DEF FactorsPart
  <2>3. codes' \in [User -> Nat] /\ codes[u] # 0
    BY <2>1 DEF FactorsPart
  <2>. QED  BY <2>1, <2>2, <2>3 DEF FactorsPart, Exists
<1>5. CASE SetSecret(r)
  <2>. DEFINE x == [enabled |-> FALSE, last |-> 0]
  <2>1. CASE UNCHANGED <<totp, accepted>>
    BY <1>5, <2>1, <1>r DEF SetSecret, factorTables
  <2>2. CASE Exists(u) /\ totp' = [totp EXCEPT ![u] = x] /\ accepted' = [accepted EXCEPT ![u] = {}]
    <3>1. u \in User /\ users' = users /\ codes' = [codes EXCEPT ![u] = codes[u]] /\ codes[u] \in Nat
      BY <1>0, <1>5, <1>w DEF SetSecret
    <3>2. x \in FactorRow
      BY DEF FactorRow
    <3>. HIDE DEF x, u
    <3>. QED  BY <2>2, <3>1, <3>2, WriteFactor
  <2>. QED  BY <1>5, <2>1, <2>2 DEF SetSecret
<1>6. CASE Confirm(r)
  <2>. DEFINE s == request[r].step
              x == [enabled |-> TRUE, last |-> IF totp[u].last < s THEN s ELSE totp[u].last]
  <2>1. CASE UNCHANGED factorTables
    BY <1>6, <2>1, <1>r DEF Confirm
  <2>2. CASE /\ totp[u] # None
             /\ totp' = [totp EXCEPT ![u] = x]
             /\ accepted' = [accepted EXCEPT ![u] = accepted[u] \cup {s}]
             /\ codes' = [codes EXCEPT ![u] = Codes]
    <3>1. u \in User /\ users' = users /\ totp[u] \in FactorRow /\ Exists(u) /\ s \in Nat \ {0}
      BY <1>0, <1>6, <2>2, <1>w DEF Confirm
    <3>2. x \in FactorRow /\ s <= x.last /\ totp[u].last <= x.last /\ x.last \in Nat /\ totp[u].last \in Nat
      BY <3>1 DEF FactorRow
    <3>3. accepted[u] \cup {s} \in SUBSET (Nat \ {0}) /\ \A t \in accepted[u] \cup {s} : t <= x.last
      BY <1>w, <3>1, <3>2
    <3>. HIDE DEF x, u, s
    <3>. QED  BY <2>2, <3>1, <3>2, <3>3, WriteFactor
  <2>. QED  BY <1>6, <2>1, <2>2 DEF Confirm
<1>. QED  BY <1>1, <1>2, <1>3, <1>4, <1>5, <1>6 DEF Factor

LEMMA AdminFactors ==
  ASSUME IInv, NEW r \in Request, Admin(r)
  PROVE  FactorsPart'
<1>. FactorsPart /\ UsersPart
  BY DEF IInv
<1>1. ASSUME NEW u \in User, NEW role \in Role, NEW pw \in Password, CreateUser(r, u, role, pw)
      PROVE  FactorsPart'
  <2>1. [role |-> role, pw |-> pw] \in UserRow
    BY DEF UserRow
  <2>. QED  BY <1>1, <2>1, WriteStays, FactorsRest DEF CreateUser
<1>2. ASSUME NEW u \in User, NEW role \in Role, UpdateRole(r, u, role) PROVE FactorsPart'
  <2>1. users[u] \in UserRow
    BY <1>2 DEF UpdateRole, UsersPart, Exists
  <2>2. [role |-> role, pw |-> users[u].pw] \in UserRow
    BY <2>1 DEF UserRow
  <2>3. users' = [users EXCEPT ![u] = [role |-> role, pw |-> users[u].pw]]
    BY <1>2 DEF UpdateRole
  <2>. QED  BY <1>2, <2>2, <2>3, WriteStays, FactorsRest DEF UpdateRole
<1>3. ASSUME NEW u \in User, DeleteUser(r, u) PROVE FactorsPart'
  <2>1. \A v \in User \ {u} : Exists(v) => users'[v] # None
    BY <1>3 DEF DeleteUser, UsersPart, Exists
  <2>. QED  BY <1>3, <2>1, ClearFactor DEF DeleteUser
<1>4. ASSUME NEW u \in User, Reset2FA(r, u) PROVE FactorsPart'
  BY <1>4, ClearFactor DEF Reset2FA, Exists
<1>5. ASSUME NEW u \in User, NEW pw \in Password, ResetPassword(r, u, pw) PROVE FactorsPart'
  BY <1>5, PasswordStays, FactorsRest DEF ResetPassword
<1>. QED  BY <1>1, <1>2, <1>3, <1>4, <1>5 DEF Admin

LEMMA LifecycleStays ==
  ASSUME UsersPart, Lifecycle
  PROVE  \A v \in User : Exists(v) => users'[v] # None
<1>1. ASSUME NEW pw \in Password, BootFirst(pw) PROVE \A v \in User : Exists(v) => users'[v] # None
  BY <1>1 DEF BootFirst
<1>2. ASSUME NEW u \in User, NEW pw \in Password, NEW whole \in BOOLEAN, BootReset(u, pw, whole)
      PROVE  \A v \in User : Exists(v) => users'[v] # None
  <2>. DEFINE x == [role |-> IF whole THEN "admin" ELSE users[u].role, pw |-> pw]
  <2>1. users[u] \in UserRow
    BY <1>2 DEF BootReset, ResetTarget, UsersPart, Exists
  <2>2. x \in UserRow /\ users' = [users EXCEPT ![u] = x]
    BY <1>2, <2>1 DEF BootReset, UserRow, Role
  <2>. QED  BY <2>2, WriteStays
<1>3. ASSUME NEW u \in User, Provision(u)
      PROVE  \A v \in User : Exists(v) => users'[v] # None
  <2>1. [role |-> "viewer", pw |-> Unusable] \in UserRow
    BY DEF UserRow, Role
  <2>. QED  BY <1>3, <2>1, WriteStays DEF Provision
<1>4. CASE users' = users
  BY <1>4 DEF Exists
<1>. QED  BY <1>1, <1>2, <1>3, <1>4 DEF Lifecycle, Boot, Stop, Lapse, Expire, tables

LEMMA FactorsOK ==
  ASSUME IInv, [Next]_vars
  PROVE  FactorsPart'
<1>. FactorsPart /\ UsersPart
  BY DEF IInv
<1>r. ASSUME UNCHANGED <<users, factorTables>> PROVE FactorsPart'
  BY <1>r, FactorsRest DEF Exists
<1>1. ASSUME NEW r \in Request, Login(r) PROVE FactorsPart'
  BY <1>1, <1>r
  DEF Login, LoginBegins, LoginFails, PasswordRight, AskFactor, LoginSucceeds, GiveTicket, OpenSession, tables
<1>2. ASSUME NEW r \in Request, Account(r) PROVE FactorsPart'
  <2>1. ASSUME NEW pw \in Password, ChangePassword(r, pw) PROVE FactorsPart'
    <3>1. request[r].user \in User
      BY <2>1 DEF IInv, RequestsPart, RequestOK, ChangePassword
    <3>. QED  BY <2>1, <3>1, PasswordStays, FactorsRest DEF ChangePassword
  <2>2. CASE UNCHANGED <<users, factorTables>>
    BY <2>2, <1>r
  <2>. QED  BY <1>2, <2>1, <2>2
            DEF Account, SetupBegins, DisableBegins, ChangeBegins, AdminBegins, Acts, ConfirmBegins, GiveUp, tables
<1>3. CASE Lifecycle
  <2>1. UNCHANGED factorTables
    BY <1>3 DEF Lifecycle, BootFirst, Boot, BootReset, Stop, Lapse, Provision, Expire, tables
  <2>. QED  BY <1>3, <2>1, LifecycleStays, FactorsRest
<1>4. CASE Tokens \/ UNCHANGED vars
  BY <1>4, <1>r DEF Tokens, Logout, CreateToken, DeleteToken, vars, tables
<1>. QED  BY <1>1, <1>2, <1>3, <1>4, FactorFactors, AdminFactors DEF Next
-----------------------------------------------------------------------------
(* Sessions, tokens and tickets                                              *)

\* None is added, and those that stay are of users who stay as they are.
LEMMA FewerCredentials ==
  ASSUME CredentialsPart, credentials' \subseteq credentials, tickets' \subseteq tickets,
         \A c \in credentials' \cup tickets' :
           users'[c.user] # None /\ users'[c.user].pw = users[c.user].pw
  PROVE  CredentialsPart'
BY DEF CredentialsPart, Exists, SessionsAreCurrent, Sessions

LEMMA CredentialsRest ==
  ASSUME CredentialsPart, UNCHANGED <<credentials, tickets>>,
         \A u \in User : Exists(u) => users'[u] # None /\ users'[u].pw = users[u].pw
  PROVE  CredentialsPart'
<1>1. \A c \in credentials \cup tickets : c.user \in User /\ Exists(c.user)
  BY DEF CredentialsPart, Credential
<1>. QED  BY <1>1, FewerCredentials

\* The user of the sessions that are kept gets another password.
LEMMA KeptOK ==
  ASSUME UsersPart, CredentialsPart, NEW u \in User, Exists(u), NEW x \in UserRow,
         users' = [users EXCEPT ![u] = x], NEW cs \in SUBSET credentials,
         credentials' = Kept(cs, u), tickets' = tickets
  PROVE  CredentialsPart'
<1>. DEFINE kept(c) == [c EXCEPT !.since = IF c.user = u THEN None ELSE c.since]
<1>1. \A v \in User : users'[v] = IF v = u THEN x ELSE users[v]
  BY DEF UsersPart
<1>2. ASSUME NEW c \in cs
      PROVE  /\ kept(c) \in Credential /\ kept(c).user = c.user /\ kept(c).kind = c.kind
             /\ kept(c).since = IF c.user = u THEN None ELSE c.since
  BY DEF CredentialsPart, Credential
<1>3. credentials' = {kept(c) : c \in cs}
  BY DEF Kept
<1>. HIDE DEF kept
<1>4. \A c \in credentials' : \E d \in cs :
        /\ c \in Credential /\ c.user = d.user /\ c.kind = d.kind
        /\ c.since = IF d.user = u THEN None ELSE d.since
  BY <1>2, <1>3
<1>5. credentials' \in SUBSET Credential
  BY <1>4
<1>6. \A c \in credentials \cup tickets : c.user \in User /\ users[c.user] # None
  BY DEF CredentialsPart, Credential, Exists
<1>7. \A c \in credentials' \cup tickets' : users'[c.user] # None
  BY <1>1, <1>4, <1>6
<1>8. ASSUME NEW c \in credentials', c.kind = "session", c.since # None
      PROVE  c.since = users'[c.user].pw
  <2>1. PICK d \in cs : /\ c.user = d.user /\ c.kind = d.kind
                        /\ c.since = IF d.user = u THEN None ELSE d.since
    BY <1>4
  <2>2. d \in Sessions /\ d.user # u /\ d.since = c.since
    BY <1>8, <2>1 DEF Sessions
  <2>3. d.since = users[d.user].pw
    BY <1>8, <2>2 DEF CredentialsPart, SessionsAreCurrent
  <2>. QED  BY <2>1, <2>2, <2>3, <1>1, <1>6
<1>. QED  BY <1>5, <1>7, <1>8 DEF CredentialsPart, Exists, SessionsAreCurrent, Sessions

LEMMA PasswordCredentials ==
  ASSUME UsersPart, CredentialsPart, NEW r \in Request, NEW u \in User, NEW pw \in Password,
         SetPasswordAndRevoke(r, u, pw), tickets' = tickets
  PROVE  CredentialsPart'
<1>1. users[u] \in UserRow /\ Exists(u)
  BY DEF SetPasswordAndRevoke, UsersPart, Exists
<1>2. [role |-> users[u].role, pw |-> pw] \in UserRow
  BY <1>1 DEF UserRow
<1>3. /\ users' = [users EXCEPT ![u] = [role |-> users[u].role, pw |-> pw]]
      /\ credentials' = Kept(Unrevoked(r, u), u) /\ Unrevoked(r, u) \in SUBSET credentials
  BY DEF SetPasswordAndRevoke, Unrevoked
<1>. QED  BY <1>1, <1>2, <1>3, KeptOK

\* One more, for a user who exists.
LEMMA AddCredential ==
  ASSUME CredentialsPart, users' = users, tickets' = tickets,
         NEW c \in Credential, Exists(c.user), credentials' = credentials \cup {c},
         c.kind = "session" => c.since = users[c.user].pw
  PROVE  CredentialsPart'
BY DEF CredentialsPart, Exists, SessionsAreCurrent, Sessions

LEMMA LoginCredentials ==
  ASSUME IInv, NEW r \in Request, Login(r)
  PROVE  CredentialsPart'
<1>. DEFINE u == request[r].user
<1>. CredentialsPart /\ UsersPart /\ RequestOK(request[r])
  BY DEF IInv, RequestsPart
<1>r. ASSUME UNCHANGED <<users, credentials, tickets>> PROVE CredentialsPart'
  BY <1>r, CredentialsRest DEF Exists
<1>1. CASE \/ \E v \in User : LoginBegins(r, v)
           \/ LoginFails(r) \/ PasswordRight(r) \/ AskFactor(r) \/ LoginSucceeds(r)
  BY <1>1, <1>r DEF LoginBegins, LoginFails, PasswordRight, AskFactor, LoginSucceeds, tables
<1>2. ASSUME NEW i \in Id, GiveTicket(r, i) PROVE CredentialsPart'
  <2>. DEFINE t == [id |-> i, user |-> u, pw |-> request[r].pw]
  <2>1. /\ u \in User /\ request[r].pw \in Password /\ users' = users /\ credentials' = credentials
        /\ tickets' = IF Exists(u) THEN tickets \cup {t} ELSE tickets
    BY <1>2 DEF GiveTicket, RequestOK
  <2>2. t \in [id : Id, user : User, pw : Password] /\ t.user = u
    BY <2>1
  <2>. HIDE DEF t, u
  <2>3. /\ tickets' \in SUBSET [id : Id, user : User, pw : Password]
        /\ \A c \in credentials' \cup tickets' : users'[c.user] # None
    BY <2>1, <2>2 DEF CredentialsPart, Exists
  <2>. QED  BY <2>1, <2>3 DEF CredentialsPart, Exists, SessionsAreCurrent, Sessions
<1>3. ASSUME NEW i \in Id, OpenSession(r, i) PROVE CredentialsPart'
  <2>. DEFINE c == [id |-> i, user |-> u, kind |-> "session",
                    pw |-> request[r].pw, since |-> users[u].pw]
  <2>1. u \in User /\ request[r].pw \in Password /\ users' = users /\ tickets' = tickets
    BY <1>3 DEF OpenSession, RequestOK
  <2>2. credentials' = credentials \/ (Exists(u) /\ credentials' = credentials \cup {c})
    BY <1>3 DEF OpenSession
  <2>3. ASSUME Exists(u)
        PROVE  c \in Credential /\ c.user = u /\ c.since = users[u].pw
    <3>1. users[u] \in UserRow
      BY <2>1, <2>3 DEF UsersPart, Exists
    <3>. QED  BY <2>1, <3>1 DEF Credential, UserRow
  <2>. HIDE DEF c, u
  <2>. QED  BY <2>1, <2>2, <2>3, <1>r, AddCredential
<1>. QED  BY <1>1, <1>2, <1>3 DEF Login

LEMMA FactorCredentials ==
  ASSUME IInv, NEW r \in Request, Factor(r)
  PROVE  CredentialsPart'
<1>. CredentialsPart
  BY DEF IInv
<1>1. CASE DeletePending(r)
  <2>1. tickets' \subseteq tickets /\ credentials' = credentials /\ users' = users
    BY <1>1 DEF DeletePending
  <2>. QED  BY <2>1, FewerCredentials DEF CredentialsPart, Exists
<1>2. CASE UNCHANGED <<users, credentials, tickets>>
  BY <1>2, CredentialsRest DEF Exists
<1>3. ASSUME \/ \E t \in tickets : VerifyBegins(r, t)
             \/ CodeFails(r) \/ VerifySucceeds(r) \/ Disable(r)
             \/ \E s \in Matching : UseStep(r, s)
             \/ UseRecoveryCode(r) \/ SetSecret(r) \/ Confirm(r)
      PROVE  UNCHANGED <<users, credentials, tickets>>
  BY <1>3 DEF VerifyBegins, CodeFails, VerifySucceeds, Disable, UseStep, UseRecoveryCode, SetSecret, Confirm, tables
<1>. QED  BY <1>1, <1>2, <1>3 DEF Factor

LEMMA AdminCredentials ==
  ASSUME IInv, NEW r \in Request, Admin(r)
  PROVE  CredentialsPart'
<1>. UsersPart /\ CredentialsPart
  BY DEF IInv
<1>1. ASSUME NEW u \in User, NEW role \in Role, NEW pw \in Password, CreateUser(r, u, role, pw)
      PROVE  CredentialsPart'
  <2>1. \A v \in User : Exists(v) => users'[v] = users[v]
    BY <1>1 DEF CreateUser, FreshUser, UsersPart
  <2>. QED  BY <1>1, <2>1, CredentialsRest DEF CreateUser, Exists
<1>2. ASSUME NEW u \in User, NEW role \in Role, UpdateRole(r, u, role) PROVE CredentialsPart'
  <2>1. users[u] \in UserRow
    BY <1>2 DEF UpdateRole, UsersPart, Exists
  <2>2. [role |-> role, pw |-> users[u].pw] \in UserRow
    BY <2>1 DEF UserRow
  <2>3. users' = [users EXCEPT ![u] = [role |-> role, pw |-> users[u].pw]]
    BY <1>2 DEF UpdateRole
  <2>4. \A v \in User : Exists(v) => users'[v] # None /\ users'[v].pw = users[v].pw
    BY <2>2, <2>3 DEF UsersPart, Exists
  <2>. QED  BY <1>2, <2>4, CredentialsRest DEF UpdateRole
<1>3. ASSUME NEW u \in User, DeleteUser(r, u) PROVE CredentialsPart'
  <2>1. /\ users' = [users EXCEPT ![u] = None]
        /\ credentials' = {c \in credentials : c.user # u} /\ tickets' = {t \in tickets : t.user # u}
    BY <1>3 DEF DeleteUser
  <2>2. \A c \in credentials' \cup tickets' : c.user \in User \ {u} /\ Exists(c.user)
    BY <2>1 DEF CredentialsPart, Credential
  <2>3. \A v \in User \ {u} : users'[v] = users[v]
    BY <2>1 DEF UsersPart
  <2>. QED  BY <2>1, <2>2, <2>3, FewerCredentials DEF Exists
<1>4. ASSUME NEW u \in User, Reset2FA(r, u) PROVE CredentialsPart'
  <2>1. credentials' \subseteq credentials /\ tickets' = tickets /\ users' = users
    BY <1>4 DEF Reset2FA, Unrevoked
  <2>. QED  BY <2>1, FewerCredentials DEF CredentialsPart, Exists
<1>5. ASSUME NEW u \in User, NEW pw \in Password, ResetPassword(r, u, pw) PROVE CredentialsPart'
  BY <1>5, PasswordCredentials DEF ResetPassword
<1>. QED  BY <1>1, <1>2, <1>3, <1>4, <1>5 DEF Admin

LEMMA LifecycleCredentials ==
  ASSUME IInv, Lifecycle
  PROVE  CredentialsPart'
<1>. UsersPart /\ CredentialsPart
  BY DEF IInv
<1>1. ASSUME NEW pw \in Password, BootFirst(pw) PROVE CredentialsPart'
  BY <1>1, CredentialsRest DEF BootFirst
<1>2. ASSUME NEW u \in User, NEW pw \in Password, NEW whole \in BOOLEAN, BootReset(u, pw, whole)
      PROVE  CredentialsPart'
  <2>. DEFINE x == [role |-> IF whole THEN "admin" ELSE users[u].role, pw |-> pw]
  <2>1. users[u] \in UserRow /\ Exists(u)
    BY <1>2 DEF BootReset, ResetTarget, UsersPart, Exists
  <2>2. x \in UserRow /\ users' = [users EXCEPT ![u] = x]
    BY <1>2, <2>1 DEF BootReset, UserRow, Role
  <2>. HIDE DEF x
  <2>. QED  BY <1>2, <2>1, <2>2, KeptOK DEF BootReset
<1>3. ASSUME NEW u \in User, Provision(u) PROVE CredentialsPart'
  <2>1. \A v \in User : Exists(v) => users'[v] = users[v]
    BY <1>3 DEF Provision, FreshUser, UsersPart
  <2>. QED  BY <1>3, <2>1, CredentialsRest DEF Provision, Exists
<1>4. ASSUME NEW x \in Sessions \cup tickets, Expire(x) PROVE CredentialsPart'
  <2>1. credentials' \subseteq credentials /\ tickets' \subseteq tickets /\ users' = users
    BY <1>4 DEF Expire
  <2>. QED  BY <2>1, FewerCredentials DEF CredentialsPart, Exists
<1>5. CASE UNCHANGED <<users, credentials, tickets>>
  BY <1>5, CredentialsRest DEF Exists
<1>. QED  BY <1>1, <1>2, <1>3, <1>4, <1>5 DEF Lifecycle, Boot, Stop, Lapse, tables

LEMMA CredentialsOK ==
  ASSUME IInv, [Next]_vars
  PROVE  CredentialsPart'
<1>. UsersPart /\ CredentialsPart
  BY DEF IInv
<1>r. ASSUME UNCHANGED <<users, credentials, tickets>> PROVE CredentialsPart'
  BY <1>r, CredentialsRest DEF Exists
<1>1. ASSUME NEW r \in Request, Account(r) PROVE CredentialsPart'
  <2>1. ASSUME NEW pw \in Password, ChangePassword(r, pw) PROVE CredentialsPart'
    <3>1. request[r].user \in User
      BY <2>1 DEF IInv, RequestsPart, RequestOK, ChangePassword
    <3>. QED  BY <2>1, <3>1, PasswordCredentials DEF ChangePassword
  <2>2. CASE UNCHANGED <<users, credentials, tickets>>
    BY <2>2, <1>r
  <2>. QED  BY <1>1, <2>1, <2>2
            DEF Account, SetupBegins, DisableBegins, ChangeBegins, AdminBegins, Acts, ConfirmBegins, GiveUp, tables
<1>2. CASE Tokens
  <2>. SUFFICES ASSUME NEW c \in Sessions,
                       \/ Logout(c)
                       \/ \E i \in Id : CreateToken(c, i)
                       \/ \E t \in credentials \ Sessions : DeleteToken(c, t)
                PROVE  CredentialsPart'
    BY <1>2 DEF Tokens
  <2>1. CASE Logout(c) \/ \E t \in credentials \ Sessions : DeleteToken(c, t)
    <3>1. credentials' \subseteq credentials /\ tickets' = tickets /\ users' = users
      BY <2>1 DEF Logout, DeleteToken
    <3>. QED  BY <3>1, FewerCredentials DEF CredentialsPart, Exists
  <2>2. ASSUME NEW i \in Id, CreateToken(c, i) PROVE CredentialsPart'
    <3>. DEFINE t == [id |-> i, user |-> c.user, kind |-> "token", pw |-> None, since |-> None]
    <3>1. c.user \in User /\ Exists(c.user)
      BY DEF Sessions, CredentialsPart, Credential
    <3>2. t \in Credential /\ t.user = c.user /\ t.kind = "token"
      BY <3>1 DEF Credential
    <3>3. credentials' = credentials \cup {t} /\ tickets' = tickets /\ users' = users
      BY <2>2 DEF CreateToken
    <3>. HIDE DEF t
    <3>. QED  BY <3>1, <3>2, <3>3, AddCredential
  <2>. QED  BY <2>1, <2>2
<1>3. CASE UNCHANGED vars
  BY <1>3, <1>r DEF vars, tables
<1>. QED  BY <1>1, <1>2, <1>3, LoginCredentials, FactorCredentials, AdminCredentials, LifecycleCredentials
          DEF Next
-----------------------------------------------------------------------------
(* The theorems                                                              *)

LEMMA Inductive == IInv /\ [Next]_vars => IInv'
BY RequestsOK, UsersOK, CredentialsOK, FactorsOK, ThrottleOK DEF IInv

LEMMA Invariance == Spec => []IInv
BY InitOK, Inductive, PTL DEF Spec

(***************************************************************************)
(* Whatever admins ask for at the same time, admins that may not be admins  *)
(* any more by then, and through restarts and resets: as long as there are  *)
(* users there is one who can manage them (requireAnotherAdmin).            *)
(***************************************************************************)
THEOREM AnAdminRemains == Spec => []AdminRemains
<1>1. IInv => AdminRemains
  BY DEF IInv, UsersPart
<1>. QED  BY <1>1, Invariance, PTL

(***************************************************************************)
(* Nothing is left of a deleted user, and no session that was inserted      *)
(* before a password was changed or reset outlives the change, but for      *)
(* those that are meant to: for any users, passwords and requests at once   *)
(* (setPasswordAndRevoke). A login that the change overtook may have        *)
(* verified the old password (SessionsAreCurrent).                          *)
(***************************************************************************)
THEOREM RowsStayCurrent == Spec => []RowsAreCurrent
<1>1. IInv => TypeOK
  <2>1. IInv => request \in [Request -> Asking]
    BY DEF IInv, RequestsPart, RequestOK
  <2>. QED  BY <2>1 DEF IInv, RequestsPart, UsersPart, CredentialsPart, FactorsPart, ThrottlePart,
                        Asking, Throttled, TypeOK
<1>2. IInv => RowsAreCurrent
  BY <1>1 DEF IInv, CredentialsPart, FactorsPart, RowsAreCurrent, RowsHaveUsers
<1>. QED  BY <1>2, Invariance, PTL

(***************************************************************************)
(* No login and no request to turn the factor off is let through with a     *)
(* step that had been accepted for the secret in force, by one of them or   *)
(* by a confirmation, however many bring its code at once (UseStep). That a *)
(* confirmation takes a used one is not excluded: it does.                  *)
(***************************************************************************)
THEOREM CodesCount == Spec => CodesCountOnce
<1>. DEFINE Once == \A r \in Request :
                      /\ request[r].at \in {"verify", "disable"}
                      /\ request'[r].at \in {"proved", "disproved"}
                      => request'[r].step \notin accepted[request[r].user]
<1>1. IInv /\ [Next]_vars => [Once]_vars
  <2>. SUFFICES ASSUME IInv, Next, NEW r \in Request,
                       request[r].at \in {"verify", "disable"},
                       request'[r].at \in {"proved", "disproved"}
                PROVE  request'[r].step \notin accepted[request[r].user]
    OBVIOUS
  <2>. DEFINE u == request[r].user
  <2>1. RequestsPart /\ FactorsPart /\ u \in User /\ request[r].step = 0 /\ request[r] \in Asking
    BY DEF IInv, RequestsPart, RequestOK
  <2>2. accepted[u] \subseteq Nat \ {0} /\ \A s \in accepted[u] : totp[u] # None /\ s <= totp[u].last
    BY <2>1 DEF FactorsPart
  <2>3. ASSUME NEW s \in Matching, UseStep(r, s) PROVE request'[r].step \notin accepted[u]
    <3>1. request'[r].step = s /\ s \in Nat /\ s > totp[u].last /\ totp[u] \in FactorRow
      BY <2>1, <2>3 DEF UseStep, At, Matching, RequestsPart, FactorsPart
    <3>. QED  BY <2>2, <3>1 DEF FactorRow
  <2>4. CASE UseRecoveryCode(r)
    <3>1. request'[r].step = 0
      BY <2>1, <2>4 DEF UseRecoveryCode, Goes, RequestsPart, Asking
    <3>. QED  BY <2>2, <3>1
  <2>5. ASSUME NEW q \in Request, q # r, GoesOn(q) PROVE FALSE
    <3>1. request'[r] = request[r]
      BY <2>1, <2>5 DEF GoesOn, RequestsPart
    <3>. QED  BY <3>1
  <2>6. ASSUME NEW q \in Request, Login(q) \/ Factor(q) \/ Account(q) \/ Admin(q)
        PROVE  GoesOn(q)
    BY <2>6, LoginRequests, FactorRequests, AccountRequests, AdminRequests
  <2>7. ASSUME Ends(r) PROVE FALSE
    BY <2>1, <2>7 DEF Ends, Idle, At, RequestsPart
  <2>8. request[r] # Idle
    BY DEF Idle, At
  <2>9. CASE Login(r)
    BY <2>9, <2>8
    DEF Login, LoginBegins, LoginFails, PasswordRight, AskFactor, LoginSucceeds, GiveTicket, OpenSession
  <2>10. CASE Factor(r)
    <3>1. ASSUME \/ \E t \in tickets : VerifyBegins(r, t)
                 \/ CodeFails(r) \/ VerifySucceeds(r) \/ DeletePending(r) \/ Disable(r)
                 \/ SetSecret(r) \/ Confirm(r)
          PROVE  FALSE
      BY <2>7, <2>8, <3>1 DEF VerifyBegins, CodeFails, VerifySucceeds, DeletePending, Disable, SetSecret, Confirm
    <3>. QED  BY <2>3, <2>4, <2>10, <3>1 DEF Factor
  <2>11. CASE Account(r)
    BY <2>7, <2>8, <2>11
    DEF Account, SetupBegins, DisableBegins, ChangeBegins, AdminBegins, Acts, ConfirmBegins, ChangePassword, GiveUp
  <2>12. CASE Admin(r)
    BY <2>12 DEF Admin, CreateUser, UpdateRole, DeleteUser, Reset2FA, ResetPassword
  <2>13. CASE Lifecycle \/ Tokens
    <3>1. request' = request \/ request' = [q \in Request |-> Idle]
      BY <2>13 DEF Lifecycle, BootFirst, Boot, BootReset, Stop, Lapse, Provision, Expire,
                   Tokens, Logout, CreateToken, DeleteToken
    <3>. QED  BY <3>1 DEF Idle, At
  <2>. QED  BY <2>5, <2>6, <2>9, <2>10, <2>11, <2>12, <2>13 DEF Next
<1>. QED  BY <1>1, Invariance, PTL DEF Spec, CodesCountOnce
-----------------------------------------------------------------------------
(* The lock                                                                  *)

\* Only the first step of a login or of a second factor makes an attempt.
LEMMA AttemptsBegin ==
  ASSUME IInv, [Next]_vars,
         \A r \in Request, u \in User : ~LoginBegins(r, u),
         \A r \in Request, t \in tickets : ~VerifyBegins(r, t)
  PROVE  \A u \in User : Attempting(u)' \subseteq Attempting(u)
<1>. DEFINE Old(q) == request'[q].at \in {"login", "verify"} => request'[q] = request[q]
<1>r. RequestsPart
  BY DEF IInv
<1>1. ASSUME \A q \in Request : Old(q)
      PROVE  \A u \in User : Attempting(u)' \subseteq Attempting(u)
  BY <1>1 DEF Attempting
<1>2. ASSUME NEW r \in Request, NEW x, request' = [request EXCEPT ![r] = x], x.at \notin {"login", "verify"}
      PROVE  \A q \in Request : Old(q)
  BY <1>r, <1>2 DEF RequestsPart
<1>3. ASSUME NEW r \in Request, Ends(r) PROVE \A q \in Request : Old(q)
  BY <1>2, <1>3 DEF Ends, Idle, At
<1>4. ASSUME NEW r \in Request, NEW to \in Places \ {"login", "verify"}, Goes(r, to)
      PROVE  \A q \in Request : Old(q)
  <2>. DEFINE x == [request[r] EXCEPT !.at = to]
  <2>1. request[r] \in Asking
    BY <1>r DEF RequestsPart, RequestOK
  <2>2. request' = [request EXCEPT ![r] = x] /\ x.at \notin {"login", "verify"}
    BY <1>4, <2>1 DEF Goes, Asking
  <2>. HIDE DEF x
  <2>. QED  BY <1>2, <2>2
<1>5. ASSUME NEW r \in Request, Login(r) PROVE \A q \in Request : Old(q)
  <2>1. CASE LoginFails(r) \/ LoginSucceeds(r) \/ \E i \in Id : GiveTicket(r, i)
    BY <1>3, <2>1 DEF LoginFails, LoginSucceeds, GiveTicket
  <2>2. CASE PasswordRight(r)
    BY <1>2, <2>2 DEF PasswordRight, At
  <2>3. CASE AskFactor(r)
    BY <1>4, <2>3 DEF AskFactor, Places
  <2>4. ASSUME NEW i \in Id, OpenSession(r, i) PROVE \A q \in Request : Old(q)
    <3>1. Ends(r) \/ Opened(r)
      BY <2>4 DEF OpenSession
    <3>2. CASE Opened(r)
      BY <1>2, <3>2 DEF Opened, At
    <3>. QED  BY <1>3, <3>1, <3>2
  <2>. QED  BY <1>5, <2>1, <2>2, <2>3, <2>4 DEF Login
<1>6. ASSUME NEW r \in Request, Factor(r) PROVE \A q \in Request : Old(q)
  <2>1. CASE CodeFails(r) \/ Disable(r) \/ SetSecret(r) \/ Confirm(r)
    BY <1>3, <2>1 DEF CodeFails, Disable, SetSecret, Confirm
  <2>2. CASE VerifySucceeds(r)
    BY <1>2, <2>2 DEF VerifySucceeds, At
  <2>3. CASE DeletePending(r)
    BY <1>4, <2>3 DEF DeletePending, Places
  <2>4. ASSUME NEW s \in Matching, UseStep(r, s) PROVE \A q \in Request : Old(q)
    BY <1>2, <2>4 DEF UseStep, At, Proved
  <2>5. CASE UseRecoveryCode(r)
    BY <1>4, <2>5 DEF UseRecoveryCode, Proved, Places
  <2>. QED  BY <1>6, <2>1, <2>2, <2>3, <2>4, <2>5 DEF Factor
<1>7. ASSUME NEW r \in Request, Account(r) PROVE \A q \in Request : Old(q)
  <2>1. ASSUME NEW u, NEW i, NEW as \in {"setup", "disable", "change", "admin"}, Acts(r, u, i, as)
        PROVE  \A q \in Request : Old(q)
    BY <1>2, <2>1 DEF Acts, At
  <2>2. ASSUME NEW u, NEW i,
               SetupBegins(r, u) \/ DisableBegins(r, u) \/ ChangeBegins(r, u, i) \/ AdminBegins(r, u, i)
        PROVE  \A q \in Request : Old(q)
    BY <2>1, <2>2 DEF SetupBegins, DisableBegins, ChangeBegins, AdminBegins
  <2>3. ASSUME NEW u, NEW s, ConfirmBegins(r, u, s) PROVE \A q \in Request : Old(q)
    BY <1>2, <2>3 DEF ConfirmBegins, At
  <2>4. CASE (\E pw \in Password : ChangePassword(r, pw)) \/ GiveUp(r)
    BY <1>3, <2>4 DEF ChangePassword, GiveUp
  <2>. QED  BY <1>7, <2>2, <2>3, <2>4 DEF Account
<1>8. ASSUME NEW r \in Request, Admin(r) PROVE \A q \in Request : Old(q)
  BY <1>3, <1>8 DEF Admin, CreateUser, UpdateRole, DeleteUser, Reset2FA, ResetPassword
<1>9. CASE Lifecycle \/ Tokens \/ UNCHANGED vars
  <2>1. request' = request \/ request' = [q \in Request |-> Idle]
    BY <1>9 DEF Lifecycle, BootFirst, Boot, BootReset, Stop, Lapse, Provision, Expire,
                Tokens, Logout, CreateToken, DeleteToken, vars
  <2>2. \A q \in Request : Old(q)
    BY <2>1 DEF Idle, At
  <2>. QED  BY <1>1, <2>2
<1>. QED  BY <1>1, <1>5, <1>6, <1>7, <1>8, <1>9 DEF Next

\* Cleaning up locks and unlocks nobody.
LEMMA CleanedLocked ==
  ASSUME NEW a \in [User -> Throttled], NEW old \in SUBSET User, NEW u \in User
  PROVE  Cleaned(a, old)[u].locked = a[u].locked
BY DEF Cleaned, NoAttempts, Throttled

\* The cases of a lock: nothing happens to it, it does not hold, or an attempt
\* that had passed it fails.
LEMMA LockCases ==
  ASSUME IsFiniteSet(Request), LockHolds, NEW u \in User,
         late[u] \in Nat, late'[u] \in Nat, Locked(u)' \in BOOLEAN,
         Attempting(u)' \subseteq Attempting(u),
         \/ late'[u] = late[u] /\ (Locked(u)' => Locked(u))
         \/ ~Locked(u)'
         \/ \E r \in Attempting(u) \ Attempting(u)' :
              late'[u] = IF Locked(u) THEN late[u] + 1 ELSE 0
  PROVE  Locked(u)' => late'[u] + Cardinality(Attempting(u)') < Cardinality(Request)
<1>. DEFINE A == Attempting(u)
            B == Attempting(u)'
<1>1. A \in SUBSET Request /\ B \in SUBSET A
  BY DEF Attempting
<1>2. /\ IsFiniteSet(A) /\ Cardinality(A) \in Nat /\ Cardinality(Request) \in Nat
      /\ IsFiniteSet(B) /\ Cardinality(B) \in Nat
      /\ Cardinality(B) <= Cardinality(A) /\ Cardinality(A) <= Cardinality(Request)
  BY <1>1, FS_Subset, FS_CardinalityType
<1>3. CASE Locked(u) /\ late'[u] = late[u]
  BY <1>2, <1>3 DEF LockHolds
<1>4. ASSUME NEW r \in A \ B PROVE Cardinality(B) <= Cardinality(A) - 1
  <2>1. IsFiniteSet(A \ {r}) /\ Cardinality(A \ {r}) = Cardinality(A) - 1
    BY <1>2, <1>4, FS_RemoveElement
  <2>2. B \in SUBSET (A \ {r})
    BY <1>1, <1>4
  <2>. QED  BY <2>1, <2>2, FS_Subset
<1>5. ASSUME NEW r \in A \ B, late'[u] = IF Locked(u) THEN late[u] + 1 ELSE 0
      PROVE  late'[u] + Cardinality(B) < Cardinality(Request)
  BY <1>2, <1>4, <1>5 DEF LockHolds
<1>. HIDE DEF A, B
<1>. QED  BY <1>3, <1>5 DEF A, B

LEMMA FailureLocks ==
  ASSUME IInv, IsFiniteSet(Request), LockHolds, NEW r \in Request,
         request[r].at \in {"login", "verify"}, RecordFailure(request[r].user), Ends(r),
         \A u \in User : Attempting(u)' \subseteq Attempting(u)
  PROVE  LockHolds'
<1>1. /\ request[r].user \in User /\ ThrottlePart /\ ThrottlePart'
      /\ request' = [request EXCEPT ![r] = Idle]
  BY RecordFailureOK DEF IInv, RequestsPart, RequestOK, Ends
<1>2. PICK v \in User : v = request[r].user
  BY <1>1
<1>. DEFINE n == attempts[v].failures + 1
            x == IF n >= Threshold THEN [failures |-> 0, locked |-> TRUE]
                 ELSE [failures |-> n, locked |-> attempts[v].locked]
            counted == [attempts EXCEPT ![v] = x]
<1>3. counted \in [User -> Throttled] /\ \A u \in User \ {v} : counted[u] = attempts[u]
  <2>1. attempts[v].failures \in 0 .. Threshold - 1 /\ attempts[v].locked \in BOOLEAN
    BY <1>1 DEF ThrottlePart, Throttled
  <2>2. x \in Throttled
    BY <2>1 DEF Throttled
  <2>. HIDE DEF x
  <2>. QED  BY <1>1, <2>2 DEF ThrottlePart
<1>4. /\ \E old \in SUBSET (User \ {v}) : attempts' = Cleaned(counted, old)
      /\ late' = [late EXCEPT ![v] = IF Locked(v) THEN late[v] + 1 ELSE 0]
  BY <1>2 DEF RecordFailure
<1>. HIDE DEF counted
<1>5. \A u \in User \ {v} : attempts'[u].locked = attempts[u].locked /\ late'[u] = late[u]
  BY <1>1, <1>3, <1>4, CleanedLocked DEF ThrottlePart
<1>6. r \in Attempting(v) \ Attempting(v)'
  <2>1. request'[r] = Idle
    BY <1>1 DEF IInv, RequestsPart
  <2>. QED  BY <1>2, <2>1 DEF Attempting, Idle, At
<1>7. late'[v] = IF Locked(v) THEN late[v] + 1 ELSE 0
  BY <1>1, <1>4 DEF ThrottlePart
<1>8. \A u \in User : late[u] \in Nat /\ late'[u] \in Nat /\ Locked(u)' \in BOOLEAN
  BY <1>1 DEF ThrottlePart, Throttled, Locked
<1>9. ASSUME NEW u \in User
      PROVE  Locked(u)' => late'[u] + Cardinality(Attempting(u)') < Cardinality(Request)
  <2>1. CASE u = v
    <3>1. Attempting(u)' \subseteq Attempting(u)
      OBVIOUS
    <3>2. late[u] \in Nat /\ late'[u] \in Nat /\ Locked(u)' \in BOOLEAN
      BY <1>8
    <3>3. r \in Attempting(u) \ Attempting(u)' /\ late'[u] = IF Locked(u) THEN late[u] + 1 ELSE 0
      BY <2>1, <1>6, <1>7
    <3>4. \E q \in Attempting(u) \ Attempting(u)' : late'[u] = IF Locked(u) THEN late[u] + 1 ELSE 0
      BY <3>3
    <3>. QED  BY <3>1, <3>2, <3>4, LockCases
  <2>2. CASE u # v
    <3>1. late'[u] = late[u] /\ (Locked(u)' => Locked(u))
      BY <2>2, <1>5 DEF Locked
    <3>. QED  BY <3>1, <1>8, LockCases
  <2>. QED  BY <2>1, <2>2
<1>. QED  BY <1>9 DEF LockHolds

\* What unlocks users, or leaves them as they are, and makes no attempt.
LEMMA QuietLocks ==
  ASSUME IInv, IInv', IsFiniteSet(Request), LockHolds,
         \A u \in User : Attempting(u)' \subseteq Attempting(u),
         \A u \in User : ~Locked(u)' \/ (late'[u] = late[u] /\ (Locked(u)' => Locked(u)))
  PROVE  LockHolds'
<1>1. ThrottlePart /\ ThrottlePart'
  BY DEF IInv
<1>2. \A u \in User : late[u] \in Nat /\ late'[u] \in Nat /\ Locked(u)' \in BOOLEAN
  BY <1>1 DEF ThrottlePart, Throttled, Locked
<1>3. ASSUME NEW u \in User
      PROVE  Locked(u)' => late'[u] + Cardinality(Attempting(u)') < Cardinality(Request)
  BY <1>2, LockCases
<1>. QED  BY <1>3 DEF LockHolds

\* An attempt begins for a user that is not locked.
LEMMA BeginLocks ==
  ASSUME IInv, IInv', IsFiniteSet(Request), LockHolds,
         NEW r \in Request, NEW v \in User, ~Locked(v), UNCHANGED throttle,
         NEW x, x.user = v, request' = [request EXCEPT ![r] = x]
  PROVE  LockHolds'
<1>1. RequestsPart /\ ThrottlePart /\ ThrottlePart'
  BY DEF IInv
<1>2. ASSUME NEW u \in User, Locked(u)'
      PROVE  late'[u] + Cardinality(Attempting(u)') < Cardinality(Request)
  <2>1. u # v /\ Locked(u) /\ late'[u] = late[u]
    BY <1>2 DEF throttle, Locked
  <2>2. Attempting(u)' \subseteq Attempting(u)
    BY <1>1, <2>1 DEF Attempting, RequestsPart
  <2>3. late[u] \in Nat /\ late'[u] \in Nat /\ Locked(u)' \in BOOLEAN
    BY <1>1 DEF ThrottlePart, Throttled, Locked
  <2>. QED  BY <1>2, <2>1, <2>2, <2>3, LockCases
<1>. QED  BY <1>2 DEF LockHolds

LEMMA LockOK ==
  ASSUME IInv, IInv', IsFiniteSet(Request), LockHolds, [Next]_vars
  PROVE  LockHolds'
<1>1. ThrottlePart /\ RequestsPart /\ CredentialsPart
  BY DEF IInv
<1>2. ASSUME NEW r \in Request, NEW u \in User, LoginBegins(r, u) PROVE LockHolds'
  <2>. DEFINE x == At("login", u, None, None, 0)
  <2>1. x.user = u /\ request' = [request EXCEPT ![r] = x] /\ ~Locked(u) /\ UNCHANGED throttle
    BY <1>2 DEF LoginBegins, At
  <2>. HIDE DEF x
  <2>. QED  BY <2>1, BeginLocks
<1>3. ASSUME NEW r \in Request, NEW t \in tickets, VerifyBegins(r, t) PROVE LockHolds'
  <2>. DEFINE x == At("verify", t.user, t.id, t.pw, 0)
  <2>1. x.user = t.user /\ request' = [request EXCEPT ![r] = x] /\ ~Locked(t.user) /\ UNCHANGED throttle
    BY <1>3 DEF VerifyBegins, At
  <2>2. t.user \in User
    BY <1>1 DEF CredentialsPart
  <2>. HIDE DEF x
  <2>. QED  BY <2>1, <2>2, BeginLocks
<1>. SUFFICES ASSUME \A r \in Request, u \in User : ~LoginBegins(r, u),
                     \A r \in Request, t \in tickets : ~VerifyBegins(r, t)
              PROVE  LockHolds'
  BY <1>2, <1>3
<1>4. \A u \in User : Attempting(u)' \subseteq Attempting(u)
  BY AttemptsBegin
<1>5. CASE UNCHANGED throttle
  <2>1. \A u \in User : late'[u] = late[u] /\ (Locked(u)' => Locked(u))
    BY <1>5 DEF throttle, Locked
  <2>. QED  BY <1>4, <2>1, QuietLocks
<1>6. ASSUME NEW r \in Request, Login(r) PROVE LockHolds'
  <2>1. CASE LoginFails(r)
    <3>1. request[r].at \in {"login", "verify"} /\ RecordFailure(request[r].user) /\ Ends(r)
      BY <2>1 DEF LoginFails
    <3>. QED  BY <1>4, <3>1, FailureLocks
  <2>2. CASE LoginSucceeds(r)
    <3>1. request[r].at = "opened"
      BY <2>2 DEF LoginSucceeds
    <3>2. PICK v \in User : v = request[r].user
      BY <1>1, <3>1 DEF RequestsPart, RequestOK
    <3>. DEFINE cleared == [attempts EXCEPT ![v] = NoAttempts]
    <3>3. PICK old \in SUBSET (User \ {v}) : attempts' = Cleaned(cleared, old)
      BY <2>2, <3>2 DEF LoginSucceeds
    <3>4. late' = [late EXCEPT ![v] = 0]
      BY <2>2, <3>2 DEF LoginSucceeds
    <3>5. /\ cleared \in [User -> Throttled] /\ cleared[v].locked = FALSE
          /\ \A u \in User \ {v} : cleared[u] = attempts[u]
      BY <1>1 DEF ThrottlePart, Throttled, NoAttempts
    <3>. HIDE DEF cleared
    <3>6. \A u \in User : attempts'[u].locked = cleared[u].locked
      BY <3>3, <3>5, CleanedLocked
    <3>7. \A u \in User : ~Locked(u)' \/ (late'[u] = late[u] /\ (Locked(u)' => Locked(u)))
      BY <1>1, <3>4, <3>5, <3>6 DEF Locked, ThrottlePart
    <3>. QED  BY <1>4, <3>7, QuietLocks
  <2>3. CASE UNCHANGED throttle
    BY <1>5, <2>3
  <2>. QED  BY <1>6, <2>1, <2>2, <2>3
       DEF Login, LoginBegins, PasswordRight, AskFactor, GiveTicket, OpenSession
<1>7. ASSUME NEW r \in Request, Factor(r) PROVE LockHolds'
  <2>1. CASE CodeFails(r) /\ request[r].at = "verify"
    <3>1. request[r].at \in {"login", "verify"} /\ RecordFailure(request[r].user) /\ Ends(r)
      BY <2>1 DEF CodeFails
    <3>. QED  BY <1>4, <3>1, FailureLocks
  <2>2. CASE VerifySucceeds(r)
    <3>1. request[r].at = "proved"
      BY <2>2 DEF VerifySucceeds
    <3>2. PICK v \in User : v = request[r].user
      BY <1>1, <3>1 DEF RequestsPart, RequestOK
    <3>3. attempts' = [attempts EXCEPT ![v] = NoAttempts] /\ late' = [late EXCEPT ![v] = 0]
      BY <2>2, <3>2 DEF VerifySucceeds, RecordSuccess
    <3>4. \A u \in User : ~Locked(u)' \/ (late'[u] = late[u] /\ (Locked(u)' => Locked(u)))
      BY <1>1, <3>3 DEF Locked, ThrottlePart, NoAttempts
    <3>. QED  BY <1>4, <3>4, QuietLocks
  <2>3. CASE UNCHANGED throttle
    BY <1>5, <2>3
  <2>. QED  BY <1>7, <2>1, <2>2, <2>3
       DEF Factor, CodeFails, VerifyBegins, DeletePending, Disable, UseStep, UseRecoveryCode, SetSecret, Confirm
<1>8. ASSUME NEW r \in Request, Account(r) PROVE LockHolds'
  BY <1>5, <1>8 DEF Account, SetupBegins, DisableBegins, ChangeBegins, AdminBegins, Acts,
                    ConfirmBegins, ChangePassword, GiveUp
<1>9. ASSUME NEW r \in Request, Admin(r) PROVE LockHolds'
  BY <1>5, <1>9 DEF Admin, CreateUser, UpdateRole, DeleteUser, Reset2FA, ResetPassword
<1>10. CASE Tokens \/ UNCHANGED vars
  BY <1>5, <1>10 DEF Tokens, Logout, CreateToken, DeleteToken, vars
<1>11. CASE Lifecycle
  <2>1. CASE Stop
    <3>1. \A u \in User : ~Locked(u)'
      BY <2>1 DEF Stop, Locked, NoAttempts
    <3>. QED  BY <1>4, <3>1, QuietLocks
  <2>2. ASSUME NEW v \in User, Lapse(v) PROVE LockHolds'
    <3>1. \A u \in User : ~Locked(u)' \/ (late'[u] = late[u] /\ (Locked(u)' => Locked(u)))
      BY <1>1, <2>2 DEF Lapse, Locked, ThrottlePart
    <3>. QED  BY <1>4, <3>1, QuietLocks
  <2>3. CASE UNCHANGED throttle
    BY <1>5, <2>3
  <2>. QED  BY <1>11, <2>1, <2>2, <2>3 DEF Lifecycle, BootFirst, Boot, BootReset, Provision, Expire
<1>. QED  BY <1>5, <1>6, <1>7, <1>8, <1>9, <1>10, <1>11 DEF Next

\* A locked user's lock holds, whoever sends passwords and codes at once, for
\* any finite number of requests (allow, recordFailure, recordSuccess).
THEOREM LocksHold == ASSUME IsFiniteSet(Request) PROVE Spec => []LockHolds
<1>1. Init => LockHolds
  BY DEF Init, LockHolds, Locked, NoAttempts
<1>2. IInv /\ IInv' /\ LockHolds /\ [Next]_vars => LockHolds'
  BY LockOK
<1>. QED  BY <1>1, <1>2, Invariance, PTL DEF Spec
=============================================================================

-------------------------------- MODULE Gates --------------------------------
(***************************************************************************)
(* Who gets through to which handler: the middlewares of the route groups   *)
(* of internal/web/server.go (auth.go, proxy_auth.go, csrf.go, authz.go)    *)
(* and the checks of agentReport, composed as New composes them.            *)
(*                                                                          *)
(* A middleware takes what the ones before it found out and either stops    *)
(* the request with a status or adds to it. Authentication is always on     *)
(* (main.go). Bodies, and the routes inside a group, are left out.          *)
(***************************************************************************)
CONSTANTS
  Nobody,    \* no user, or no token
  Stranger,  \* a name without an account, and none is provisioned
  Token      \* the CSRF tokens in play

Role == {"admin", "editor", "viewer"}
Scope == {"read-only", "read-write", "agent"}
\* The methods there are routes for; PUT and DELETE are as POST.
Method == {"GET", "POST"}
\* The route groups, the catalog's and the admin's pages apart; and of the
\* catalog's group the definitions of custom fields, for which the documents
\* have a rule of their own.
Group == {"public", "login", "account", "admin", "catalog", "definitions", "api", "report"}

CanWrite(role) == role \in {"admin", "editor"}

(* A request: the role of the user that the session cookie stands for, the   *)
(* role of the user that the proxy's header names (found or provisioned) and *)
(* whether the peer is on the allowlist, the role of the owner and the scope *)
(* of a bearer token (an unknown or expired one has neither), the CSRF       *)
(* cookie and form field, and whether the database answers. The report's     *)
(* only route is a POST.                                                     *)
Bearer == {[sent |-> FALSE, owner |-> Nobody, scope |-> Nobody]}
          \cup [sent : {TRUE}, owner : {Nobody}, scope : {Nobody}]
          \cup [sent : {TRUE}, owner : Role, scope : Scope]
Request ==
  {q \in [group : Group, method : Method, session : Role \cup {Nobody}, cookie : BOOLEAN,
          header : Role \cup {Nobody, Stranger}, trusted : BOOLEAN, bearer : Bearer,
          csrfCookie : Token \cup {Nobody}, csrfField : Token \cup {Nobody}, answers : BOOLEAN] :
     /\ q.session # Nobody => q.cookie
     /\ q.group = "report" => q.method = "POST"}

Passing == [status |-> "on", user |-> Nobody, scope |-> Nobody]
Stop(c, status) == [c EXCEPT !.status = status]
AsUser(c, role) == [c EXCEPT !.user = role]

\* The allowlist is asked before the header is looked at. A name without an
\* account falls through to the session.
ProxyAuth(q, c) ==
  IF ~q.trusted \/ q.header = Nobody THEN c
  ELSE IF ~q.answers THEN Stop(c, "error")
  ELSE IF q.header = Stranger THEN c
  ELSE AsUser(c, q.header)

SessionAuth(q, c) ==
  IF c.status # "on" \/ c.user # Nobody THEN c
  ELSE IF q.cookie /\ ~q.answers THEN Stop(c, "error")
  ELSE IF q.cookie /\ q.session # Nobody THEN AsUser(c, q.session)
  ELSE Stop(c, "unauthorized")

\* A safe request without a cookie is given one.
CsrfProtect(q, c) ==
  IF c.status # "on" \/ q.method = "GET" THEN c
  ELSE IF q.csrfField # Nobody /\ q.csrfField = q.csrfCookie THEN c
  ELSE Stop(c, "forbidden")

IsSafeMethod(q) == q.method = "GET"

\* Faulty: the scope of the token is not asked.
EffectiveByRole(c) == CanWrite(c.user)

EffectiveCanWrite(c) == CanWrite(c.user) /\ c.scope \in {Nobody, "read-write"}

RequireWrite(q, c) ==
  IF c.status = "on" /\ ~IsSafeMethod(q) /\ ~EffectiveCanWrite(c) THEN Stop(c, "forbidden") ELSE c

RequireAdmin(c) ==
  IF c.status = "on" /\ c.user # "admin" THEN Stop(c, "forbidden") ELSE c

\* A token that is unknown does not fall back to the session.
ApiAuth(q, c) ==
  IF q.bearer.sent
  THEN IF ~q.answers THEN Stop(c, "error")
       ELSE IF q.bearer.owner = Nobody THEN Stop(c, "unauthorized")
       ELSE [c EXCEPT !.user = q.bearer.owner, !.scope = q.bearer.scope]
  ELSE IF ~IsSafeMethod(q) THEN Stop(c, "unauthorized")
  ELSE SessionAuth(q, c)

RejectAgentScope(c) ==
  IF c.status = "on" /\ c.scope = "agent" THEN Stop(c, "forbidden") ELSE c

\* The checks agentReport makes itself.
AgentReport(c) ==
  IF c.status = "on" /\ (c.scope # "agent" \/ ~CanWrite(c.user)) THEN Stop(c, "forbidden") ELSE c

\* The groups of New.
Handle(q) ==
  LET signedIn == CsrfProtect(q, SessionAuth(q, ProxyAuth(q, Passing)))
      api == ApiAuth(q, Passing)
  IN CASE q.group = "public"  -> Passing
       [] q.group = "login"   -> CsrfProtect(q, Passing)
       [] q.group = "account" -> signedIn
       [] q.group = "admin"   -> RequireAdmin(signedIn)
       [] q.group \in {"catalog", "definitions"} -> RequireWrite(q, signedIn)
       [] q.group = "api"     -> RequireWrite(q, RejectAgentScope(api))
       [] q.group = "report"  -> AgentReport(api)

Reaches(q) == Handle(q).status = "on"
-----------------------------------------------------------------------------
\* docs/authentication.md and docs/api.md: who somebody is.
Somebody(q) ==
  IF q.group \in {"api", "report"} /\ q.bearer.sent THEN q.bearer.owner
  ELSE IF q.group \notin {"api", "report"} /\ q.trusted /\ q.header \in Role THEN q.header
  ELSE IF q.cookie THEN q.session ELSE Nobody

Changes(q) == q.method = "POST"

\* What the documents grant to a request whose credentials can be looked up.
Granted(q) ==
  LET who == Somebody(q)
      meant == q.csrfField # Nobody /\ q.csrfField = q.csrfCookie
  IN \/ q.group = "public"
     \/ q.group = "login" /\ (Changes(q) => meant)
     \/ q.group = "account" /\ who # Nobody /\ (Changes(q) => meant)
     \/ q.group = "admin" /\ who = "admin" /\ (Changes(q) => meant)
     \/ q.group = "definitions" /\ who # Nobody /\ (Changes(q) => meant /\ who = "admin")
     \/ q.group = "catalog" /\ who # Nobody /\ (Changes(q) => meant /\ who # "viewer")
     \/ q.group = "api" /\ who # Nobody /\ q.bearer.scope # "agent"
        /\ (Changes(q) => q.bearer.scope = "read-write" /\ who # "viewer")
     \/ q.group = "report" /\ q.bearer.scope = "agent" /\ who \in {"admin", "editor"}

\* And what the code grants beyond them: editors define, relabel and delete
\* custom fields (server.go:818-821), which docs/authentication.md:14 and
\* docs/inventory-model.md:104 give to admins.
EditorDefines(q) ==
  /\ q.group = "definitions" /\ Changes(q) /\ Somebody(q) = "editor"
  /\ q.csrfField # Nobody /\ q.csrfField = q.csrfCookie

(***************************************************************************)
(* The chain of every group lets exactly those requests through that the    *)
(* documents grant, and an editor's changes of custom fields' definitions:  *)
(* every signed-in user reads everything, viewers write nothing, a token    *)
(* writes what both its scope and its owner's role allow, a session alone   *)
(* writes nothing over the API, agent tokens only report, and a change from *)
(* a browser carries the token of its own page.                             *)
(***************************************************************************)
GatesMatchPolicy(q) ==
  q.answers => (Reaches(q) <=> Granted(q) \/ EditorDefines(q))

\* A credential that the request's group looks up.
Presents(q) ==
  IF q.group \in {"api", "report"} THEN q.bearer.sent \/ (q.cookie /\ IsSafeMethod(q))
  ELSE q.cookie \/ (q.trusted /\ q.header # Nobody)

(***************************************************************************)
(* When the credentials of a request cannot be looked up, the request ends  *)
(* with an error: it neither goes on nor is it taken for an anonymous one   *)
(* ("a genuine backend failure is a 500, never a silent 401", apiAuth).     *)
(***************************************************************************)
FailuresAreErrors(q) ==
  ~q.answers /\ q.group \notin {"public", "login"} =>
    Handle(q).status = (IF Presents(q) THEN "error" ELSE "unauthorized")

(***************************************************************************)
(* Every chain of middlewares lets through what the documents grant and, of  *)
(* the definitions of custom fields, what they do not (EditorDefines), and   *)
(* stands when a lookup fails.                                               *)
(***************************************************************************)
GatesHold(q) == GatesMatchPolicy(q) /\ FailuresAreErrors(q)
=============================================================================

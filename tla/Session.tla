------------------------------ MODULE Session ------------------------------
(***************************************************************************)
(* Sessions: how a user's right to connect to a workspace becomes a signed *)
(* cookie of the auth middleware, and how long the cookie outlives the     *)
(* right.  One user, one workspace, one browser.                           *)
(*                                                                         *)
(* A request is a sequence of steps, one for each call it waits for, and   *)
(* several requests of the browser are under way at once.  Their answers   *)
(* arrive in any order and overwrite each other's cookie.  The extension   *)
(* API asks Kubernetes for the user's RBAC permission and then looks the   *)
(* Workspace up in an informer, so that the two halves of a review are     *)
(* taken at different moments and the second one may be old.               *)
(*                                                                         *)
(* A verification that needs no refresh changes nothing and is not an      *)
(* action; what it would answer is Accepted(cookie).  Paths and domains    *)
(* are those of the one workspace.                                         *)
(***************************************************************************)
EXTENDS Integers

CONSTANTS
  Requests,   \* the requests that can be under way at the same time
  Workspaces, \* what the Workspace can be
  TTL,        \* JWTExpiration of the auth middleware
  Window,     \* JWTRefreshWindow
  Horizon,    \* JWTRefreshHorizon
  BootTTL,    \* expiration of the extension API's bootstrap tokens
  Leeway,     \* clock leeway of ValidateToken
  Limit,      \* WriteTimeout of the servers: later answers are lost
  Lag,        \* bound on how far the Workspace informer is behind
  MaxTime,    \* bound on time
  MaxBegun,   \* bound on requests altogether
  MaxChanges, \* bound on changes of permissions and of the Workspace
  MaxErrors   \* bound on failed reviews

ASSUME SessionAssumption ==
  /\ "own" \in Workspaces /\ Workspaces \subseteq {"absent", "Public", "own", "other"}
  /\ TTL \in Nat \ {0} /\ Window \in Nat /\ Horizon \in Nat
  /\ Window <= TTL /\ TTL <= Horizon
  /\ BootTTL \in Nat \ {0} /\ Leeway \in Nat /\ Limit \in Nat /\ Lag \in Nat
  /\ MaxTime \in Nat /\ MaxBegun \in Nat /\ MaxChanges \in Nat /\ MaxErrors \in Nat

VARIABLES
  now,
  rbac,        \* the user may create workspaceconnections
  wksp,        \* the Workspace, as far as access to it goes
  wcache,      \* the extension API's informer copy of it
  behind,      \* when the copy became outdated
  cookie, url, \* what the browser has: session cookie, bearer URL
  req,         \* the requests
  changes, errors, begun,
  rbacEnd, wkspEnd, \* history: when RBAC and access to the Workspace last ended
  regained     \* history: when access was last regained

accessVars == <<rbac, wksp, behind, changes, rbacEnd, wkspEnd, regained>>
vars == <<now, rbac, wksp, wcache, behind, cookie, url, req, changes, errors, begun,
          rbacEnd, wkspEnd, regained>>

-----------------------------------------------------------------------------
(* Tokens *)

\* login is history: when the user logged in for the session of the token.
NoClaims == [type |-> "none", iat |-> 0, exp |-> 0, skip |-> FALSE, login |-> 0]
Token(type, iat, life, skip, login) ==
  [type |-> type, iat |-> iat, exp |-> now + life, skip |-> skip, login |-> login]

\* The first token of a session.
GenerateToken == Token("session", now, TTL, FALSE, now)

\* The last token of a session that cannot be re-authorised.
UpdateSkipRefreshToken(claims) == Token("session", now, TTL, TRUE, claims.login)

ValidateToken(claims) == claims.type # "none" /\ now < claims.exp + Leeway

\* What /verify answers without looking any further.
Accepted(claims) == claims.type = "session" /\ ValidateToken(claims)

ShouldRefreshToken(claims) ==
  ~claims.skip /\ claims.exp > now /\ claims.exp - now <= Window

\* A refreshed token keeps the time of the login.
GenerateRefreshToken(claims) == Token("session", claims.iat, TTL, FALSE, claims.login)

\* Variant: a token is refreshed at the horizon too.
UpToHorizon(claims) == now - claims.iat <= Horizon

\* The horizon of RefreshToken.
WithinHorizon(claims) == now - claims.iat < Horizon

-----------------------------------------------------------------------------
(* The right to connect *)

\* A private Workspace is the user's own or another one's; an access type that
\* is not set is Public.
Accessible(w) == w \in {"Public", "own"}
Access == rbac /\ Accessible(wksp)

Changed(r, w) ==
  /\ changes < MaxChanges /\ changes' = changes + 1
  /\ rbac' = r /\ wksp' = w
  /\ behind' = IF wcache = w THEN 0 ELSE IF wcache = wksp THEN now ELSE behind
  /\ rbacEnd' = IF rbac /\ ~r THEN now ELSE rbacEnd
  /\ wkspEnd' = IF Accessible(wksp) /\ ~Accessible(w) THEN now ELSE wkspEnd
  /\ regained' = IF ~Access /\ r /\ Accessible(w) THEN now ELSE regained
  /\ UNCHANGED <<now, wcache, cookie, url, req, errors, begun>>

SetRBAC == Changed(~rbac, wksp)
SetWorkspace == \E w \in Workspaces \ {wksp} : Changed(rbac, w)

WorkspaceEvent ==
  /\ wcache # wksp /\ wcache' = wksp /\ behind' = 0
  /\ UNCHANGED <<now, rbac, wksp, changes, rbacEnd, wkspEnd, regained, cookie, url, req, errors, begun>>

-----------------------------------------------------------------------------
(* Requests *)

Idle == [kind |-> "none", pc |-> "idle", start |-> 0, claims |-> NoClaims,
         result |-> "none"]

\* The review of request r ends.  Only /verify has something to do with the browser
\* when access is not allowed; the other requests are refused.
Reviewed(r, result) ==
  /\ req' = [req EXCEPT ![r] = IF result = "allowed" \/ @.kind = "verify"
                               THEN [@ EXCEPT !.pc = "answer", !.result = result]
                               ELSE Idle]
  /\ UNCHANGED <<now, accessVars, wcache, cookie, url, begun>>

Begin(r, kind, pc, claims) ==
  /\ req[r].pc = "idle" /\ begun < MaxBegun /\ begun' = begun + 1
  /\ req' = [req EXCEPT ![r] = [kind |-> kind, pc |-> pc, start |-> now,
                                claims |-> claims, result |-> "none"]]
  /\ UNCHANGED <<now, accessVars, wcache, cookie, url, errors>>

\* /auth, once the OIDC token and the headers are in order.
BeginAuth(r) == Begin(r, "auth", "rbac", NoClaims)

\* A WorkspaceConnection is created; Kubernetes checks RBAC before it hands the
\* request to the extension API.
BeginConnect(r) == Begin(r, "connect", "rbac", NoClaims)

\* /bearer-auth with the bearer URL.
BeginBearerAuth(r) == url.type = "bootstrap" /\ Begin(r, "bearer", "review", url)

\* /verify with a cookie that is due for a refresh.
BeginVerify(r) ==
  /\ Accepted(cookie) /\ ShouldRefreshToken(cookie)
  /\ Begin(r, "verify", "rbac", cookie)

\* Variant: the expiry of a bearer URL is not looked at.
BearerTokenOnce(r) ==
  /\ req[r].pc = "review" /\ Reviewed(r, "allowed")
  /\ UNCHANGED errors

\* BearerTokenReview: the token is looked at, not the user's permissions.
BearerTokenReview(r) ==
  /\ req[r].pc = "review"
  /\ Reviewed(r, IF ValidateToken(req[r].claims) THEN "allowed" ELSE "denied")
  /\ UNCHANGED errors

CheckRBACPermission(r) ==
  /\ req[r].pc = "rbac" /\ UNCHANGED errors
  /\ \/ /\ rbac /\ req' = [req EXCEPT ![r].pc = "workspace"]
        /\ UNCHANGED <<now, accessVars, wcache, cookie, url, begun>>
     \/ ~rbac /\ Reviewed(r, "denied")

CheckWorkspaceAccess(r) ==
  /\ req[r].pc = "workspace"
  /\ Reviewed(r, IF Accessible(wcache) THEN "allowed" ELSE "denied")
  /\ UNCHANGED errors

\* A review that ends in an error.
ReviewFails(r) ==
  /\ req[r].pc \in {"review", "rbac", "workspace"}
  /\ errors < MaxErrors /\ errors' = errors + 1
  /\ Reviewed(r, "error")

\* The answer to request r carries a token, or removes the cookie (NoClaims).
Answer(r, claims) ==
  /\ req' = [req EXCEPT ![r].pc = "deliver", ![r].claims = claims,
                          ![r].result = "none"]
  /\ UNCHANGED <<now, accessVars, wcache, cookie, url, errors, begun>>

\* /auth is granted.
AuthGranted(r) ==
  /\ req[r].pc = "answer" /\ req[r].kind = "auth"
  /\ Answer(r, GenerateToken)

\* /bearer-auth is granted: nobody looks at the user's permissions again.
BearerAuthGranted(r) ==
  /\ req[r].pc = "answer" /\ req[r].kind = "bearer"
  /\ Answer(r, GenerateToken)

GenerateBearerTokenURL(r) ==
  /\ req[r].pc = "answer" /\ req[r].kind = "connect"
  /\ Answer(r, Token("bootstrap", now, BootTTL, TRUE, now))

\* "UNHAPPY CASE 1: we can't check authZ for some reason, stop attempting to refresh"
VerifyUnchecked(r) ==
  /\ req[r].pc = "answer" /\ req[r].kind = "verify" /\ req[r].result = "error"
  /\ Answer(r, UpdateSkipRefreshToken(req[r].claims))

\* Variant: an error counts as a denial.
VerifyNotAllowed(r) ==
  /\ req[r].pc = "answer" /\ req[r].kind = "verify" /\ req[r].result # "allowed"
  /\ Answer(r, NoClaims)

\* "UNHAPPY CASE 2: user is no longer allowed, return 403"
VerifyDenied(r) ==
  /\ req[r].pc = "answer" /\ req[r].kind = "verify" /\ req[r].result = "denied"
  /\ Answer(r, NoClaims)

\* "HAPPY CASE: user is allowed, refresh their cookie".  Beyond the horizon the
\* cookie is left alone, and the request ends by Finish.
VerifyRefreshed(r) ==
  /\ req[r].pc = "answer" /\ req[r].kind = "verify" /\ req[r].result = "allowed"
  /\ WithinHorizon(req[r].claims)
  /\ Answer(r, GenerateRefreshToken(req[r].claims))

\* The answer reaches the browser.
Deliver(r) ==
  /\ req[r].pc = "deliver"
  /\ IF req[r].kind = "connect"
     THEN url' = req[r].claims /\ UNCHANGED cookie
     ELSE cookie' = req[r].claims /\ UNCHANGED url
  /\ req' = [req EXCEPT ![r] = Idle]
  /\ UNCHANGED <<now, accessVars, wcache, errors, begun>>

\* A request ends without effect on the browser: without a signing key,
\* beyond the horizon, too late, or given up by the browser.
Finish(r) ==
  /\ req[r].pc # "idle" /\ req' = [req EXCEPT ![r] = Idle]
  /\ UNCHANGED <<now, accessVars, wcache, cookie, url, errors, begun>>

\* The browser drops the cookie: its MaxAge is over, or the user deletes it.
DropCookie ==
  /\ cookie.type # "none" /\ cookie' = NoClaims
  /\ UNCHANGED <<now, accessVars, wcache, url, req, errors, begun>>

\* Time passes; the informer is never further behind than Lag, and the connection
\* of a request is closed at its write deadline: what is answered later has no effect.
Tick ==
  /\ now < MaxTime /\ now' = now + 1
  /\ wcache # wksp => now < behind + Lag
  /\ req' = [r \in Requests |-> IF now < req[r].start + Limit THEN req[r] ELSE Idle]
  /\ UNCHANGED <<accessVars, wcache, cookie, url, errors, begun>>

Init ==
  /\ now = 0 /\ rbac = TRUE /\ wksp = "own" /\ wcache = "own" /\ behind = 0
  /\ cookie = NoClaims /\ url = NoClaims /\ req = [r \in Requests |-> Idle]
  /\ changes = 0 /\ errors = 0 /\ begun = 0
  /\ rbacEnd = 0 /\ wkspEnd = 0 /\ regained = -(Lag + 1)

Step(r) ==
  \/ BeginAuth(r) \/ BeginConnect(r) \/ BeginBearerAuth(r) \/ BeginVerify(r)
  \/ BearerTokenReview(r) \/ CheckRBACPermission(r) \/ CheckWorkspaceAccess(r)
  \/ ReviewFails(r) \/ AuthGranted(r) \/ BearerAuthGranted(r)
  \/ GenerateBearerTokenURL(r)
  \/ VerifyUnchecked(r) \/ VerifyDenied(r) \/ VerifyRefreshed(r)
  \/ Deliver(r) \/ Finish(r)

Next ==
  \/ \E r \in Requests : Step(r)
  \/ SetRBAC \/ SetWorkspace \/ WorkspaceEvent \/ DropCookie \/ Tick

Spec == Init /\ [][Next]_vars

-----------------------------------------------------------------------------
(* Properties *)

Claims == [type: {"none", "session", "bootstrap"}, iat: Nat, exp: Nat, skip: BOOLEAN,
           login: Nat]
Request == [kind: {"none", "auth", "connect", "bearer", "verify"},
            pc: {"idle", "review", "rbac", "workspace", "answer", "deliver"},
            start: Nat, claims: Claims,
            result: {"none", "allowed", "denied", "error"}]

\* Every variable has its type; the browser's cookie is never a bootstrap token and
\* its bearer URL never a session (the token types that ValidateToken's callers check).
TypeOK ==
  /\ now \in Nat /\ rbac \in BOOLEAN /\ wksp \in Workspaces /\ wcache \in Workspaces
  /\ behind \in Nat /\ cookie \in Claims /\ url \in Claims
  /\ cookie.type # "bootstrap" /\ url.type # "session"
  /\ req \in [Requests -> Request] /\ changes \in Nat /\ errors \in Nat /\ begun \in Nat
  /\ rbacEnd \in Nat /\ wkspEnd \in Nat /\ regained \in Int

RBACUntil == IF rbac THEN now ELSE rbacEnd
WorkspaceUntil == IF Accessible(wksp) THEN now ELSE wkspEnd
MissingUntil == IF Access THEN regained ELSE now

\* How long after a review a token expires that the review has led to: at most a
\* bearer URL, used at the last moment, and the session it is exchanged for.
LastReviewed == Limit + BootTTL + Leeway - 1 + Limit + TTL

\* ... and the token of the same session that no review confirmed any more.
LastUnreviewed == LastReviewed - 1 + Limit + TTL

\* A right that is lost is lost for good within a fixed time: whatever requests
\* overlap, however answers overtake each other and reviews fail, /verify accepts no
\* cookie later than that after RBAC or the Workspace last allowed it (handleVerify
\* reviews access only when a token is close to its end).
RevokedAccessEnds ==
  Accepted(cookie) =>
    /\ now < RBACUntil + LastUnreviewed + Leeway
    /\ now < WorkspaceUntil + Lag + LastUnreviewed + Leeway

\* A session ends within a fixed time of the login, whatever is refreshed: the horizon,
\* one more token, and one more after a failed review (RefreshToken checks the horizon,
\* UpdateSkipRefreshToken does not).
SessionsEnd ==
  Accepted(cookie) =>
    now < cookie.login + (Horizon - 1 + TTL) + (Limit - 1 + TTL) + Leeway

\* A cookie is cleared only by a user's loss of access: at some moment since the
\* request began, but for the informer's lag, access was really missing.  A review that
\* fails clears nothing.
ClearedOnlyWithoutAccess ==
  \A r \in Requests :
    (req[r].pc = "deliver" /\ req[r].claims.type = "none")
      => MissingUntil >= req[r].start - Lag
=============================================================================

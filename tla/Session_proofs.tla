--------------------------- MODULE Session_proofs ---------------------------
(***************************************************************************)
(* Proofs about Session: the bounds on how long a session outlives the     *)
(* right to it and the login, and what clears a cookie, for any number of  *)
(* requests and any lifetimes that the configuration admits.               *)
(***************************************************************************)
EXTENDS Session, TLAPS

-----------------------------------------------------------------------------
(* The inductive invariant *)

\* RBAC, until rb, and the Workspace as the informer may show it, until ws, allowed
\* access at t or later.
Good(t, rb, ws) == rb >= t /\ ws + Lag >= t

\* What is known of a token: a review at most so long before its end, and a login.
Sound(c, rb, ws) ==
  /\ c.type = "session" /\ ~c.skip =>
       /\ Good(c.exp - LastReviewed, rb, ws)
       /\ c.iat = c.login /\ c.exp <= c.login + (Horizon - 1 + TTL)
  /\ c.type = "session" /\ c.skip =>
       /\ Good(c.exp - LastUnreviewed, rb, ws)
       /\ c.exp <= c.login + (Horizon - 1 + TTL) + (Limit - 1 + TTL)
  /\ c.type = "bootstrap" => Good(c.exp - (Limit + BootTTL), rb, ws)

\* What is known of a request: the token it carries fits its kind ...
Carried(q) ==
  /\ q.pc = "review" => q.kind = "bearer"
  /\ q.kind = "bearer" /\ q.pc # "deliver" =>
       q.claims.type = "bootstrap" /\ q.pc \in {"review", "answer"}
  /\ q.kind = "bearer" /\ q.pc = "answer" => q.start < q.claims.exp + Leeway
  /\ q.kind = "verify" /\ q.pc # "deliver" =>
       q.claims.type = "session" /\ ~q.claims.skip /\ q.start < q.claims.exp
  /\ q.pc = "deliver" => (q.kind = "connect" <=> q.claims.type = "bootstrap")

\* ... and its review was right at some moment since it began (access missing until mi).
Shown(q, rb, ws, mi) ==
  /\ q.pc = "workspace" => rb >= q.start
  /\ q.pc = "answer" /\ q.result = "allowed" /\ q.kind # "bearer" => Good(q.start, rb, ws)
  /\ q.pc = "answer" /\ q.kind # "verify" => q.result = "allowed"
  /\ q.pc = "answer" /\ q.result = "denied" => mi >= q.start - Lag
  /\ q.pc = "deliver" /\ q.claims.type = "none" => mi >= q.start - Lag

Progress(q, n, rb, ws, mi) ==
  q.pc # "idle" =>
    /\ q.start <= n /\ n <= q.start + Limit
    /\ Sound(q.claims, rb, ws) /\ Carried(q) /\ Shown(q, rb, ws, mi)

\* The informer and the histories.
Informed ==
  /\ behind <= now /\ rbacEnd <= now /\ wkspEnd <= now /\ regained <= now
  /\ wcache # wksp =>
       /\ now <= behind + Lag
       /\ Accessible(wcache) /\ ~Accessible(wksp) => wkspEnd >= behind
       /\ ~Accessible(wcache) /\ Access => regained >= behind

Tokens == Sound(cookie, RBACUntil, WorkspaceUntil) /\ Sound(url, RBACUntil, WorkspaceUntil)
Underway ==
  \A r \in Requests :
    Progress(req[r], now, RBACUntil, WorkspaceUntil, MissingUntil)

IInv == TypeOK /\ Informed /\ Tokens /\ Underway

-----------------------------------------------------------------------------
(* Facts about tokens and requests *)

\* The bounds are integers, and how they are built from one another.
LEMMA Bounds ==
  /\ LastReviewed \in Int /\ LastUnreviewed \in Int
  /\ LastReviewed >= Limit + TTL /\ LastUnreviewed >= LastReviewed
  /\ LastReviewed = (Limit + BootTTL) + (Leeway - 1 + Limit + TTL)
  /\ LastUnreviewed = LastReviewed + (Limit - 1 + TTL)
BY SessionAssumption DEF LastReviewed, LastUnreviewed

\* What a request that began at s and is answered at t may vouch for: its token ends
\* so long after s, or after the end e of the token it came with.
LEMMA Spans ==
  ASSUME NEW t \in Nat, NEW s \in Nat, t <= s + Limit
  PROVE  /\ t + TTL - LastReviewed <= s
         /\ \A e \in Nat : s < e + Leeway => t + TTL - LastReviewed <= e - (Limit + BootTTL)
         /\ \A e \in Nat : s < e => t + TTL - LastUnreviewed <= e - LastReviewed
BY Bounds, SessionAssumption

\* Access at t or later is access at an earlier u or later, and stays so.
LEMMA GoodKept ==
  ASSUME NEW t \in Int, NEW u \in Int, NEW rb \in Int, NEW ws \in Int,
         NEW rb1 \in Int, NEW ws1 \in Int,
         Good(t, rb, ws), u <= t, rb <= rb1, ws <= ws1
  PROVE  Good(u, rb1, ws1)
BY SessionAssumption DEF Good

\* What is known of a token stays known.
LEMMA SoundKept ==
  ASSUME NEW c \in Claims, NEW rb \in Int, NEW ws \in Int,
         NEW rb1 \in Int, NEW ws1 \in Int,
         Sound(c, rb, ws), rb <= rb1, ws <= ws1
  PROVE  Sound(c, rb1, ws1)
<1>1. c.exp \in Nat BY DEF Claims
<1> QED BY <1>1, GoodKept, Bounds, SessionAssumption DEF Sound

\* What is known of a request stays known, until its write deadline.
LEMMA ProgressKept ==
  ASSUME NEW q \in Request, NEW n \in Int, NEW n1 \in Int,
         NEW rb \in Int, NEW ws \in Int, NEW mi \in Int,
         NEW rb1 \in Int, NEW ws1 \in Int, NEW mi1 \in Int,
         Progress(q, n, rb, ws, mi), n <= n1, n1 <= q.start + Limit \/ n1 = n,
         rb <= rb1, ws <= ws1, mi <= mi1
  PROVE  Progress(q, n1, rb1, ws1, mi1)
<1> SUFFICES ASSUME q.pc # "idle" PROVE Progress(q, n1, rb1, ws1, mi1)
  BY DEF Progress
<1>1. q.start \in Nat /\ q.claims \in Claims BY DEF Request
<1>2. Sound(q.claims, rb1, ws1) BY <1>1, SoundKept DEF Progress
<1>3. Shown(q, rb1, ws1, mi1)
  BY <1>1, GoodKept, SessionAssumption DEF Progress, Shown
<1>4. q.start <= n1 /\ n1 <= q.start + Limit
  BY <1>1, SessionAssumption DEF Progress
<1> QED BY <1>2, <1>3, <1>4 DEF Progress

-----------------------------------------------------------------------------
(* Types *)

\* A token that is made has its type.
LEMMA TokenType ==
  ASSUME now \in Nat, NEW type \in {"session", "bootstrap"}, NEW iat \in Nat,
         NEW life \in Nat, NEW skip \in BOOLEAN, NEW login \in Nat
  PROVE  Token(type, iat, life, skip, login) \in Claims
BY DEF Token, Claims

\* No token and no request have their types.
LEMMA IdleType == NoClaims \in Claims /\ Idle \in Request
BY DEF NoClaims, Claims, Idle, Request

\* A review that ends leaves a request of the right type.
LEMMA ReviewedType ==
  ASSUME TypeOK, NEW r \in Requests, NEW result \in {"allowed", "denied", "error"},
         Reviewed(r, result)
  PROVE  req' \in [Requests -> Request]
<1> DEFINE q == [req[r] EXCEPT !.pc = "answer", !.result = result]
<1>1. req[r] \in Request BY DEF TypeOK
<1>2. q \in Request BY <1>1 DEF Request
<1>3. req' = [req EXCEPT ![r] = q] \/ req' = [req EXCEPT ![r] = Idle]
  BY DEF Reviewed, TypeOK
<1> HIDE DEF q
<1> QED BY <1>2, <1>3, IdleType DEF TypeOK

\* An answer leaves a request of the right type.
LEMMA AnswerType ==
  ASSUME TypeOK, NEW r \in Requests, NEW c \in Claims, Answer(r, c)
  PROVE  req' \in [Requests -> Request]
<1> DEFINE q == [req[r] EXCEPT !.pc = "deliver", !.claims = c, !.result = "none"]
<1>1. req[r] \in Request BY DEF TypeOK
<1>2. q \in Request BY <1>1 DEF Request
<1>3. req' = [req EXCEPT ![r] = q] BY DEF Answer, TypeOK
<1> HIDE DEF q
<1> QED BY <1>2, <1>3 DEF TypeOK

\* A step of a request keeps the types of requests.
LEMMA StepType ==
  ASSUME TypeOK, NEW r \in Requests, Step(r)
  PROVE  req' \in [Requests -> Request]
<1>0. now \in Nat /\ req \in [Requests -> Request] /\ req[r] \in Request
      /\ req[r].claims \in Claims /\ req[r].claims.iat \in Nat
      /\ req[r].claims.login \in Nat /\ TTL \in Nat /\ BootTTL \in Nat
  BY SessionAssumption DEF TypeOK, Request, Claims
<1>1. ASSUME NEW kind \in {"auth", "connect", "bearer", "verify"},
             NEW pc \in {"review", "rbac"}, NEW c \in Claims, Begin(r, kind, pc, c)
      PROVE  req' \in [Requests -> Request]
  <2> DEFINE q == [kind |-> kind, pc |-> pc, start |-> now, claims |-> c,
                   result |-> "none"]
  <2>1. q \in Request BY <1>0 DEF Request
  <2>2. req' = [req EXCEPT ![r] = q] BY <1>1 DEF Begin
  <2> HIDE DEF q
  <2> QED BY <1>0, <2>1, <2>2
<1>2. CASE BeginAuth(r) BY <1>1, <1>2, IdleType DEF BeginAuth
<1>3. CASE BeginConnect(r) BY <1>1, <1>3, IdleType DEF BeginConnect
<1>4. CASE BeginBearerAuth(r) BY <1>1, <1>4 DEF BeginBearerAuth, TypeOK
<1>5. CASE BeginVerify(r) BY <1>1, <1>5 DEF BeginVerify, TypeOK
<1>6. CASE BearerTokenReview(r) BY <1>6, ReviewedType DEF BearerTokenReview
<1>7. CASE CheckRBACPermission(r)
  <2>1. CASE Reviewed(r, "denied") BY <2>1, ReviewedType
  <2>2. CASE req' = [req EXCEPT ![r].pc = "workspace"]
    <3> DEFINE q == [req[r] EXCEPT !.pc = "workspace"]
    <3>1. q \in Request BY <1>0 DEF Request
    <3>2. req' = [req EXCEPT ![r] = q] BY <2>2, <1>0
    <3> HIDE DEF q
    <3> QED BY <1>0, <3>1, <3>2
  <2> QED BY <1>7, <2>1, <2>2 DEF CheckRBACPermission
<1>8. CASE CheckWorkspaceAccess(r) BY <1>8, ReviewedType DEF CheckWorkspaceAccess
<1>9. CASE ReviewFails(r) BY <1>9, ReviewedType DEF ReviewFails
<1>10. CASE AuthGranted(r) \/ BearerAuthGranted(r)
  BY <1>0, <1>10, TokenType, AnswerType DEF AuthGranted, BearerAuthGranted, GenerateToken
<1>11. CASE GenerateBearerTokenURL(r)
  BY <1>0, <1>11, TokenType, AnswerType DEF GenerateBearerTokenURL
<1>12. CASE VerifyUnchecked(r)
  BY <1>0, <1>12, TokenType, AnswerType DEF VerifyUnchecked, UpdateSkipRefreshToken
<1>13. CASE VerifyDenied(r) BY <1>13, IdleType, AnswerType DEF VerifyDenied
<1>14. CASE VerifyRefreshed(r)
  BY <1>0, <1>14, TokenType, AnswerType DEF VerifyRefreshed, GenerateRefreshToken
<1>15. CASE Deliver(r) BY <1>0, <1>15, IdleType DEF Deliver
<1>16. CASE Finish(r) BY <1>0, <1>16, IdleType DEF Finish
<1> QED BY <1>2, <1>3, <1>4, <1>5, <1>6, <1>7, <1>8, <1>9, <1>10, <1>11, <1>12,
           <1>13, <1>14, <1>15, <1>16 DEF Step

\* A step of a request changes nothing of time, of the right to connect and of what
\* the extension API knows of the Workspace.
LEMMA StepFrame ==
  ASSUME NEW r \in Requests, Step(r)
  PROVE  UNCHANGED <<now, rbac, wksp, wcache, behind, changes, rbacEnd, wkspEnd, regained>>
BY DEF Step, BeginAuth, BeginConnect, BeginBearerAuth, BeginVerify, Begin,
       BearerTokenReview, CheckRBACPermission, CheckWorkspaceAccess, ReviewFails,
       Reviewed, AuthGranted, BearerAuthGranted, GenerateBearerTokenURL, VerifyUnchecked, VerifyDenied,
       VerifyRefreshed, Answer, Deliver, Finish, accessVars

\* Only an answer that is delivered changes what the browser has.
LEMMA StepBrowser ==
  ASSUME NEW r \in Requests, Step(r)
  PROVE  UNCHANGED <<cookie, url>> \/ Deliver(r)
BY DEF Step, BeginAuth, BeginConnect, BeginBearerAuth, BeginVerify, Begin,
       BearerTokenReview, CheckRBACPermission, CheckWorkspaceAccess, ReviewFails,
       Reviewed, AuthGranted, BearerAuthGranted, GenerateBearerTokenURL, VerifyUnchecked, VerifyDenied,
       VerifyRefreshed, Answer, Finish

\* The counters of the bounds count.
LEMMA StepCounters ==
  ASSUME TypeOK, NEW r \in Requests, Step(r)
  PROVE  errors' \in Nat /\ begun' \in Nat
<1>1. errors' = errors \/ errors' = errors + 1
  BY DEF Step, BeginAuth, BeginConnect, BeginBearerAuth, BeginVerify, Begin,
         BearerTokenReview, CheckRBACPermission, CheckWorkspaceAccess, ReviewFails,
         AuthGranted, BearerAuthGranted, GenerateBearerTokenURL, VerifyUnchecked, VerifyDenied,
         VerifyRefreshed, Answer, Deliver, Finish
<1>2. begun' = begun \/ begun' = begun + 1
  BY DEF Step, BeginAuth, BeginConnect, BeginBearerAuth, BeginVerify, Begin,
         BearerTokenReview, CheckRBACPermission, CheckWorkspaceAccess, ReviewFails,
         Reviewed, AuthGranted, BearerAuthGranted, GenerateBearerTokenURL, VerifyUnchecked, VerifyDenied,
         VerifyRefreshed, Answer, Deliver, Finish
<1> QED BY <1>1, <1>2 DEF TypeOK

\* What is delivered has the type its place in the browser asks for.
LEMMA DeliverType ==
  ASSUME TypeOK, Underway, NEW r \in Requests, Deliver(r)
  PROVE  /\ cookie' \in Claims /\ url' \in Claims
         /\ cookie'.type # "bootstrap" /\ url'.type # "session"
<1>1. req[r] \in Request /\ req[r].claims \in Claims BY DEF TypeOK, Request
<1>2. req[r].kind = "connect" <=> req[r].claims.type = "bootstrap"
  BY DEF Underway, Progress, Carried, Deliver
<1>3. CASE req[r].kind = "connect" BY <1>1, <1>2, <1>3 DEF Deliver, TypeOK
<1>4. CASE req[r].kind # "connect" BY <1>1, <1>2, <1>4 DEF Deliver, TypeOK
<1> QED BY <1>3, <1>4

\* A change of the right to connect keeps the types.
LEMMA ChangedType ==
  ASSUME TypeOK, NEW r \in BOOLEAN, NEW w \in Workspaces, Changed(r, w)
  PROVE  TypeOK'
BY DEF TypeOK, Changed

\* Every step keeps the types.
LEMMA TypeStep ==
  ASSUME TypeOK, Underway, Next
  PROVE  TypeOK'
<1>1. ASSUME NEW r \in Requests, Step(r) PROVE TypeOK'
  <2>1. cookie' \in Claims /\ url' \in Claims
        /\ cookie'.type # "bootstrap" /\ url'.type # "session"
    BY <1>1, StepBrowser, DeliverType DEF TypeOK
  <2> QED BY <1>1, <2>1, StepType, StepFrame, StepCounters DEF TypeOK
<1>2. CASE SetRBAC
  <2>1. (~rbac) \in BOOLEAN /\ wksp \in Workspaces BY DEF TypeOK
  <2> QED BY <1>2, <2>1, ChangedType DEF SetRBAC
<1>3. CASE SetWorkspace BY <1>3, ChangedType DEF SetWorkspace, TypeOK
<1>4. CASE WorkspaceEvent BY <1>4 DEF WorkspaceEvent, TypeOK
<1>5. CASE DropCookie
  <2>1. NoClaims \in Claims /\ NoClaims.type # "bootstrap" BY IdleType DEF NoClaims
  <2> QED BY <1>5, <2>1 DEF DropCookie, TypeOK, accessVars
<1>6. CASE Tick
  <2>1. req' \in [Requests -> Request] BY <1>6, IdleType DEF Tick, TypeOK
  <2> QED BY <1>6, <2>1 DEF Tick, TypeOK, accessVars
<1> QED BY <1>1, <1>2, <1>3, <1>4, <1>5, <1>6 DEF Next

-----------------------------------------------------------------------------
(* Histories *)

Later ==
  /\ now <= now' /\ RBACUntil <= RBACUntil' /\ WorkspaceUntil <= WorkspaceUntil'
  /\ MissingUntil <= MissingUntil'

Timed ==
  now \in Int /\ RBACUntil \in Int /\ WorkspaceUntil \in Int /\ MissingUntil \in Int

\* The histories are times, before a step and after it.
LEMMA Times == (TypeOK => Timed) /\ (TypeOK' => Timed')
BY DEF TypeOK, Timed, RBACUntil, WorkspaceUntil, MissingUntil

\* What was allowed, or missing, until some time stays so.
LEMMA LaterStep ==
  ASSUME TypeOK, Informed, Next
  PROVE  Later
<1>1. ASSUME NEW r \in Requests, Step(r) PROVE Later
  BY <1>1, StepFrame DEF TypeOK, Later, RBACUntil, WorkspaceUntil, MissingUntil, Access
<1>2. ASSUME NEW r \in BOOLEAN, NEW w \in Workspaces, Changed(r, w) PROVE Later
  <2>1. now' = now /\ RBACUntil <= RBACUntil'
    BY <1>2 DEF Changed, RBACUntil, TypeOK, Informed
  <2>2. WorkspaceUntil <= WorkspaceUntil'
    BY <1>2 DEF Changed, WorkspaceUntil, TypeOK, Informed
  <2>3. MissingUntil <= MissingUntil'
    BY <1>2 DEF Changed, MissingUntil, Access, TypeOK, Informed
  <2> QED BY <2>1, <2>2, <2>3 DEF Later, TypeOK
<1>3. CASE SetRBAC
  <2>1. (~rbac) \in BOOLEAN /\ wksp \in Workspaces BY DEF TypeOK
  <2> QED BY <1>2, <1>3, <2>1 DEF SetRBAC
<1>4. CASE SetWorkspace BY <1>2, <1>4 DEF SetWorkspace, TypeOK
<1>5. CASE WorkspaceEvent
  BY <1>5 DEF WorkspaceEvent, TypeOK, Later, RBACUntil, WorkspaceUntil, MissingUntil, Access
<1>6. CASE DropCookie
  BY <1>6 DEF DropCookie, accessVars, TypeOK, Later, RBACUntil, WorkspaceUntil,
              MissingUntil, Access
<1>7. CASE Tick
  BY <1>7 DEF Tick, accessVars, TypeOK, Later, RBACUntil, WorkspaceUntil, MissingUntil,
              Access, Informed
<1> QED BY <1>1, <1>3, <1>4, <1>5, <1>6, <1>7 DEF Next

\* The informer is not further behind than Lag, whatever changes.
LEMMA InformedStep ==
  ASSUME TypeOK, Informed, Next
  PROVE  Informed'
<1>1. ASSUME NEW r \in Requests, Step(r) PROVE Informed'
  BY <1>1, StepFrame DEF Informed, Access
<1>2. ASSUME NEW r \in BOOLEAN, NEW w \in Workspaces, Changed(r, w) PROVE Informed'
  BY <1>2, SessionAssumption DEF Changed, Informed, Access, TypeOK
<1>3. CASE SetRBAC
  <2>1. (~rbac) \in BOOLEAN /\ wksp \in Workspaces BY DEF TypeOK
  <2> QED BY <1>2, <1>3, <2>1 DEF SetRBAC
<1>4. CASE SetWorkspace BY <1>2, <1>4 DEF SetWorkspace, TypeOK
<1>5. CASE WorkspaceEvent BY <1>5 DEF WorkspaceEvent, Informed, TypeOK
<1>6. CASE DropCookie BY <1>6 DEF DropCookie, accessVars, Informed, Access
<1>7. CASE Tick BY <1>7, SessionAssumption DEF Tick, accessVars, Informed, Access, TypeOK
<1> QED BY <1>1, <1>3, <1>4, <1>5, <1>6, <1>7 DEF Next

-----------------------------------------------------------------------------
(* Requests *)

\* Request r as it is known now.
Known(q) == Progress(q, now, RBACUntil, WorkspaceUntil, MissingUntil)

\* A request begins with a token that is sound and of the kind it needs.
LEMMA BeginKnown ==
  ASSUME TypeOK, Tokens, NEW r \in Requests,
         NEW kind \in {"auth", "connect", "bearer", "verify"},
         NEW pc \in {"review", "rbac"}, NEW c \in {NoClaims, url, cookie},
         kind = "bearer" <=> pc = "review",
         kind = "bearer" => c.type = "bootstrap",
         kind = "verify" => c.type = "session" /\ ~c.skip /\ now < c.exp,
         Begin(r, kind, pc, c)
  PROVE  Known(req'[r])
<1> DEFINE q == [kind |-> kind, pc |-> pc, start |-> now, claims |-> c, result |-> "none"]
<1>1. req'[r] = q BY DEF Begin, TypeOK
<1>2. Sound(c, RBACUntil, WorkspaceUntil) BY DEF Tokens, Sound, NoClaims
<1>3. Carried(q) BY DEF Carried
<1>4. Shown(q, RBACUntil, WorkspaceUntil, MissingUntil) BY DEF Shown
<1>5. now <= now /\ now <= now + Limit BY SessionAssumption DEF TypeOK
<1> QED BY <1>1, <1>2, <1>3, <1>4, <1>5 DEF Known, Progress

\* A review that ends tells the request the truth of some moment since it began.
LEMMA ReviewedKnown ==
  ASSUME TypeOK, NEW r \in Requests, NEW result \in {"allowed", "denied", "error"},
         Known(req[r]), req[r].pc \in {"review", "rbac", "workspace"},
         Reviewed(r, result),
         result = "allowed" /\ req[r].kind # "bearer" =>
           Good(req[r].start, RBACUntil, WorkspaceUntil),
         result = "allowed" /\ req[r].kind = "bearer" =>
           req[r].start < req[r].claims.exp + Leeway,
         result = "denied" /\ req[r].kind = "verify" =>
           MissingUntil >= req[r].start - Lag
  PROVE  Known(req'[r])
<1> DEFINE q == [req[r] EXCEPT !.pc = "answer", !.result = result]
<1>0. req[r] \in Request BY DEF TypeOK
<1>1. req'[r] = IF result = "allowed" \/ req[r].kind = "verify" THEN q ELSE Idle
  BY DEF Reviewed, TypeOK
<1>2. CASE result = "allowed" \/ req[r].kind = "verify"
  <2>1. /\ q.kind = req[r].kind /\ q.pc = "answer" /\ q.start = req[r].start
        /\ q.claims = req[r].claims /\ q.result = result
    BY <1>0 DEF Request
  <2>2. req'[r] = q BY <1>1, <1>2
  <2> HIDE DEF q
  <2>3. Carried(q) BY <1>2, <2>1 DEF Known, Progress, Carried
  <2>4. Shown(q, RBACUntil, WorkspaceUntil, MissingUntil)
    BY <1>2, <2>1 DEF Shown
  <2> QED BY <2>1, <2>2, <2>3, <2>4 DEF Known, Progress
<1>3. CASE ~(result = "allowed" \/ req[r].kind = "verify")
  BY <1>1, <1>3 DEF Known, Progress, Idle
<1> QED BY <1>2, <1>3

\* An answer carries a token that is sound, or none after access was missing.
LEMMA AnswerKnown ==
  ASSUME TypeOK, NEW r \in Requests, NEW c \in Claims,
         Known(req[r]), req[r].pc = "answer", Answer(r, c),
         Sound(c, RBACUntil, WorkspaceUntil),
         req[r].kind = "connect" <=> c.type = "bootstrap",
         c.type = "none" => MissingUntil >= req[r].start - Lag
  PROVE  Known(req'[r])
<1> DEFINE q == [req[r] EXCEPT !.pc = "deliver", !.claims = c, !.result = "none"]
<1>0. req[r] \in Request BY DEF TypeOK
<1>1. req'[r] = q BY DEF Answer, TypeOK
<1>2. /\ q.kind = req[r].kind /\ q.pc = "deliver" /\ q.start = req[r].start
      /\ q.claims = c
  BY <1>0 DEF Request
<1> HIDE DEF q
<1>3. Carried(q) BY <1>2 DEF Carried
<1>4. Shown(q, RBACUntil, WorkspaceUntil, MissingUntil) BY <1>2 DEF Shown
<1> QED BY <1>1, <1>2, <1>3, <1>4 DEF Known, Progress

\* Every step of a request keeps what is known of it.
LEMMA StepKnown ==
  ASSUME IInv, NEW r \in Requests, Step(r)
  PROVE  Known(req'[r])
<1> USE SessionAssumption
<1> DEFINE q == req[r]
<1>0. TypeOK /\ Informed /\ Tokens /\ Known(q) BY DEF IInv, Underway, Known
<1>1. /\ q \in Request /\ q.start \in Nat /\ q.claims \in Claims /\ now \in Nat
      /\ q.claims.iat \in Nat /\ q.claims.exp \in Nat /\ q.claims.login \in Nat
      /\ q.claims.skip \in BOOLEAN
  BY <1>0 DEF TypeOK, Request, Claims
<1>2. Timed BY <1>0, Times
<1>3. q.pc # "idle" =>
        /\ q.start <= now /\ now <= q.start + Limit
        /\ Sound(q.claims, RBACUntil, WorkspaceUntil)
        /\ Carried(q) /\ Shown(q, RBACUntil, WorkspaceUntil, MissingUntil)
  BY <1>0 DEF Known, Progress
<1>span. q.pc = "answer" =>
           /\ now + TTL - LastReviewed <= q.start
           /\ q.start < q.claims.exp + Leeway =>
                now + TTL - LastReviewed <= q.claims.exp - (Limit + BootTTL)
           /\ q.start < q.claims.exp =>
                now + TTL - LastUnreviewed <= q.claims.exp - LastReviewed
  BY <1>1, <1>3, Spans
<1>4. CASE BeginAuth(r) BY <1>0, <1>4, BeginKnown DEF BeginAuth
<1>5. CASE BeginConnect(r) BY <1>0, <1>5, BeginKnown DEF BeginConnect
<1>6. CASE BeginBearerAuth(r) BY <1>0, <1>6, BeginKnown DEF BeginBearerAuth
<1>7. CASE BeginVerify(r)
  BY <1>0, <1>7, BeginKnown DEF BeginVerify, Accepted, ShouldRefreshToken, TypeOK, Claims
<1>8. CASE BearerTokenReview(r)
  <2>1. q.pc = "review" /\ q.kind = "bearer"
    BY <1>3, <1>8 DEF BearerTokenReview, Carried
  <2>2. CASE ValidateToken(q.claims)
    <3>1. q.start < q.claims.exp + Leeway BY <1>1, <1>3, <2>1, <2>2 DEF ValidateToken
    <3>2. Reviewed(r, "allowed") BY <1>8, <2>2 DEF BearerTokenReview
    <3> QED BY <1>0, <2>1, <3>1, <3>2, ReviewedKnown
  <2>3. CASE ~ValidateToken(q.claims)
    <3>1. Reviewed(r, "denied") BY <1>8, <2>3 DEF BearerTokenReview
    <3> QED BY <1>0, <2>1, <3>1, ReviewedKnown
  <2> QED BY <2>2, <2>3
<1>9. CASE CheckRBACPermission(r)
  <2>1. q.pc = "rbac" /\ q.kind # "bearer"
    BY <1>3, <1>9 DEF CheckRBACPermission, Carried
  <2>2. CASE ~rbac
    <3>1. MissingUntil >= q.start - Lag BY <1>1, <1>3, <2>1, <2>2 DEF MissingUntil, Access
    <3>2. Reviewed(r, "denied") BY <1>9, <2>2 DEF CheckRBACPermission
    <3> QED BY <1>0, <2>1, <3>1, <3>2, ReviewedKnown
  <2>3. CASE rbac
    <3> DEFINE p == [q EXCEPT !.pc = "workspace"]
    <3>1. req'[r] = p BY <1>0, <1>9, <2>3 DEF CheckRBACPermission, TypeOK
    <3>2. /\ p.kind = q.kind /\ p.pc = "workspace" /\ p.start = q.start
          /\ p.claims = q.claims
      BY <1>1 DEF Request
    <3>3. RBACUntil >= q.start BY <1>1, <1>3, <2>1, <2>3 DEF RBACUntil
    <3> HIDE DEF p
    <3>4. Carried(p) BY <1>3, <2>1, <3>2 DEF Carried
    <3>5. Shown(p, RBACUntil, WorkspaceUntil, MissingUntil) BY <3>2, <3>3 DEF Shown
    <3> QED BY <1>3, <2>1, <3>1, <3>2, <3>4, <3>5 DEF Known, Progress
  <2> QED BY <2>2, <2>3
<1>10. CASE CheckWorkspaceAccess(r)
  <2>1. q.pc = "workspace" /\ q.kind # "bearer" /\ RBACUntil >= q.start
    BY <1>3, <1>10 DEF CheckWorkspaceAccess, Carried, Shown
  <2>2. CASE Accessible(wcache)
    <3>1. WorkspaceUntil + Lag >= now
      BY <1>0, <2>2 DEF WorkspaceUntil, Informed, TypeOK
    <3>2. q.start \in Nat /\ q.start <= now BY Zenon, <1>1, <1>3, <2>1
    <3> HIDE DEF q
    <3>3. Good(q.start, RBACUntil, WorkspaceUntil)
      BY <1>2, <2>1, <3>1, <3>2 DEF Good, Timed
    <3>4. Reviewed(r, "allowed") BY <1>10, <2>2 DEF CheckWorkspaceAccess
    <3> QED BY <1>0, <2>1, <3>3, <3>4, ReviewedKnown DEF q
  <2>3. CASE ~Accessible(wcache)
    <3>1. MissingUntil >= now - Lag
      BY <1>0, <2>3 DEF MissingUntil, Informed, TypeOK, Access
    <3>2. MissingUntil >= q.start - Lag BY <1>1, <1>2, <1>3, <2>1, <3>1 DEF Timed
    <3>3. Reviewed(r, "denied") BY <1>10, <2>3 DEF CheckWorkspaceAccess
    <3> QED BY <1>0, <2>1, <3>2, <3>3, ReviewedKnown
  <2> QED BY <2>2, <2>3
<1>11. CASE ReviewFails(r) BY <1>0, <1>11, ReviewedKnown DEF ReviewFails
<1>12. CASE AuthGranted(r) \/ BearerAuthGranted(r)
  <2> DEFINE c == GenerateToken
  <2>1. /\ c.type = "session" /\ c.iat = now /\ c.login = now /\ c.skip = FALSE
        /\ c.exp = now + TTL
    BY DEF GenerateToken, Token
  <2>2. c \in Claims BY <1>1, TokenType DEF GenerateToken
  <2>3. q.pc = "answer" /\ q.kind \in {"auth", "bearer"} /\ Answer(r, c)
    BY <1>12 DEF AuthGranted, BearerAuthGranted
  <2> HIDE DEF c
  <2>4. Good(c.exp - LastReviewed, RBACUntil, WorkspaceUntil)
    <3>1. CASE q.kind = "bearer"
      <4>1. /\ Good(q.claims.exp - (Limit + BootTTL), RBACUntil, WorkspaceUntil)
            /\ q.start < q.claims.exp + Leeway
        BY <1>3, <2>3, <3>1 DEF Sound, Carried
      <4>2. now + TTL - LastReviewed <= q.claims.exp - (Limit + BootTTL)
        BY <1>span, <2>3, <4>1
      <4> QED BY <1>1, <1>2, <2>1, <4>1, <4>2, Bounds, GoodKept DEF Timed
    <3>2. CASE q.kind = "auth"
      <4>1. Good(q.start, RBACUntil, WorkspaceUntil) BY <1>3, <2>3, <3>2 DEF Shown
      <4>2. now + TTL - LastReviewed <= q.start BY <1>span, <2>3
      <4> QED BY <1>1, <1>2, <2>1, <4>1, <4>2, Bounds, GoodKept DEF Timed
    <3> QED BY <2>3, <3>1, <3>2
  <2>5. c.exp <= c.login + (Horizon - 1 + TTL) BY <1>1, <2>1
  <2>6. Sound(c, RBACUntil, WorkspaceUntil) BY <2>1, <2>4, <2>5 DEF Sound
  <2> QED BY <1>0, <2>1, <2>2, <2>3, <2>6, AnswerKnown
<1>13. CASE GenerateBearerTokenURL(r)
  <2> DEFINE c == Token("bootstrap", now, BootTTL, TRUE, now)
  <2>1. c.type = "bootstrap" /\ c.exp = now + BootTTL BY DEF Token
  <2>2. c \in Claims BY <1>1, TokenType
  <2>3. q.pc = "answer" /\ q.kind = "connect" /\ Answer(r, c)
    BY <1>13 DEF GenerateBearerTokenURL
  <2> HIDE DEF c
  <2>4. Good(q.start, RBACUntil, WorkspaceUntil) BY <1>3, <2>3 DEF Shown
  <2>5. now + BootTTL - (Limit + BootTTL) <= q.start BY <1>1, <1>3, <2>3
  <2>6. Good(c.exp - (Limit + BootTTL), RBACUntil, WorkspaceUntil)
    BY <1>1, <1>2, <2>1, <2>4, <2>5, GoodKept DEF Timed
  <2>7. Sound(c, RBACUntil, WorkspaceUntil) BY <2>1, <2>6 DEF Sound
  <2> QED BY <1>0, <2>1, <2>2, <2>3, <2>7, AnswerKnown
<1>14. CASE VerifyUnchecked(r)
  <2> DEFINE c == UpdateSkipRefreshToken(q.claims)
  <2>1. /\ c.type = "session" /\ c.skip = TRUE /\ c.login = q.claims.login
        /\ c.exp = now + TTL
    BY DEF UpdateSkipRefreshToken, Token
  <2>2. c \in Claims BY <1>1, TokenType DEF UpdateSkipRefreshToken
  <2>3. q.pc = "answer" /\ q.kind = "verify" /\ Answer(r, c) BY <1>14 DEF VerifyUnchecked
  <2> HIDE DEF c
  <2>4. /\ q.start < q.claims.exp
        /\ Good(q.claims.exp - LastReviewed, RBACUntil, WorkspaceUntil)
        /\ q.claims.exp <= q.claims.login + (Horizon - 1 + TTL)
    BY <1>3, <2>3 DEF Sound, Carried
  <2>5. /\ now + TTL - LastUnreviewed <= q.claims.exp - LastReviewed
        /\ now + TTL <= q.claims.login + (Horizon - 1 + TTL) + (Limit - 1 + TTL)
    <3>1. now + TTL - LastUnreviewed <= q.claims.exp - LastReviewed BY <1>span, <2>3, <2>4
    <3>2. now <= q.start + Limit BY <1>3, <2>3
    <3> QED BY <1>1, <2>4, <3>1, <3>2
  <2>6. Good(c.exp - LastUnreviewed, RBACUntil, WorkspaceUntil)
    BY <1>1, <1>2, <2>1, <2>4, <2>5, Bounds, GoodKept DEF Timed
  <2>7. Sound(c, RBACUntil, WorkspaceUntil) BY <2>1, <2>5, <2>6 DEF Sound
  <2> QED BY <1>0, <2>1, <2>2, <2>3, <2>7, AnswerKnown
<1>15. CASE VerifyDenied(r)
  <2>1. q.pc = "answer" /\ q.kind = "verify" /\ Answer(r, NoClaims)
        /\ MissingUntil >= q.start - Lag
    BY <1>3, <1>15 DEF VerifyDenied, Shown
  <2>2. NoClaims.type = "none" /\ Sound(NoClaims, RBACUntil, WorkspaceUntil)
    BY DEF NoClaims, Sound
  <2> QED BY <1>0, <2>1, <2>2, IdleType, AnswerKnown
<1>16. CASE VerifyRefreshed(r)
  <2> DEFINE c == GenerateRefreshToken(q.claims)
  <2>1. /\ c.type = "session" /\ c.skip = FALSE /\ c.login = q.claims.login
        /\ c.iat = q.claims.iat /\ c.exp = now + TTL
    BY DEF GenerateRefreshToken, Token
  <2>2. c \in Claims BY <1>1, TokenType DEF GenerateRefreshToken
  <2>3. /\ q.pc = "answer" /\ q.kind = "verify" /\ q.result = "allowed"
        /\ Answer(r, c) /\ now - q.claims.iat < Horizon
    BY <1>16 DEF VerifyRefreshed, WithinHorizon
  <2>4. Good(q.start, RBACUntil, WorkspaceUntil) /\ q.claims.iat = q.claims.login
    BY <1>3, <2>3 DEF Shown, Sound, Carried
  <2> HIDE DEF c
  <2>5. /\ now + TTL - LastReviewed <= q.start
        /\ now + TTL <= q.claims.login + (Horizon - 1 + TTL)
    <3>1. now + TTL - LastReviewed <= q.start BY <1>span, <2>3
    <3>2. now - q.claims.login < Horizon BY <2>3, <2>4
    <3> QED BY <1>1, <3>1, <3>2
  <2>6. Good(c.exp - LastReviewed, RBACUntil, WorkspaceUntil)
    BY <1>1, <1>2, <2>1, <2>4, <2>5, Bounds, GoodKept DEF Timed
  <2>7. Sound(c, RBACUntil, WorkspaceUntil) BY <2>1, <2>4, <2>5, <2>6 DEF Sound
  <2> QED BY <1>0, <2>1, <2>2, <2>3, <2>7, AnswerKnown
<1>17. CASE Deliver(r) \/ Finish(r)
  <2>1. req'[r] = Idle BY <1>0, <1>17 DEF Deliver, Finish, TypeOK
  <2> QED BY <2>1 DEF Known, Progress, Idle
<1> QED BY <1>4, <1>5, <1>6, <1>7, <1>8, <1>9, <1>10, <1>11, <1>12, <1>13, <1>14,
           <1>15, <1>16, <1>17 DEF Step

\* Every step keeps what is known of the requests under way.
LEMMA UnderwayStep ==
  ASSUME IInv, Next, TypeOK', Later
  PROVE  Underway'
<1>0. Timed /\ Timed' BY Times DEF IInv
<1> SUFFICES ASSUME NEW s \in Requests
             PROVE  Progress(req'[s], now', RBACUntil', WorkspaceUntil', MissingUntil')
  BY DEF Underway
<1>1. /\ req[s] \in Request /\ req[s].start \in Nat
      /\ Progress(req[s], now, RBACUntil, WorkspaceUntil, MissingUntil)
  BY DEF IInv, TypeOK, Underway, Request
<1>2. ASSUME now' = now \/ now < req[s].start + Limit
      PROVE  Progress(req[s], now', RBACUntil', WorkspaceUntil', MissingUntil')
  <2>1. now' = now \/ now' = now + 1
    BY StepFrame DEF Next, SetRBAC, SetWorkspace, Changed, WorkspaceEvent, DropCookie, Tick
  <2>2. now <= now' /\ (now' <= req[s].start + Limit \/ now' = now)
    BY <1>0, <1>1, <1>2, <2>1, SessionAssumption DEF Timed
  <2> QED BY <1>0, <1>1, <2>2, ProgressKept DEF Timed, Later
<1>3. ASSUME NEW r \in Requests, Step(r)
      PROVE  Progress(req'[s], now', RBACUntil', WorkspaceUntil', MissingUntil')
  <2>1. now' = now /\ RBACUntil' = RBACUntil /\ WorkspaceUntil' = WorkspaceUntil
        /\ MissingUntil' = MissingUntil
    BY <1>3, StepFrame DEF RBACUntil, WorkspaceUntil, MissingUntil, Access
  <2>2. CASE s = r BY <1>3, <2>1, <2>2, StepKnown DEF Known
  <2>3. CASE s # r
    <3>1. req'[s] = req[s]
      BY <1>3, <2>3 DEF IInv, TypeOK, Step, BeginAuth, BeginConnect, BeginBearerAuth,
         BeginVerify, Begin, BearerTokenReview, CheckRBACPermission,
         CheckWorkspaceAccess, ReviewFails, Reviewed, AuthGranted,
         BearerAuthGranted, GenerateBearerTokenURL, VerifyUnchecked, VerifyDenied, VerifyRefreshed, Answer,
         Deliver, Finish
    <3> QED BY <1>1, <2>1, <3>1
  <2> QED BY <2>2, <2>3
<1>4. CASE SetRBAC \/ SetWorkspace \/ WorkspaceEvent \/ DropCookie
  BY <1>2, <1>4 DEF SetRBAC, SetWorkspace, Changed, WorkspaceEvent, DropCookie
<1>5. CASE Tick
  <2>1. CASE now < req[s].start + Limit BY <1>2, <1>5, <2>1 DEF Tick
  <2>2. CASE ~(now < req[s].start + Limit)
    <3>1. req'[s] = Idle BY <1>5, <2>2 DEF Tick
    <3>2. Idle.pc = "idle" BY DEF Idle
    <3> QED BY <3>1, <3>2, Zenon DEF Progress
  <2> QED BY <2>1, <2>2
<1> QED BY <1>3, <1>4, <1>5 DEF Next

\* Every step keeps what is known of the browser's tokens.
LEMMA TokensStep ==
  ASSUME IInv, Next, TypeOK', Later
  PROVE  Tokens'
<1>0. Timed /\ Timed' /\ cookie \in Claims /\ url \in Claims BY Times DEF IInv, TypeOK
<1>1. ASSUME NEW c \in Claims, Sound(c, RBACUntil, WorkspaceUntil)
      PROVE  Sound(c, RBACUntil', WorkspaceUntil')
  BY <1>0, <1>1, SoundKept DEF Timed, Later
<1>2. Sound(NoClaims, RBACUntil', WorkspaceUntil') BY DEF Sound, NoClaims
<1>3. ASSUME NEW r \in Requests, Deliver(r) PROVE Tokens'
  <2>1. req[r].claims \in Claims BY DEF IInv, TypeOK, Request
  <2>2. Sound(req[r].claims, RBACUntil, WorkspaceUntil)
    BY <1>3 DEF IInv, Underway, Progress, Deliver
  <2>3. Sound(req[r].claims, RBACUntil', WorkspaceUntil') BY <1>1, <2>1, <2>2
  <2>4. /\ cookie' = cookie \/ cookie' = req[r].claims
        /\ url' = url \/ url' = req[r].claims
    BY <1>3 DEF Deliver
  <2> QED BY <1>0, <1>1, <2>3, <2>4 DEF IInv, Tokens
<1>4. CASE UNCHANGED <<cookie, url>> BY <1>0, <1>1, <1>4 DEF IInv, Tokens
<1>5. CASE DropCookie BY <1>0, <1>1, <1>2, <1>5 DEF DropCookie, IInv, Tokens
<1>6. UNCHANGED <<cookie, url>> \/ DropCookie \/ \E r \in Requests : Deliver(r)
  BY StepBrowser DEF Next, SetRBAC, SetWorkspace, Changed, WorkspaceEvent, Tick
<1> QED BY <1>3, <1>4, <1>5, <1>6

-----------------------------------------------------------------------------
(* Theorems *)

\* Before the first request nothing is claimed of anyone.
LEMMA InitInv == Init => IInv
<1> SUFFICES ASSUME Init PROVE IInv
  OBVIOUS
<1> USE SessionAssumption
<1>1. TypeOK BY IdleType DEF Init, TypeOK, NoClaims
<1>2. Informed BY DEF Init, Informed
<1>3. Tokens BY DEF Init, Tokens, Sound, NoClaims
<1>4. Underway BY DEF Init, Underway, Progress, Idle
<1> QED BY <1>1, <1>2, <1>3, <1>4 DEF IInv

\* Everything that is known stays known.
LEMMA NextInv == IInv /\ [Next]_vars => IInv'
<1> SUFFICES ASSUME IInv, [Next]_vars PROVE IInv'
  OBVIOUS
<1>1. CASE Next
  <2>1. TypeOK /\ Informed /\ Tokens /\ Underway BY DEF IInv
  <2>2. TypeOK' BY <1>1, <2>1, TypeStep
  <2>3. Later BY <1>1, <2>1, LaterStep
  <2>4. Informed' BY <1>1, <2>1, InformedStep
  <2>5. Tokens' BY <1>1, <2>2, <2>3, TokensStep
  <2>6. Underway' BY <1>1, <2>2, <2>3, UnderwayStep
  <2> QED BY <2>2, <2>4, <2>5, <2>6 DEF IInv
<1>2. CASE UNCHANGED vars
  BY <1>2 DEF vars, IInv, TypeOK, Informed, Tokens, Underway, RBACUntil,
              WorkspaceUntil, MissingUntil, Access
<1> QED BY <1>1, <1>2

\* The invariant holds throughout.
THEOREM Invariance == Spec => []IInv
BY InitInv, NextInv, PTL DEF Spec

\* The invariant gives the bound on access that was lost.
LEMMA InvRevoked == IInv => RevokedAccessEnds
<1> SUFFICES ASSUME IInv, Accepted(cookie)
             PROVE  /\ now < RBACUntil + LastUnreviewed + Leeway
                    /\ now < WorkspaceUntil + Lag + LastUnreviewed + Leeway
  BY DEF RevokedAccessEnds
<1>1. /\ cookie.exp \in Nat /\ cookie.skip \in BOOLEAN /\ now \in Nat /\ Timed
  BY Times DEF IInv, TypeOK, Claims
<1>2. cookie.type = "session" /\ now < cookie.exp + Leeway
  BY DEF Accepted, ValidateToken
<1>3. \/ Good(cookie.exp - LastReviewed, RBACUntil, WorkspaceUntil)
      \/ Good(cookie.exp - LastUnreviewed, RBACUntil, WorkspaceUntil)
  BY <1>2 DEF IInv, Tokens, Sound
<1> QED BY <1>1, <1>2, <1>3, Bounds, SessionAssumption DEF Good, Timed

\* The invariant gives the bound on sessions.
LEMMA InvEnds == IInv => SessionsEnd
<1> SUFFICES ASSUME IInv, Accepted(cookie)
             PROVE  now < cookie.login + (Horizon - 1 + TTL) + (Limit - 1 + TTL) + Leeway
  BY DEF SessionsEnd
<1>1. cookie.exp \in Nat /\ cookie.login \in Nat /\ now \in Nat BY DEF IInv, TypeOK, Claims
<1>2. cookie.type = "session" /\ now < cookie.exp + Leeway
  BY DEF Accepted, ValidateToken
<1>3. \/ cookie.exp <= cookie.login + (Horizon - 1 + TTL)
      \/ cookie.exp <= cookie.login + (Horizon - 1 + TTL) + (Limit - 1 + TTL)
  BY <1>2 DEF IInv, Tokens, Sound
<1> QED BY <1>1, <1>2, <1>3, SessionAssumption

\* The invariant says why a cookie is cleared.
LEMMA InvCleared == IInv => ClearedOnlyWithoutAccess
BY DEF IInv, Underway, Progress, Shown, ClearedOnlyWithoutAccess

\* Access that was lost ends in a bounded time, for every number of concurrent requests
\* and every configuration of the lifetimes (handleVerify, HandleBearerAuth).
THEOREM AccessLost == Spec => []RevokedAccessEnds
BY Invariance, InvRevoked, PTL

\* Every session ends in a bounded time after its login (RefreshToken,
\* UpdateSkipRefreshToken).
THEOREM SessionBound == Spec => []SessionsEnd
BY Invariance, InvEnds, PTL

\* A cookie is cleared only after access was missing (handleVerify).
THEOREM ClearedRightly == Spec => []ClearedOnlyWithoutAccess
BY Invariance, InvCleared, PTL

\* Every variable always has its type; above all, no bootstrap token is ever in a
\* cookie and no session token in a URL (HandleBearerAuth, handleVerify).
THEOREM TypeCorrect == Spec => []TypeOK
<1>1. IInv => TypeOK
  BY DEF IInv
<1> QED BY <1>1, Invariance, PTL
=============================================================================

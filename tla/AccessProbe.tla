----------------------------- MODULE AccessProbe -----------------------------
(***************************************************************************)
(* The access startup probe of a Workspace: ProbeAccessStartup in          *)
(* internal/controller/state_machine_access.go and the status it keeps.    *)
(*                                                                         *)
(* The pass of WorkspaceLifecycle is seen here only around the probe: a    *)
(* pass copies the Workspace from the informer, probes, and writes the     *)
(* status if its copy is current.  Deadlines are kept as the time left     *)
(* until them, in every copy of the status; Tick makes time pass.  A       *)
(* second has several ticks, because the deadline of a pass is exact and   *)
(* the stored one (a metav1.Time) drops the fraction of its last second.   *)
(***************************************************************************)
EXTENDS Integers, FiniteSets

CONSTANTS
  PeriodSeconds, InitialDelaySeconds, FailureThreshold,  \* spec of the probe
  ProbeBackoffThreshold, ProbeBackoffMaxRetrySeconds,    \* constants of the code
  Second,       \* ticks of a second
  MaxVersion,   \* bound on the versions of the access strategy
  MaxOps,       \* bound on starts and stops and on changes of the reference
  MaxFlips,     \* bound on changes of the route
  MaxLost,      \* bound on failed status writes, probe errors and restarts
  MaxCounted    \* bound of the history's count of failed requests

ASSUME ProbeAssumption ==
  /\ PeriodSeconds \in Nat /\ InitialDelaySeconds \in Nat /\ FailureThreshold \in Nat
  /\ ProbeBackoffThreshold \in Nat /\ ProbeBackoffMaxRetrySeconds \in Nat \ {0}
  /\ Second \in Nat \ {0}
  /\ MaxVersion \in Nat \ {0} /\ MaxOps \in Nat /\ MaxFlips \in Nat /\ MaxLost \in Nat
  /\ MaxCounted \in Nat

VARIABLES
  ws, cache, cacheFresh,  \* the Workspace and the informer's copy of it
  strat,                  \* version of the AccessStrategy with a probe
  routeUp,                \* the access route answers
  pc, mem, memFresh,      \* the pass and its working copy
  asRead, result,         \* the strategy the pass read; the ProbeStatus
  fraction,               \* of a deadline that the pass has set: ticks past the second
  queued, timer,          \* the work queue; time left of a delayed requeue, or Nil
  ops, flips, lost,
  \* History: versions that answered and failed requests per version since the
  \* last stored stop; ticks since the last request whose outcome is not lost, as far
  \* as the period, and what became of the outcome.
  passed, failed, since, recorded

statusVars == <<ws, cache, cacheFresh>>
passVars == <<pc, mem, memFresh, asRead, result, fraction>>
envVars == <<strat, routeUp, ops, flips, lost>>
historyVars == <<passed, failed, since, recorded>>
queueVars == <<queued, timer>>
vars == <<statusVars, passVars, envVars, queueVars, historyVars>>

Nil == -1
Versions == 1 .. MaxVersion
Plain == MaxVersion + 1      \* a strategy that defines no probe
Refs == {"none", "probed", "plain"}

\* resolveFailureThreshold and resolvePeriodSeconds: 0 stands for unset.
Threshold == IF FailureThreshold > 0 THEN FailureThreshold ELSE 20
Period == IF PeriodSeconds > 0 THEN PeriodSeconds ELSE 2

Ticks(seconds) == seconds * Second

-----------------------------------------------------------------------------
(* The probe *)

Capped(n) == IF n < ProbeBackoffMaxRetrySeconds THEN n ELSE ProbeBackoffMaxRetrySeconds

\* The last ProbeBackoffThreshold retries back off exponentially: the loop doubles
\* the interval once per failure since and stops at the cap.
probeRetrySeconds(failures) ==
  LET backoffStart == IF Threshold > ProbeBackoffThreshold
                      THEN Threshold - ProbeBackoffThreshold ELSE 0
  IN  IF failures <= backoffStart THEN Period
      ELSE Capped(Period * 2 ^ (failures - backoffStart))

\* The probe state: the failures counted and the ticks left until the next request.
ProbeState(w, failures, wait) == [w EXCEPT !.failures = failures, !.wait = wait]

clearProbeState(w) == ProbeState(w, Nil, 0)

\* Variant: the version is recorded but the state is kept.
KeptForVersion(w, v) == [w EXCEPT !.obs = v]

\* A strategy the status does not know resets the probe.
ForVersion(w, v) ==
  IF w.obs = v THEN w
  ELSE [clearProbeState(w) EXCEPT !.succeeded = FALSE, !.obs = v]

\* Variant: the deadline is not looked at.
DeadlineIgnored(w) == ~w.succeeded /\ w.failures < Threshold
                        /\ (w.failures = Nil => InitialDelaySeconds = 0)

\* Whether this cycle gets to the HTTP request.
ProbeDue(w) ==
  /\ ~w.succeeded
  /\ w.failures < Threshold
  /\ w.failures = Nil => InitialDelaySeconds = 0
  /\ w.wait = 0

\* A cycle without a request: its status and what it does to the working copy.
Unprobed(w) ==
  IF w.succeeded THEN [status |-> "AlreadySucceeded", w |-> w]
  ELSE IF w.failures >= Threshold THEN [status |-> "ThresholdExceeded", w |-> w]
  ELSE IF w.failures = Nil
       THEN [status |-> "Retrying",
             w |-> ProbeState(w, 0, Ticks(InitialDelaySeconds))]
  ELSE [status |-> "PendingRetry", w |-> w]

\* The answer was not a success.
Failed(w) ==
  LET n == (IF w.failures = Nil THEN 0 ELSE w.failures) + 1
  IN  IF n >= Threshold
      THEN [status |-> "ThresholdExceeded", w |-> ProbeState(w, n, 0)]
      ELSE [status |-> "Retrying",
            w |-> ProbeState(w, n, Ticks(probeRetrySeconds(n)))]

Succeeded(w) ==
  [status |-> "Succeeded", w |-> [clearProbeState(w) EXCEPT !.succeeded = TRUE]]

\* A deadline is set whole seconds from now, and now may be any part of a second.
Fractions(status) == IF status = "Retrying" THEN 0 .. Second - 1 ELSE {0}

\* The deadline as it is stored: the fraction is lost, so it comes sooner.
WholeSeconds(wait, f) == IF wait > f THEN wait - f ELSE 0

-----------------------------------------------------------------------------
(* The pass *)

NoStatus == [ref |-> "probed", desired |-> "Running", obs |-> 0, failures |-> Nil,
             wait |-> 0, succeeded |-> FALSE, cond |-> "Starting"]

Init ==
  /\ ws = NoStatus /\ cache = NoStatus /\ cacheFresh = TRUE
  /\ strat = 1 /\ routeUp \in BOOLEAN
  /\ pc = "idle" /\ mem = NoStatus /\ memFresh = FALSE
  /\ asRead = 0 /\ result = "none" /\ fraction = 0
  /\ queued = TRUE /\ timer = Nil /\ ops = 0 /\ flips = 0 /\ lost = 0
  /\ passed = {} /\ failed = [v \in Versions |-> 0]
  /\ since = Ticks(Period) /\ recorded = "none"

\* Reconcile reads the Workspace and the AccessStrategy from their informers.
Reconcile ==
  /\ pc = "idle" /\ queued
  /\ queued' = FALSE
  /\ mem' = cache /\ memFresh' = cacheFresh
  /\ \/ cache.desired = "Stopped" /\ pc' = "stop" /\ asRead' = 0
     \/ /\ cache.desired = "Running"
        /\ \/ cache.ref = "none" /\ pc' = "noAccess" /\ asRead' = 0
           \/ cache.ref = "probed" /\ pc' = "probe" /\ asRead' = strat
           \/ cache.ref = "plain" /\ pc' = "probe" /\ asRead' = Plain
  /\ UNCHANGED <<statusVars, envVars, result, fraction, timer, historyVars>>

\* The probe state is cleared, and the access resources removed, when a Workspace
\* stops or has no strategy any more.
ClearAccess ==
  /\ pc \in {"stop", "noAccess"}
  /\ mem' = [clearProbeState(mem) EXCEPT !.succeeded = FALSE, !.obs = 0]
  /\ result' = IF pc = "stop" THEN "Stopped" ELSE "NotDefined"
  /\ pc' = "write"
  /\ UNCHANGED <<statusVars, envVars, memFresh, asRead, fraction, queueVars, historyVars>>

\* A strategy without a probe takes the place of the resources of the other one
\* and leaves the probe state alone.
ProbeNotDefined ==
  /\ pc = "probe" /\ asRead = Plain
  /\ result' = "NotDefined"
  /\ pc' = "write"
  /\ UNCHANGED <<statusVars, envVars, mem, memFresh, asRead, fraction, queueVars, historyVars>>

\* ProbeAccessStartup ends without a request.
SkipProbe ==
  /\ pc = "probe" /\ asRead # Plain
  /\ LET w == ForVersion(mem, asRead)
     IN  /\ ~ProbeDue(w)
         /\ mem' = Unprobed(w).w /\ result' = Unprobed(w).status
  /\ fraction' \in Fractions(result')
  /\ pc' = "write"
  /\ UNCHANGED <<statusVars, envVars, memFresh, asRead, queueVars, historyVars>>

Counted(n) == IF n < MaxCounted THEN n + 1 ELSE n

\* ProbeAccessStartup sends the request.
SendProbe ==
  /\ pc = "probe" /\ asRead # Plain
  /\ LET w == ForVersion(mem, asRead)
         outcome == IF routeUp THEN Succeeded(w) ELSE Failed(w)
     IN  /\ ProbeDue(w)
         /\ mem' = outcome.w /\ result' = outcome.status
  /\ fraction' \in Fractions(result')
  /\ passed' = IF routeUp THEN passed \cup {asRead} ELSE passed
  /\ failed' = IF routeUp THEN failed ELSE [failed EXCEPT ![asRead] = Counted(@)]
  /\ since' = 0 /\ recorded' = "pending"
  /\ pc' = "write"
  /\ UNCHANGED <<statusVars, envVars, memFresh, asRead, queueVars>>

EndPass ==
  /\ pc' = "idle" /\ mem' = NoStatus /\ memFresh' = FALSE
  /\ asRead' = 0 /\ result' = "none" /\ fraction' = 0

\* The URL cannot be resolved: the error is returned and nothing is written.
ProbeError ==
  /\ pc = "probe" /\ asRead # Plain
  /\ ProbeDue(ForVersion(mem, asRead))
  /\ lost < MaxLost /\ lost' = lost + 1
  /\ EndPass /\ queued' = TRUE
  /\ UNCHANGED <<statusVars, strat, routeUp, ops, flips, timer, historyVars>>

\* Variant: a failed probe does not keep the Workspace from being Available.
ReportedUngated(r) ==
  CASE r = "Stopped" -> "Stopped"
    [] r = "ThresholdExceeded" -> "Degraded"
    [] OTHER -> "Available"

\* The condition that follows from the result of the probe.
Reported(r) ==
  CASE r = "Stopped" -> "Stopped"
    [] r = "ThresholdExceeded" -> "Degraded"
    [] r \in {"Retrying", "PendingRetry"} -> "Starting"
    [] OTHER -> "Available"

\* Variant: a pass that only waits for the deadline asks for no requeue.
RequeueAfterProbeOnly(r) == r = "Retrying"

\* The results after which the pass asks to be run again at the deadline.
RequeueAfter(r) == r \in {"Retrying", "PendingRetry"}

\* A delayed requeue does not push back one that is due earlier.
Earlier(t, u) == IF t = Nil \/ u < t THEN u ELSE t

\* The status write that ends the pass: the server stores it if the working copy
\* is current.  A stored Stopped starts the history anew.
WriteStatus ==
  /\ pc = "write" /\ memFresh
  /\ ws' = [mem EXCEPT !.cond = Reported(result), !.wait = WholeSeconds(@, fraction)]
  /\ cacheFresh' = (cacheFresh /\ ws' = ws)
  /\ timer' = IF RequeueAfter(result) THEN Earlier(timer, mem.wait) ELSE timer
  /\ recorded' = IF recorded = "pending" THEN "stored" ELSE recorded
  /\ passed' = IF result = "Stopped" THEN {} ELSE passed
  /\ failed' = IF result = "Stopped" THEN [v \in Versions |-> 0] ELSE failed
  /\ EndPass
  /\ UNCHANGED <<cache, envVars, queued, since>>

\* The outcome of a request that is not stored yet is lost.
Forget ==
  /\ recorded' = IF recorded = "pending" THEN "none" ELSE recorded
  /\ since' = IF recorded = "pending" THEN Ticks(Period) ELSE since

\* The write is refused because the copy is old, or fails; the error requeues.
LoseStatus ==
  /\ pc = "write"
  /\ \/ ~memFresh /\ UNCHANGED lost
     \/ lost < MaxLost /\ lost' = lost + 1
  /\ EndPass /\ queued' = TRUE /\ Forget
  /\ UNCHANGED <<statusVars, strat, routeUp, ops, flips, timer, passed, failed>>

-----------------------------------------------------------------------------
(* The surroundings *)

\* Users start, stop and change the reference.
UserWrite(w) ==
  /\ ops < MaxOps /\ ops' = ops + 1
  /\ ws' = w /\ cacheFresh' = FALSE /\ memFresh' = FALSE
  /\ UNCHANGED <<cache, strat, routeUp, flips, lost, pc, mem, asRead, result, fraction,
                 queueVars, historyVars>>

SetDesiredStatus ==
  UserWrite([ws EXCEPT !.desired = IF @ = "Running" THEN "Stopped" ELSE "Running"])

SetAccessStrategyRef == \E r \in Refs \ {ws.ref} : UserWrite([ws EXCEPT !.ref = r])

\* The strategy is edited, or another one takes its place; the watch on
\* strategies queues the Workspace.
EditAccessStrategy ==
  /\ strat < MaxVersion /\ strat' = strat + 1
  /\ queued' = TRUE
  /\ UNCHANGED <<statusVars, passVars, routeUp, ops, flips, lost, timer, historyVars>>

RouteChanges ==
  /\ flips < MaxFlips /\ flips' = flips + 1
  /\ routeUp' = ~routeUp
  /\ UNCHANGED <<statusVars, passVars, strat, ops, lost, queueVars, historyVars>>

WorkspaceEvent ==
  /\ ~cacheFresh
  /\ cache' = ws /\ cacheFresh' = TRUE /\ queued' = TRUE
  /\ UNCHANGED <<ws, passVars, envVars, timer, historyVars>>

\* Events of the Deployment or the Service queue their Workspace.
OwnedEvent ==
  /\ ~queued /\ queued' = TRUE
  /\ UNCHANGED <<statusVars, passVars, envVars, timer, historyVars>>

TimerFires ==
  /\ timer = 0 /\ timer' = Nil /\ queued' = TRUE
  /\ UNCHANGED <<statusVars, passVars, envVars, historyVars>>

\* The manager restarts: passes and timers are gone, the cache is read anew and
\* every Workspace queued.
Restart ==
  /\ lost < MaxLost /\ lost' = lost + 1
  /\ EndPass /\ queued' = TRUE /\ timer' = Nil /\ Forget
  /\ cache' = ws /\ cacheFresh' = TRUE
  /\ UNCHANGED <<ws, strat, routeUp, ops, flips, passed, failed>>

Sooner(w) == [w EXCEPT !.wait = IF @ = 0 THEN 0 ELSE @ - 1]

\* Part of a second passes, for every copy of the deadline.
Tick ==
  /\ ws.wait > 0 \/ cache.wait > 0 \/ mem.wait > 0 \/ timer > 0 \/ since < Ticks(Period)
  /\ ws' = Sooner(ws) /\ cache' = Sooner(cache) /\ mem' = Sooner(mem)
  /\ timer' = IF timer > 0 THEN timer - 1 ELSE timer
  /\ since' = IF since < Ticks(Period) THEN since + 1 ELSE since
  /\ UNCHANGED <<cacheFresh, pc, memFresh, asRead, result, fraction, envVars, queued, passed,
                 failed, recorded>>

Pass == Reconcile \/ ClearAccess \/ ProbeNotDefined \/ SkipProbe \/ SendProbe
          \/ ProbeError \/ WriteStatus \/ LoseStatus

Next ==
  \/ Pass \/ WorkspaceEvent \/ OwnedEvent \/ TimerFires \/ Tick \/ Restart
  \/ SetDesiredStatus \/ SetAccessStrategyRef \/ EditAccessStrategy \/ RouteChanges

Spec == Init /\ [][Next]_vars

\* The workers and the informer keep going, and time passes.
FairSpec ==
  /\ Spec /\ WF_vars(Pass) /\ WF_vars(WorkspaceEvent)
  /\ WF_vars(TimerFires) /\ WF_vars(Tick)

-----------------------------------------------------------------------------
(* Properties *)

Results == {"none", "Stopped", "NotDefined", "Succeeded", "AlreadySucceeded",
            "Retrying", "PendingRetry", "ThresholdExceeded"}
Status == [ref: Refs, desired: {"Running", "Stopped"}, obs: 0 .. MaxVersion,
           failures: Nat \cup {Nil}, wait: Int, succeeded: BOOLEAN,
           cond: {"Starting", "Available", "Degraded", "Stopped"}]

\* Every variable has its type.
TypeOK ==
  /\ ws \in Status /\ cache \in Status /\ mem \in Status
  /\ cacheFresh \in BOOLEAN /\ memFresh \in BOOLEAN
  /\ strat \in Versions /\ routeUp \in BOOLEAN
  /\ pc \in {"idle", "probe", "noAccess", "stop", "write"}
  /\ asRead \in 0 .. Plain /\ result \in Results /\ fraction \in 0 .. Second - 1
  /\ queued \in BOOLEAN /\ ops \in Nat /\ flips \in Nat /\ lost \in Nat
  /\ passed \subseteq Versions /\ failed \in [Versions -> Nat]
  /\ since \in Nat /\ recorded \in {"none", "pending", "stored"}
  /\ timer \in Int

\* The stored probe state is earned: a recorded success means that the access
\* route answered for the very strategy version that is recorded, and every
\* counted failure was a request that failed for that version, all since the
\* Workspace last started; so is a Degraded status, although passes work on old
\* copies and lose their status writes (ProbeAccessStartup resets the state when
\* the version changes, ReconcileAccessForDesiredStoppedStatus when it stops).
StatusIsEarned ==
  /\ ws.succeeded => ws.obs \in passed
  /\ ws.failures > 0 => ws.obs \in Versions /\ ws.failures <= failed[ws.obs]
  /\ ws.cond = "Degraded" => ws.failures >= Threshold

\* The next step of the pass can store condition c.
AboutToReport(c) == pc = "write" /\ memFresh /\ Reported(result) = c

\* The gate: a pass reports Available for a Workspace with an access strategy
\* that has a probe only if the route answered for the strategy version the pass
\* has read (reconcileDesiredRunningStatus, "Gate on access startup probe before
\* marking Available").
GateHolds == AboutToReport("Available") /\ asRead \in Versions => asRead \in passed

Sends == recorded # "pending" /\ recorded' = "pending"

\* Requests keep their distance: after a request whose outcome was stored, a pass on
\* a current copy waits for more than the period less a second (the deadline is
\* stored in whole seconds), unless the probe starts anew ("Enforce minimum spacing
\* between probes", state_machine_access.go).
Spaced ==
  [][(Sends /\ memFresh /\ recorded = "stored" /\ mem.failures > 0 /\ mem.obs = asRead)
       => since + Second > Ticks(Capped(Period))]_vars

\* A Workspace that stays Running is not left Starting: the probe passes or gives
\* up, whatever was lost and changed before.
ProbeConcludes ==
  <>[](ws.desired = "Running") => <>[](ws.cond \in {"Available", "Degraded"})

\* A Workspace that was given up recovers when its access strategy changes and
\* the route answers from then on (issue #368).
HealsAfterFix ==
  [](([](ws.desired = "Running" /\ ws.ref = "probed" /\ routeUp) /\ ws.obs # strat)
       => <>(ws.cond = "Available" /\ ws.obs = strat))
=============================================================================

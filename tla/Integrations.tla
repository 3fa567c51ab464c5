----------------------------- MODULE Integrations -----------------------------
(***************************************************************************)
(* An integration template attached to a Workspace.  The controller reads  *)
(* the values that the template takes from a referenced resource once,     *)
(* freezes them in status.resolvedIntegrations, and from then on builds    *)
(* the pod from the live template and the frozen values.  A probe in the   *)
(* pod reports on the integration.                                         *)
(*                                                                         *)
(* The schema admits one integrationTemplateRef per Workspace and one      *)
(* resourceRef per template.  A template is its current revision; what it  *)
(* puts into the pod is its shape: the expressions over the resource that  *)
(* the pod and the probe command use, the parameters it uses and declares, *)
(* if it has a probe, and if its names collide with those of the pod.      *)
(* The Workspace, the Deployment and templates are read from informers,    *)
(* which lag behind the API server; the resource is read from the server.  *)
(*                                                                         *)
(* A pass gets to the integration's probe only behind the access probe     *)
(* (AccessProbe has its counters and deadlines): of that one, its verdict  *)
(* for the current version of the access strategy is kept.  A Workspace    *)
(* without an access probe is one whose probe passes.                      *)
(***************************************************************************)
EXTENDS Naturals

CONSTANTS
  Templates,     \* the template objects of the Workspace's and the shared namespace
  Refs,          \* references: [tmpl, name, target (the resource), gives (parameters)]
  Shapes,        \* [Templates -> sets of [pod, command, needs, declares, probe, clash]]
  Targets,       \* names of resources
  Objects,       \* what a resource can look like: expressions to values or Empty
  Empty,         \* a path of the resource that has no value
  None,
  MaxRevisions, MaxEvents

Expressions(shape) == shape.pod \cup shape.command

AllShapes == UNION {Shapes[t] : t \in Templates}
Names == {r.name : r \in Refs}
Paths == UNION {Expressions(s) : s \in AllShapes}
Values == {o[e] : o \in Objects, e \in Paths} \ {Empty}

\* A revision of a template (UID and generation); a record of resolvedIntegrations;
\* an entry of integrationStatuses; a verdict of the access probe and the version of the
\* strategy it is on; the Workspace; what a template adds to the pod.
Revisions == [id: 1..MaxRevisions, shape: AllShapes]
Records == [name: Names, hash: Refs, version: 1..MaxRevisions,
            values: UNION {[Expressions(s) -> Values] : s \in AllShapes}]
Reasons == {"Ready", "ProbeFailed", "ProbeError", "PodNotFound", "NotResolved"}
Verdicts == [name: Names, reason: Reasons]
Accesses == [state: {"passed", "over"}, version: Nat]
Workspaces == [run: BOOLEAN, ref: Refs \cup {None}, rec: Records \cup {None},
               verdict: Verdicts \cup {None}, avail: BOOLEAN, access: Accesses \cup {None}]
Overlays == [shape: AllShapes, target: Targets,
             values: UNION {[s.pod -> Values \cup {Empty}] : s \in AllShapes}]
Deployments == [overlay: Overlays \cup {None}, ready: BOOLEAN]

ASSUME IntegrationsAssumption ==
  /\ MaxRevisions \in Nat \ {0}
  /\ MaxEvents \in Nat
  /\ \A r \in Refs : r.tmpl \in Templates /\ r.target \in Targets
  /\ \A s \in AllShapes : s.probe \/ s.command = {}
  /\ None \notin Refs /\ None \notin Objects /\ None \notin Revisions
  /\ None \notin Records /\ None \notin Overlays /\ None \notin Deployments

\* Templates that capture nothing, for which no resource is read, are left out.
ASSUME CaptureAssumption == \A s \in AllShapes : s.probe \/ s.pod # {}

VARIABLES
  ws,                  \* the stored Workspace
  wsCache, wsFresh,    \* the informer's copy, and if it is current
  tmpl, tmplCache,     \* stored templates (revision or None), and the informer's copies
  res,                 \* the resources
  dep, depCache, depFresh,   \* the Deployment, the informer's copy, and if it is current
  pod, healthy,        \* the pod, and if the probe command succeeds in it
  strat, reachable,    \* version of the access strategy; if the access route answers
  queued, pc,          \* the controller: its queue and the step of its pass
  mem, memFresh,       \* the working copy, and if it is the stored version
  loaded, up,          \* the template the pass loaded; the Deployment it saw is available
  revisions, events,
  kept, frozen         \* history, see Marks

wsVars == <<ws, wsCache, wsFresh>>
tmplVars == <<tmpl, tmplCache, revisions>>
depVars == <<dep, depCache, depFresh>>
passVars == <<pc, mem, memFresh, loaded, up>>
accessVars == <<strat, reachable>>
envVars == <<res, pod, healthy, accessVars>>
vars == <<wsVars, tmplVars, depVars, passVars, envVars, queued, events, kept, frozen>>

-----------------------------------------------------------------------------
(* Resolution *)

\* findResolvedIntegration: records are found by the name of the integration.
Record(rec, ref) == IF rec # None /\ rec.name = ref.name THEN rec ELSE None

\* hasIntegrationChanged.  The hash of the reference stands for the reference.
HasIntegrationChanged(rec, ref, rev) ==
  Record(rec, ref) = None \/ rec.hash # ref \/ rec.version # rev.id

\* ResolveTemplateExpression with missingkey=error.
Supplied(shape, ref) == shape.needs \subseteq ref.gives

\* evaluateJSONPathExpression: a path that is not there, or renders to nothing, is an
\* error.
HasValue(obj, e) == obj[e] # Empty

\* captureIntegrationValues: the resource exists and every expression of pod and
\* probe has a value in it.
CanCapture(shape, ref, obj) ==
  /\ Supplied(shape, ref)
  /\ obj # None
  /\ \A e \in Expressions(shape) : HasValue(obj, e)

Captured(ref, rev, obj) ==
  [name |-> ref.name, hash |-> ref, version |-> rev.id,
   values |-> [e \in Expressions(rev.shape) |-> obj[e]]]

\* Variant: an expression that was not frozen renders as nothing.
AnyValue(rec, e) == TRUE

\* frozenResourceValueProvider: an expression that was not frozen is an error.
Frozen(rec, e) == e \in DOMAIN rec.values

\* buildIntegrationPodModifications and applyPodModifications: every expression has
\* a frozen value, and no name of a container or volume is taken.
CanReplay(shape, ref, rec) ==
  /\ Supplied(shape, ref)
  /\ \A e \in shape.pod : Frozen(rec, e)
  /\ ~shape.clash

\* What the template adds to the pod.
Overlay(shape, ref, rec) ==
  [shape |-> shape, target |-> ref.target,
   values |-> [e \in shape.pod |-> IF e \in DOMAIN rec.values THEN rec.values[e] ELSE Empty]]

\* applyIntegrationsToDeployment: without a record, the pod without the integration;
\* with a record, the template has to be there.
CanBuild ==
  mem.ref # None /\ Record(mem.rec, mem.ref) # None =>
    loaded # None /\ CanReplay(loaded.shape, mem.ref, mem.rec)

Built ==
  IF mem.ref = None THEN None
  ELSE IF Record(mem.rec, mem.ref) = None THEN None
  ELSE Overlay(loaded.shape, mem.ref, mem.rec)

\* ensureDeploymentUpToDate: only an available Workspace is updated, a pod that cannot
\* be built is left as it is.
NeedsUpdate == mem.avail /\ CanBuild /\ depCache.overlay # Built

-----------------------------------------------------------------------------
(* The controller *)

Idle == [run |-> FALSE, ref |-> None, rec |-> None, verdict |-> None, avail |-> FALSE,
         access |-> None]

Fault == events < MaxEvents /\ events' = events + 1

EndPass(requeue) ==
  /\ pc' = "idle" /\ mem' = Idle /\ memFresh' = FALSE /\ loaded' = None /\ up' = FALSE
  /\ queued' = (queued \/ requeue)

\* Reconcile fetches the Workspace from the informer.
Begin ==
  /\ pc = "idle" /\ queued
  /\ queued' = FALSE
  /\ mem' = wsCache /\ memFresh' = wsFresh
  /\ pc' = IF wsCache.run THEN "load" ELSE "stop"
  /\ UNCHANGED <<wsVars, tmplVars, depVars, envVars, events, loaded, up>>

\* Variant: the step is skipped when there is no reference.
LoadUnlessDetached ==
  /\ pc = "load" /\ mem.ref = None
  /\ pc' = "deploy"
  /\ UNCHANGED <<wsVars, tmplVars, depVars, envVars, events, queued, mem, memFresh, loaded, up>>

\* reconcileIntegrations without a reference: what is left of the last one is pruned.
PruneIntegration ==
  /\ pc = "load" /\ mem.ref = None
  /\ mem' = [mem EXCEPT !.rec = None]
  /\ pc' = "deploy"
  /\ UNCHANGED <<wsVars, tmplVars, depVars, envVars, events, queued, memFresh, loaded, up>>

\* reconcileIntegrations, template not found: the record stays.
TemplateUnreadable ==
  /\ pc = "load" /\ mem.ref # None
  /\ tmplCache[mem.ref.tmpl] = None
  /\ mem' = [mem EXCEPT !.rec = Record(mem.rec, mem.ref)]
  /\ pc' = "deploy"
  /\ UNCHANGED <<wsVars, tmplVars, depVars, envVars, events, queued, memFresh, loaded, up>>

\* Variant: values are read anew in every pass.
LoadToCapture ==
  /\ pc = "load" /\ mem.ref # None
  /\ tmplCache[mem.ref.tmpl] # None
  /\ loaded' = tmplCache[mem.ref.tmpl]
  /\ pc' = "capture"
  /\ UNCHANGED <<wsVars, tmplVars, depVars, envVars, events, queued, mem, memFresh, up>>

\* reconcileIntegrations, template loaded: replay what is frozen, or capture anew.
LoadTemplate ==
  /\ pc = "load" /\ mem.ref # None
  /\ tmplCache[mem.ref.tmpl] # None
  /\ loaded' = tmplCache[mem.ref.tmpl]
  /\ pc' = IF HasIntegrationChanged(mem.rec, mem.ref, loaded') THEN "capture" ELSE "deploy"
  /\ UNCHANGED <<wsVars, tmplVars, depVars, envVars, events, queued, mem, memFresh, up>>

\* captureIntegrationValues succeeds.
Capture ==
  /\ pc = "capture"
  /\ CanCapture(loaded.shape, mem.ref, res[mem.ref.target])
  /\ mem' = [mem EXCEPT !.rec = Captured(mem.ref, loaded, res[mem.ref.target])]
  /\ pc' = "deploy"
  /\ UNCHANGED <<wsVars, tmplVars, depVars, envVars, events, queued, memFresh, loaded, up>>

\* Variant: a failed capture drops the record.
CaptureDrops ==
  /\ pc = "capture"
  /\ \/ ~CanCapture(loaded.shape, mem.ref, res[mem.ref.target]) /\ UNCHANGED events
     \/ Fault
  /\ mem' = [mem EXCEPT !.rec = None]
  /\ pc' = "deploy"
  /\ UNCHANGED <<wsVars, tmplVars, depVars, envVars, queued, memFresh, loaded, up>>

\* captureIntegrationValues fails: the record stays, with its hash and version.
CaptureFails ==
  /\ pc = "capture"
  /\ \/ ~CanCapture(loaded.shape, mem.ref, res[mem.ref.target]) /\ UNCHANGED events
     \/ Fault
  /\ mem' = [mem EXCEPT !.rec = Record(mem.rec, mem.ref)]
  /\ pc' = "deploy"
  /\ UNCHANGED <<wsVars, tmplVars, depVars, envVars, queued, memFresh, loaded, up>>

\* EnsureDeploymentExists, nothing found: createDeployment.
CreateDeployment ==
  /\ pc = "deploy" /\ depCache = None
  /\ CanBuild /\ dep = None
  /\ dep' = [overlay |-> Built, ready |-> FALSE]
  /\ depFresh' = FALSE
  /\ up' = FALSE
  /\ pc' = "serve"
  /\ UNCHANGED <<wsVars, tmplVars, depCache, envVars, events, queued, mem, memFresh, loaded>>

KeepDeployment ==
  /\ pc = "deploy" /\ depCache # None
  /\ ~NeedsUpdate
  /\ up' = depCache.ready
  /\ pc' = "serve"
  /\ UNCHANGED <<wsVars, tmplVars, depVars, envVars, events, queued, mem, memFresh, loaded>>

\* updateDeployment.
UpdateDeployment ==
  /\ pc = "deploy" /\ depCache # None
  /\ NeedsUpdate /\ depFresh
  /\ dep' = [dep EXCEPT !.overlay = Built]
  /\ depFresh' = FALSE
  /\ up' = dep.ready
  /\ pc' = "serve"
  /\ UNCHANGED <<wsVars, tmplVars, depCache, envVars, events, queued, mem, memFresh, loaded>>

\* The Deployment cannot be built for a start, exists already, or its update conflicts;
\* or a call for it fails.
DeploymentFails ==
  /\ pc = "deploy"
  /\ \/ depCache = None /\ (~CanBuild \/ dep # None) /\ UNCHANGED events
     \/ depCache # None /\ NeedsUpdate /\ ~depFresh /\ UNCHANGED events
     \/ Fault
  /\ pc' = "error"
  /\ UNCHANGED <<wsVars, tmplVars, depVars, envVars, queued, mem, memFresh, loaded, up>>

\* EnsureServiceExists fails.
ServiceFails ==
  /\ pc = "serve"
  /\ Fault
  /\ pc' = "error"
  /\ UNCHANGED <<wsVars, tmplVars, depVars, envVars, queued, mem, memFresh, loaded, up>>

\* ReconcileAccessForDesiredRunningStatus or the access probe fails: no status is written.
AccessFails ==
  /\ pc = "serve" /\ up
  /\ Fault
  /\ EndPass(TRUE)
  /\ UNCHANGED <<wsVars, tmplVars, depVars, envVars>>

\* What ProbeAccessStartup goes by: its verdict counts for the version it is on.
AccessState(w) ==
  IF w.access # None /\ w.access.version = strat THEN w.access.state ELSE "probing"

Accessed(state) == [state |-> state, version |-> strat]

\* The Deployment, or the access to it, is not ready (ProbeRetrying, ProbePendingRetry):
\* UpdateStartingStatus comes next.
NotServing ==
  /\ pc = "serve"
  /\ \/ ~up /\ UNCHANGED events
     \/ up /\ AccessState(mem) = "probing" /\ ~reachable /\ UNCHANGED events
     \/ up /\ AccessState(mem) = "probing" /\ reachable /\ Fault
  /\ mem' = [mem EXCEPT !.avail = FALSE, !.access = IF up THEN None ELSE @]
  /\ pc' = "status"
  /\ UNCHANGED <<wsVars, tmplVars, depVars, envVars, queued, memFresh, loaded, up>>

\* ProbeFailureThresholdExceeded: UpdatePermanentDegradedRunningStatus comes next, and
\* the integration is not probed.
GiveUp ==
  /\ pc = "serve" /\ up
  /\ AccessState(mem) = "over" \/ (AccessState(mem) = "probing" /\ ~reachable)
  /\ mem' = [mem EXCEPT !.avail = FALSE, !.access = Accessed("over")]
  /\ pc' = "status"
  /\ UNCHANGED <<wsVars, tmplVars, depVars, envVars, events, queued, memFresh, loaded, up>>

\* resolveStatusProbeCommand
CanResolveCommand(shape, ref, rec) ==
  Supplied(shape, ref) /\ \A e \in shape.command : Frozen(rec, e)

FindRunningPod == pod # None

\* Probe: what the command says in the pod.
ProbeReason == IF healthy THEN "Ready" ELSE "ProbeFailed"

\* probeIntegrationStatus and getIntegrationStatusProbeSpec for one integration.
Verdict(ref, rec) ==
  LET rev == tmplCache[ref.tmpl]
      Says(reason) == [name |-> ref.name, reason |-> reason]
  IN IF ref = None THEN None
     ELSE IF Record(rec, ref) = None THEN Says("NotResolved")
     ELSE IF rev = None THEN Says("ProbeError")
     ELSE IF ~rev.shape.probe THEN None
     ELSE IF ~CanResolveCommand(rev.shape, ref, rec) THEN Says("ProbeError")
     ELSE IF ~FindRunningPod THEN Says("PodNotFound")
     ELSE Says(ProbeReason)

\* The verdict as it is written: the call into the pod may fail.
Probed(v, w) ==
  \/ w = v /\ UNCHANGED events
  \/ /\ v # None /\ v.reason \in {"Ready", "ProbeFailed"}
     /\ Fault
     /\ w = [v EXCEPT !.reason = "ProbeError"]

\* Behind the access probe, probeIntegrationStatus, before UpdateRunningStatus.
ProbeIntegrationStatus ==
  /\ pc = "serve" /\ up
  /\ AccessState(mem) = "passed" \/ (AccessState(mem) = "probing" /\ reachable)
  /\ \E w \in Verdicts \cup {None} :
       /\ Probed(Verdict(mem.ref, mem.rec), w)
       /\ mem' = [mem EXCEPT !.avail = TRUE, !.verdict = w, !.access = Accessed("passed")]
  /\ pc' = "status"
  /\ UNCHANGED <<wsVars, tmplVars, depVars, envVars, queued, memFresh, loaded, up>>

\* EnsureDeploymentDeleted deletes the Deployment it finds.
Deleted == IF depCache # None THEN None ELSE dep

\* The stop pass clears the state of the access probe; records and verdicts stay.
StopPass ==
  /\ pc = "stop"
  /\ dep' = Deleted
  /\ depFresh' = (depFresh /\ dep' = dep)
  /\ mem' = [mem EXCEPT !.avail = FALSE, !.access = None]
  /\ pc' = "status"
  /\ UNCHANGED <<wsVars, tmplVars, depCache, envVars, events, queued, memFresh, loaded, up>>

\* A deletion fails, that of the Deployment or a later one.
StopFails ==
  /\ pc = "stop"
  /\ Fault
  /\ dep' \in {dep, Deleted}
  /\ depFresh' = (depFresh /\ dep' = dep)
  /\ mem' = [mem EXCEPT !.access = None]
  /\ pc' = "error"
  /\ UNCHANGED <<wsVars, tmplVars, depCache, envVars, queued, memFresh, loaded, up>>

Stored ==
  [ws EXCEPT !.rec = mem.rec, !.verdict = mem.verdict, !.avail = mem.avail, !.access = mem.access]

\* ProbeFailureThresholdExceeded was what this pass found.
GaveUp == up /\ mem.access # None /\ mem.access.state = "over"

\* Variant: an integration that is ready is not probed again.
RequeueUntilReady ==
  /\ mem.run /\ ~GaveUp
  /\ ~mem.avail \/ (mem.verdict # None /\ mem.verdict.reason # "Ready")

\* PollRequeueDelay of a start, unless the access probe has given up; ProbePeriod as long
\* as there is a verdict to renew.
Requeue ==
  /\ mem.run /\ ~GaveUp
  /\ ~mem.avail \/ mem.verdict # None

\* updateStatus ends a pass with the one write of the status.  A write that changes
\* nothing leaves the stored version as it is.
WriteStatus ==
  /\ pc = "status" /\ memFresh
  /\ ws' = Stored
  /\ wsFresh' = (wsFresh /\ ws' = ws)
  /\ EndPass(Requeue)
  /\ UNCHANGED <<wsCache, tmplVars, depVars, envVars, events>>

\* UpdateErrorStatus, then the error is returned.
WriteErrorStatus ==
  /\ pc = "error" /\ memFresh
  /\ ws' = Stored
  /\ wsFresh' = (wsFresh /\ ws' = ws)
  /\ EndPass(TRUE)
  /\ UNCHANGED <<wsCache, tmplVars, depVars, envVars, events>>

\* The write conflicts or fails: the pass is repeated.
StatusFails ==
  /\ pc \in {"status", "error"}
  /\ \/ ~memFresh /\ UNCHANGED events
     \/ Fault
  /\ EndPass(TRUE)
  /\ UNCHANGED <<wsVars, tmplVars, depVars, envVars>>

\* The process dies; the next one starts from fresh informers.
Restart ==
  /\ Fault
  /\ EndPass(TRUE)
  /\ wsCache' = ws /\ wsFresh' = TRUE
  /\ tmplCache' = tmpl
  /\ depCache' = dep /\ depFresh' = TRUE
  /\ UNCHANGED <<ws, tmpl, revisions, dep, envVars>>

-----------------------------------------------------------------------------
(* Informers; neither templates nor resources wake the controller *)

DeliverWorkspace ==
  /\ ~wsFresh
  /\ wsCache' = ws /\ wsFresh' = TRUE
  /\ queued' = TRUE
  /\ UNCHANGED <<ws, tmplVars, depVars, passVars, envVars, events>>

DeliverDeployment ==
  /\ ~depFresh
  /\ depCache' = dep /\ depFresh' = TRUE
  /\ queued' = TRUE
  /\ UNCHANGED <<wsVars, tmplVars, dep, passVars, envVars, events>>

DeliverTemplate(t) ==
  /\ tmplCache[t] # tmpl[t]
  /\ tmplCache' = [tmplCache EXCEPT ![t] = tmpl[t]]
  /\ UNCHANGED <<wsVars, tmpl, revisions, depVars, passVars, envVars, queued, events>>

\* Any other reason for a pass: an event of the Service, the idle check, a resync.
Wake ==
  /\ pc = "idle" /\ ~queued
  /\ queued' = TRUE
  /\ UNCHANGED <<wsVars, tmplVars, depVars, passVars, envVars, events>>

-----------------------------------------------------------------------------
(* Users, administrators, the cluster *)

Request == events < MaxEvents /\ events' = events + 1

StoreWorkspace(w) ==
  /\ ws' = w
  /\ wsFresh' = FALSE /\ memFresh' = FALSE
  /\ UNCHANGED <<wsCache, tmplVars, depVars, envVars, queued, pc, mem, loaded, up>>

\* IntegrationTemplateRefValidator: the template exists and gets all it declares.
ValidRef(r) ==
  r # None => tmplCache[r.tmpl] # None /\ tmplCache[r.tmpl].shape.declares \subseteq r.gives

\* A user attaches, changes or detaches an integration; admission checks a changed
\* reference.
SetRef(r) ==
  /\ Request
  /\ r # ws.ref
  /\ ValidRef(r)
  /\ StoreWorkspace([ws EXCEPT !.ref = r])

\* The same by an administrator, whose updates are not validated.
SetRefUnchecked(r) ==
  /\ Request
  /\ r # ws.ref
  /\ ~ValidRef(r)
  /\ StoreWorkspace([ws EXCEPT !.ref = r])

SetDesiredStatus ==
  /\ Request
  /\ StoreWorkspace([ws EXCEPT !.run = ~@])

\* validateIntegrationTemplate: a template uses no parameter that it does not declare.
ValidTemplate(s) == s.needs \subseteq s.declares

\* A template is created or edited, also under workspaces that refer to it.
StoreTemplate(t, s) ==
  /\ Request
  /\ ValidTemplate(s)
  /\ revisions < MaxRevisions
  /\ revisions' = revisions + 1
  /\ tmpl' = [tmpl EXCEPT ![t] = [id |-> revisions + 1, shape |-> s]]
  /\ UNCHANGED <<wsVars, tmplCache, depVars, passVars, envVars, queued>>

DeleteTemplate(t) ==
  /\ Request
  /\ tmpl[t] # None
  /\ tmpl' = [tmpl EXCEPT ![t] = None]
  /\ UNCHANGED <<wsVars, tmplCache, revisions, depVars, passVars, envVars, queued>>

\* The resource changes, goes or comes.
Drift(x, o) ==
  /\ Request
  /\ o # res[x]
  /\ res' = [res EXCEPT ![x] = o]
  /\ UNCHANGED <<wsVars, tmplVars, depVars, passVars, pod, healthy, accessVars, queued>>

\* What the probe command finds in the pod changes.
HealthChanges ==
  /\ Request
  /\ healthy' = ~healthy
  /\ UNCHANGED <<wsVars, tmplVars, depVars, passVars, res, pod, accessVars, queued>>

\* The access route begins or ceases to answer.
RouteChanges ==
  /\ Request
  /\ reachable' = ~reachable
  /\ UNCHANGED <<wsVars, tmplVars, depVars, passVars, res, pod, healthy, strat, queued>>

\* The access strategy is edited, which may mend or break the route; its watch queues the
\* Workspace.
EditAccessStrategy ==
  /\ Request
  /\ strat' = strat + 1
  /\ reachable' \in BOOLEAN
  /\ queued' = TRUE
  /\ UNCHANGED <<wsVars, tmplVars, depVars, passVars, res, pod, healthy>>

\* The cluster takes away a pod of an earlier Deployment or template (strategy Recreate) ...
PodStops ==
  /\ pod # None
  /\ dep # None => dep.overlay # pod.overlay \/ ~dep.ready
  /\ pod' = None
  /\ dep' = IF dep = None THEN None ELSE [dep EXCEPT !.ready = FALSE]
  /\ depFresh' = (depFresh /\ dep' = dep)
  /\ UNCHANGED <<wsVars, tmplVars, depCache, passVars, res, healthy, accessVars, queued, events>>

\* ... and starts the one it asks for.
PodStarts ==
  /\ pod = None /\ dep # None
  /\ pod' = [overlay |-> dep.overlay]
  /\ dep' = [dep EXCEPT !.ready = TRUE]
  /\ depFresh' = FALSE
  /\ UNCHANGED <<wsVars, tmplVars, depCache, passVars, res, healthy, accessVars, queued, events>>

-----------------------------------------------------------------------------
(* History *)

\* The controller is between passes, knows the stored Workspace, and the Deployment
\* has the integration that the record is of.
Recorded ==
  /\ pc = "idle" /\ wsCache = ws
  /\ ws.run /\ ws.ref # None /\ Record(ws.rec, ws.ref) # None
  /\ dep # None /\ dep.overlay # None

\* Moreover the record answers the reference and the template, and the Deployment both.
Current ==
  LET rev == tmpl[ws.ref.tmpl]
  IN /\ Recorded
     /\ rev # None /\ tmplCache[ws.ref.tmpl] = rev
     /\ ~HasIntegrationChanged(ws.rec, ws.ref, rev)
     /\ CanReplay(rev.shape, ws.ref, ws.rec)
     /\ dep.overlay = Overlay(rev.shape, ws.ref, ws.rec)

\* kept: it has been Recorded since the integration was attached and the Workspace
\* started.  frozen: the overlay as it was when it became Current, until the reference
\* or the template changes or the Workspace stops.
Marks ==
  /\ kept' = /\ ws.ref # None /\ ws'.ref # None /\ ws'.ref.name = ws.ref.name
             /\ ws'.run
             /\ kept \/ Recorded'
  /\ frozen' = IF \/ ws.ref = None \/ ws'.ref # ws.ref \/ ~ws'.run
                  \/ tmpl'[ws.ref.tmpl] # tmpl[ws.ref.tmpl]
               THEN None
               ELSE IF frozen = None /\ Current' THEN dep'.overlay ELSE frozen

-----------------------------------------------------------------------------
(* The specification *)

\* A Workspace has just been created, with or without an integration.
Init ==
  /\ \E f \in [Templates -> AllShapes] :
       /\ \A t \in Templates : f[t] \in Shapes[t] /\ ValidTemplate(f[t])
       /\ tmpl = [t \in Templates |-> [id |-> 1, shape |-> f[t]]]
  /\ tmplCache = tmpl
  /\ revisions = 1
  /\ res \in [Targets -> Objects \cup {None}]
  /\ \E r \in Refs \cup {None} :
       /\ ValidRef(r)
       /\ ws = [Idle EXCEPT !.run = TRUE, !.ref = r]
  /\ wsCache = ws /\ wsFresh = TRUE
  /\ dep = None /\ depCache = None /\ depFresh = TRUE
  /\ pod = None /\ healthy = TRUE
  /\ strat = 1 /\ reachable \in BOOLEAN
  /\ queued = TRUE /\ pc = "idle"
  /\ mem = Idle /\ memFresh = FALSE /\ loaded = None /\ up = FALSE
  /\ events = 0
  /\ kept = FALSE /\ frozen = None

Pass ==
  \/ Begin
  \/ PruneIntegration \/ TemplateUnreadable \/ LoadTemplate
  \/ Capture \/ CaptureFails
  \/ CreateDeployment \/ KeepDeployment \/ UpdateDeployment \/ DeploymentFails
  \/ ServiceFails \/ AccessFails \/ NotServing \/ GiveUp
  \/ ProbeIntegrationStatus
  \/ StopPass \/ StopFails
  \/ WriteStatus \/ WriteErrorStatus \/ StatusFails

Environment ==
  \/ \E r \in Refs \cup {None} : SetRef(r) \/ SetRefUnchecked(r)
  \/ SetDesiredStatus
  \/ \E t \in Templates : DeleteTemplate(t) \/ (\E s \in Shapes[t] : StoreTemplate(t, s))
  \/ \E x \in Targets, o \in Objects \cup {None} : Drift(x, o)
  \/ HealthChanges \/ RouteChanges \/ EditAccessStrategy

Step ==
  \/ Pass
  \/ Restart
  \/ DeliverWorkspace \/ DeliverDeployment \/ (\E t \in Templates : DeliverTemplate(t))
  \/ Wake
  \/ Environment
  \/ PodStops \/ PodStarts

Next == Step /\ Marks

Spec == Init /\ [][Next]_vars

\* The controller works off its queue, informers catch up, the cluster rolls pods out.
Fairness ==
  /\ WF_vars(Pass /\ Marks)
  /\ WF_vars(DeliverWorkspace /\ Marks)
  /\ WF_vars(DeliverDeployment /\ Marks)
  /\ \A t \in Templates : WF_vars(DeliverTemplate(t) /\ Marks)
  /\ WF_vars((PodStops \/ PodStarts) /\ Marks)

FairSpec == Spec /\ Fairness

-----------------------------------------------------------------------------
(* Properties *)

\* Every piece of state has its type.  A record holds a value, never an empty one, for all
\* the expressions of some revision; a verdict has one of the reasons of conditions.go.
TypeOK ==
  /\ ws \in Workspaces /\ wsCache \in Workspaces /\ mem \in Workspaces
  /\ tmpl \in [Templates -> Revisions \cup {None}]
  /\ tmplCache \in [Templates -> Revisions \cup {None}]
  /\ loaded \in Revisions \cup {None}
  /\ dep \in Deployments \cup {None} /\ depCache \in Deployments \cup {None}
  /\ res \in [Targets -> Objects \cup {None}]
  /\ strat \in Nat
  /\ revisions \in 1..MaxRevisions
  /\ wsFresh => wsCache = ws
  /\ depFresh => depCache = dep
  /\ pc \in {"idle", "load", "capture", "deploy", "serve", "status", "error", "stop"}

\* A pod is never built from a partly resolved template: every expression has a value,
\* and the values are those of one version of the resource
\* (frozenResourceValueProvider.Value: a missing key is an error, not an empty string).
NoPartialOverlay ==
  dep # None /\ dep.overlay # None =>
    \E o \in Objects : \A e \in dep.overlay.shape.pod :
      dep.overlay.values[e] = o[e] /\ o[e] # Empty

\* A broken integration never strips a running sidecar (integration_helpers.go), once
\* its record is stored and known: whatever becomes of the template, the resource, the
\* parameters or calls, the Deployment keeps an overlay while it stays attached.
SidecarKept == kept => dep # None /\ dep.overlay # None

\* Drift of the resource never rolls the pod, once record and Deployment answer
\* reference and template: no pass changes the overlay until one of these changes.
DriftNeverRolls == frozen # None => dep # None /\ dep.overlay = frozen

\* The access probe has not given up on the Workspace, nor will it.
Accessible == AccessState(ws) = "passed" \/ (AccessState(ws) = "probing" /\ reachable)

\* The Workspace runs without integration, or with one that can be resolved and built,
\* and whose template has a probe in each revision.
Resolvable ==
  /\ ws.run
  /\ ws.ref # None =>
       LET rev == tmpl[ws.ref.tmpl]
       IN /\ \A s \in Shapes[ws.ref.tmpl] : s.probe
          /\ rev # None /\ ~rev.shape.clash
          /\ CanCapture(rev.shape, ws.ref, res[ws.ref.target])

Answered ==
  /\ dep # None
  /\ IF ws.ref = None
     THEN ws.rec = None /\ dep.overlay = None
     ELSE /\ tmpl[ws.ref.tmpl] # None
          /\ ~HasIntegrationChanged(ws.rec, ws.ref, tmpl[ws.ref.tmpl])
          /\ dep.overlay = Overlay(tmpl[ws.ref.tmpl].shape, ws.ref, ws.rec)

\* A change is picked up in the end: with an integration that stays resolvable, record
\* and Deployment come to answer reference and template, though no watch of templates
\* and resources wakes the controller; a detached one leaves neither.  Not so while the
\* access probe has given up: nothing is requeued then, and only an available Workspace
\* has its Deployment updated; a stop or an edit of the access strategy mends it
\* (reconcileDesiredRunningStatus, "exit and stop requeuing").
Settles == <>[](Resolvable /\ Accessible) => <>[]Answered

Reported(h) ==
  ws.verdict = IF ws.ref = None THEN None
               ELSE [name |-> ws.ref.name, reason |-> IF h THEN "Ready" ELSE "ProbeFailed"]

\* The status comes to tell how the probe ends in the pod, and nothing of an integration
\* that is detached, unless the access probe has given up: then the integration is not
\* probed, and its last verdict stays (reconcileDesiredRunningStatus).
VerdictSettles ==
  \A h \in BOOLEAN : <>[](Resolvable /\ Accessible /\ healthy = h) => <>[]Reported(h)
=============================================================================

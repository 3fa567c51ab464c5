------------------------- MODULE WorkspaceLifecycle -------------------------
(***************************************************************************)
(* The workspace controller: one Workspace, the objects the controller     *)
(* keeps for it (Deployment, Service, PVC, access resources) and the       *)
(* reconcile loop of internal/controller.                                  *)
(*                                                                         *)
(* A reconcile pass is a sequence of calls to the API server; every call   *)
(* is a step of its own, so that users, Kubernetes and informers act       *)
(* between any two of them and the process may crash there.  Typed objects *)
(* are read from informer copies (names starting with "c"), which lag      *)
(* behind the API server; access resources are unstructured and are read   *)
(* live.  Resource versions are modelled by what they decide: memFresh     *)
(* (cacheFresh) holds when the working copy (the informer copy) carries    *)
(* the Workspace's current resourceVersion, and a write is accepted only   *)
(* then.                                                                   *)
(***************************************************************************)
EXTENDS Naturals, FiniteSets

CONSTANTS
  Resources,    \* access resources an access strategy can define templates for
  UserOps,      \* the kinds of user operation this instance allows
  FaultKinds,   \* the kinds of fault this instance allows
  IdleEnabled,  \* spec.idleShutdown.enabled
  ProbeDefined, \* the access strategy has an accessStartupProbe
  Lingering,    \* deleted objects may stay behind with a deletionTimestamp
  WatchAccess,  \* access resources are watched (WatchTraefik, ResourceWatches)
  MaxOps,       \* bound on user operations
  MaxFaults     \* bound on faults

AllUserOps == {"desired", "ref", "spec", "delete", "strategy", "preempt"}
AllFaults == {"api", "crash", "lost", "unready", "probe"}

ASSUME ConstantsAssumption ==
  /\ UserOps \subseteq AllUserOps
  /\ FaultKinds \subseteq AllFaults
  /\ {IdleEnabled, ProbeDefined, Lingering, WatchAccess} \subseteq BOOLEAN
  /\ MaxOps \in Nat
  /\ MaxFaults \in Nat

VARIABLES
  ws, cache, cacheFresh,   \* the Workspace and the informer's copy of it
  dep, svc, pvc,           \* Deployment, Service, PersistentVolumeClaim
  cdep, csvc, cpvc,        \* the informers' copies of them
  res,                     \* access resources, by template
  strat,                   \* the AccessStrategy, as its informer knows it
  pc, mem, memFresh,       \* the reconcile pass and its working copy
  todo, view,              \* resources left in a loop; objects a pass has read
  queued,                  \* the work queue holds a request for the Workspace
  ops, faults

clusterVars == <<dep, svc, pvc, res>>
informerVars == <<cache, cacheFresh, cdep, csvc, cpvc>>
passVars == <<pc, mem, memFresh, todo, view>>
vars == <<ws, clusterVars, informerVars, strat, passVars, queued, ops, faults>>

-----------------------------------------------------------------------------
(* Objects *)

Conditions == {"Available", "Progressing", "Degraded", "Stopped", "Deleting"}
ObjStates == {"absent", "live", "term"}

\* The combinations of True conditions a Workspace shows: one, besides which an
\* error may have set Degraded.
ReportedConditions ==
  {{}} \cup {{c} : c \in Conditions}
       \cup {{c, "Degraded"} : c \in Conditions \ {"Deleting"}}

\* The Workspace: conds are the status conditions that are True, tracked is
\* status.accessResources, label the access strategy labels, ver the spec that
\* the Deployment is built from.
Workspace == [exists: BOOLEAN, deleting: BOOLEAN, finalizer: BOOLEAN,
              label: BOOLEAN, desired: {"Running", "Stopped"}, ref: BOOLEAN,
              ver: Nat, conds: ReportedConditions, tracked: SUBSET Resources]
Deployment == [st: {"absent", "pending", "ready"}, term: BOOLEAN, ver: Nat]
AccessResource == [st: ObjStates, owned: BOOLEAN, ver: Nat]
Strategy == [tmpl: SUBSET Resources, ver: Nat]
View == [dep: Deployment, svc: ObjStates, accessErr: BOOLEAN, strat: Strategy]

NoWorkspace == [exists |-> FALSE, deleting |-> FALSE, finalizer |-> FALSE,
                label |-> FALSE, desired |-> "Running", ref |-> FALSE,
                ver |-> 0, conds |-> {}, tracked |-> {}]
NoDeployment == [st |-> "absent", term |-> FALSE, ver |-> 0]
NoResource == [st |-> "absent", owned |-> FALSE, ver |-> 0]
NoView == [dep |-> NoDeployment, svc |-> "absent", accessErr |-> FALSE,
           strat |-> [tmpl |-> {}, ver |-> 0]]

\* A Workspace the webhook admitted and nobody has reconciled yet.
Init ==
  /\ ws \in {[NoWorkspace EXCEPT !.exists = TRUE, !.ref = b] : b \in BOOLEAN}
  /\ cache = ws /\ cacheFresh = TRUE
  /\ dep = NoDeployment /\ cdep = NoDeployment
  /\ svc = "absent" /\ csvc = "absent"
  /\ pvc = "absent" /\ cpvc = "absent"
  /\ res = [r \in Resources |-> NoResource]
  /\ strat = [tmpl |-> Resources, ver |-> 0]
  /\ pc = "idle" /\ mem = NoWorkspace /\ memFresh = FALSE
  /\ todo = {} /\ view = NoView
  /\ queued = TRUE /\ ops = 0 /\ faults = 0

-----------------------------------------------------------------------------
(* Steps every pass is made of *)

\* A fault of kind k happens, within the budget of the instance.
Fault(k) ==
  /\ k \in FaultKinds
  /\ faults < MaxFaults
  /\ faults' = faults + 1

\* The pass returns; requeue covers RequeueAfter and a returned error.
Done(requeue) ==
  /\ pc' = "idle" /\ mem' = NoWorkspace /\ memFresh' = FALSE
  /\ todo' = {} /\ view' = NoView
  /\ queued' = (queued \/ requeue)

\* The pass goes on at step p with working copy m.
Continue(p, m) == pc' = p /\ mem' = m /\ UNCHANGED <<memFresh, queued>>

\* The API server stores w as the Workspace: the informer copy falls behind,
\* unless the write changes nothing, which leaves the resourceVersion alone.
Store(w) ==
  /\ ws' = w
  /\ cacheFresh' = (cacheFresh /\ w = ws)
  /\ UNCHANGED cache

\* Variant: the resourceVersion is not compared.
StatusWriteForced(conds) ==
  Store([ws EXCEPT !.conds = conds, !.tracked = mem.tracked])

\* Status().Update: stores conds and the tracked list of the working copy if
\* the working copy is current, and fails with a conflict otherwise.
StatusWriteAccepted(conds) ==
  /\ memFresh
  /\ Store([ws EXCEPT !.conds = conds, !.tracked = mem.tracked])

WriteRejected ==
  /\ \/ ~memFresh /\ UNCHANGED faults
     \/ Fault("api")
  /\ UNCHANGED <<ws, cache, cacheFresh>>

\* Variant: an error of the write is swallowed.
FinishWithStatusSwallowing(conds, requeue) ==
  /\ \/ StatusWriteAccepted(conds) /\ UNCHANGED faults
     \/ WriteRejected
  /\ Done(requeue)
  /\ UNCHANGED <<clusterVars, cdep, csvc, cpvc, strat, ops>>

\* The pass ends with a status write; its error, if any, is returned.
FinishWithStatus(conds, requeue) ==
  /\ \/ StatusWriteAccepted(conds) /\ Done(requeue) /\ UNCHANGED faults
     \/ WriteRejected /\ Done(TRUE)
  /\ UNCHANGED <<clusterVars, cdep, csvc, cpvc, strat, ops>>

\* Update on the Workspace: stores w, except for its status, if the working
\* copy is current.  The object disappears with its last finalizer once it is
\* being deleted.
UpdateAccepted(w) ==
  /\ memFresh
  /\ Store(IF w.deleting /\ ~w.finalizer THEN NoWorkspace
           ELSE [w EXCEPT !.conds = ws.conds, !.tracked = ws.tracked])

\* A call fails and the pass records it with UpdateErrorStatus.
FailWithErrorStatus == Continue("errorStatus", mem) /\ UNCHANGED <<todo, view>>

\* Deleting an object either removes it at once or leaves it terminating.
AfterDelete(o) ==
  IF o = "live" THEN {"absent"} \cup (IF Lingering THEN {"term"} ELSE {})
                ELSE {o}

DepAfterDelete ==
  IF dep.term THEN {dep}
  ELSE {NoDeployment} \cup (IF Lingering THEN {[dep EXCEPT !.term = TRUE]} ELSE {})

-----------------------------------------------------------------------------
(* Reconcile: dispatch on the informer's copy of the Workspace *)

\* Variant: only the labels are looked at.
NeedsLabels(w) == w.label # w.ref

NeedsUpdate(w) == ~w.finalizer \/ w.label # w.ref

\* Variant: a Workspace that is being deleted is left alone.
FirstStepSkippingDeletion(w) ==
  CASE ~w.exists \/ w.deleting -> "idle"
    [] w.exists /\ ~w.deleting /\ NeedsUpdate(w) -> "update"
    [] OTHER -> IF w.desired = "Running" THEN "ensurePVC" ELSE "stopAccess"

FirstStep(w) ==
  CASE ~w.exists \/ (w.deleting /\ ~w.finalizer) -> "idle"
    [] w.exists /\ w.deleting /\ w.finalizer -> "deletingStatus"
    [] w.exists /\ ~w.deleting /\ NeedsUpdate(w) -> "update"
    [] OTHER -> IF w.desired = "Running" THEN "ensurePVC" ELSE "stopAccess"

\* A worker takes the request and reads the Workspace and, for a Running one
\* that references it, the AccessStrategy.
Reconcile ==
  /\ pc = "idle" /\ queued
  /\ IF FirstStep(cache) = "idle"
     THEN /\ queued' = FALSE
          /\ UNCHANGED passVars
     ELSE /\ pc' = FirstStep(cache)
          /\ mem' = cache /\ memFresh' = cacheFresh
          /\ todo' = IF pc' = "stopAccess" THEN cache.tracked ELSE {}
          /\ view' = IF pc' = "ensurePVC" /\ cache.ref
                     THEN [NoView EXCEPT !.strat = strat] ELSE NoView
          /\ queued' = FALSE
  /\ UNCHANGED <<ws, clusterVars, informerVars, strat, ops, faults>>

\* The AccessStrategy cannot be read: the error is returned, nothing is written.
AccessStrategyError ==
  /\ pc = "idle" /\ queued
  /\ FirstStep(cache) = "ensurePVC" /\ cache.ref
  /\ Fault("api")
  /\ UNCHANGED <<ws, clusterVars, informerVars, strat, passVars, queued, ops>>

\* The single Update that adds the finalizer and the labels; then requeue.
UpdateMetadata ==
  /\ pc = "update"
  /\ \/ UpdateAccepted([mem EXCEPT !.finalizer = TRUE, !.label = mem.ref])
        /\ UNCHANGED faults
     \/ WriteRejected
  /\ Done(TRUE)
  /\ UNCHANGED <<clusterVars, cdep, csvc, cpvc, strat, ops>>

-----------------------------------------------------------------------------
(* reconcileDesiredRunningStatus *)

\* EnsurePVCExists: create when the informer knows no PVC; AlreadyExists is an
\* error.
EnsurePVCExists ==
  /\ pc = "ensurePVC"
  /\ \/ /\ cpvc # "absent"
        /\ Continue("ensureDeployment", mem) /\ UNCHANGED <<pvc, faults, todo, view>>
     \/ /\ cpvc = "absent" /\ pvc = "absent"
        /\ pvc' = "live"
        /\ Continue("ensureDeployment", mem) /\ UNCHANGED <<faults, todo, view>>
     \/ /\ \/ cpvc = "absent" /\ pvc # "absent" /\ UNCHANGED faults
           \/ Fault("api")
        /\ FailWithErrorStatus /\ UNCHANGED pvc
  /\ UNCHANGED <<ws, dep, svc, res, informerVars, strat, ops>>

Outdated(w, d) == "Available" \in w.conds /\ d.ver # w.ver

\* EnsureDeploymentExists: create when the informer knows none; update an
\* outdated one, but only while the Workspace is Available.  The update carries
\* the informer's resourceVersion.
EnsureDeploymentExists ==
  /\ pc = "ensureDeployment"
  /\ LET outdated == Outdated(mem, cdep)
     IN \/ /\ cdep.st = "absent" /\ dep.st = "absent"
           /\ dep' = [st |-> "pending", term |-> FALSE, ver |-> mem.ver]
           /\ view' = [view EXCEPT !.dep = dep']
           /\ Continue("ensureService", mem) /\ UNCHANGED <<faults, todo>>
        \/ /\ cdep.st # "absent" /\ ~outdated
           /\ view' = [view EXCEPT !.dep = cdep]
           /\ Continue("ensureService", mem) /\ UNCHANGED <<dep, faults, todo>>
        \/ /\ cdep.st # "absent" /\ outdated /\ cdep = dep
           /\ dep' = [dep EXCEPT !.ver = mem.ver]
           /\ view' = [view EXCEPT !.dep = dep']
           /\ Continue("ensureService", mem) /\ UNCHANGED <<faults, todo>>
        \/ /\ \/ cdep.st = "absent" /\ dep.st # "absent" /\ UNCHANGED faults
              \/ cdep.st # "absent" /\ outdated /\ cdep # dep /\ UNCHANGED faults
              \/ Fault("api")
           /\ FailWithErrorStatus /\ UNCHANGED dep
  /\ UNCHANGED <<ws, svc, pvc, res, informerVars, strat, ops>>

\* EnsureServiceExists and the readiness check that follows it: access is set
\* up only for a ready Deployment.
EnsureServiceExists ==
  /\ pc = "ensureService"
  /\ LET next == IF view.dep.st # "ready" THEN "startingStatus"
                 ELSE IF mem.ref THEN "ensureAccess" ELSE "dropAccess"
         work == IF next = "ensureAccess" THEN view.strat.tmpl
                 ELSE IF next = "dropAccess" THEN mem.tracked ELSE {}
     IN \/ /\ csvc # "absent"
           /\ Continue(next, mem) /\ todo' = work
           /\ UNCHANGED <<svc, faults, view>>
        \/ /\ csvc = "absent" /\ svc = "absent"
           /\ svc' = "live"
           /\ Continue(next, mem) /\ todo' = work
           /\ UNCHANGED <<faults, view>>
        \/ /\ \/ csvc = "absent" /\ svc # "absent" /\ UNCHANGED faults
              \/ Fault("api")
           /\ FailWithErrorStatus /\ UNCHANGED svc
  /\ UNCHANGED <<ws, dep, pvc, res, informerVars, strat, ops>>

\* The resource is in the status and exists.
Kept(r) == r \in mem.tracked /\ res[r].st # "absent"

\* ensureAccessResourceExists: a tracked resource that exists is brought up to
\* date by an update that carries no owner reference; any other one is created,
\* or updated with the owner reference if Create answers AlreadyExists, and is
\* tracked.  An error ends the pass and what it tracked is lost.
EnsureAccessResource(r) ==
  /\ pc = "ensureAccess" /\ r \in todo
  /\ LET current == view.strat.ver
     IN \/ /\ Kept(r)
           /\ res' = IF res[r].ver = current THEN res
                     ELSE [res EXCEPT ![r] =
                             [st |-> @.st, owned |-> FALSE, ver |-> current]]
           /\ Continue(pc, mem)
           /\ todo' = todo \ {r} /\ UNCHANGED <<view, faults>>
        \/ /\ ~Kept(r)
           /\ res' = [res EXCEPT ![r] =
                [st |-> IF @.st = "absent" THEN "live" ELSE @.st,
                 owned |-> TRUE, ver |-> current]]
           /\ Continue(pc, [mem EXCEPT !.tracked = @ \cup {r}])
           /\ todo' = todo \ {r} /\ UNCHANGED <<view, faults>>
        \/ Fault("api") /\ Done(TRUE) /\ UNCHANGED res
  /\ UNCHANGED <<ws, dep, svc, pvc, informerVars, strat, ops>>

\* All templates applied: what is tracked and no longer in the strategy goes.
AccessResourcesEnsured ==
  /\ pc = "ensureAccess" /\ todo = {}
  /\ Continue("pruneAccess", mem)
  /\ todo' = mem.tracked \ view.strat.tmpl
  /\ UNCHANGED <<ws, clusterVars, informerVars, strat, view, ops, faults>>

DeletingAccess == {"pruneAccess", "dropAccess", "stopAccess", "cleanupAccess"}

AfterAccess ==
  [p \in DeletingAccess |->
     CASE p = "stopAccess" -> "stopDeployment"
       [] p = "cleanupAccess" -> "cleanupDeployment"
       [] OTHER -> "probe"]

\* ensureAccessResourceDeleted for one tracked resource.  An error leaves the
\* tracked list as it was: a stop and a deletion go on with their other
\* objects, a Running pass ends.
DeleteAccessResource(r) ==
  /\ pc \in DeletingAccess /\ r \in todo
  /\ \/ /\ \E st \in AfterDelete(res[r].st) :
             res' = [res EXCEPT ![r] = IF st = "absent" THEN NoResource
                                       ELSE [@ EXCEPT !.st = st]]
        /\ Continue(pc, mem)
        /\ todo' = todo \ {r} /\ UNCHANGED <<view, faults>>
     \/ /\ Fault("api") /\ UNCHANGED res
        /\ IF pc \in {"stopAccess", "cleanupAccess"}
           THEN /\ Continue(AfterAccess[pc], mem)
                /\ todo' = {} /\ view' = [view EXCEPT !.accessErr = TRUE]
           ELSE Done(TRUE)
  /\ UNCHANGED <<ws, dep, svc, pvc, informerVars, strat, ops>>

\* All delete requests were accepted: the resources are no longer tracked.
AccessResourcesDeleted ==
  /\ pc \in DeletingAccess /\ todo = {}
  /\ Continue(AfterAccess[pc],
       [mem EXCEPT !.tracked = IF pc = "pruneAccess" THEN @ \cap view.strat.tmpl
                               ELSE {}])
  /\ UNCHANGED <<ws, clusterVars, informerVars, strat, todo, view, ops, faults>>

\* ProbeAccessStartup (module AccessProbe has its details): the pass ends up
\* Running, keeps Starting, or is Degraded for good; or returns an error.
ProbeAccessStartup ==
  /\ pc = "probe"
  /\ \/ Continue("runningStatus", mem) /\ UNCHANGED <<todo, view, faults>>
     \/ /\ mem.ref /\ ProbeDefined /\ Fault("probe")
        /\ \E p \in {"startingStatus", "degradedStatus"} : Continue(p, mem)
        /\ UNCHANGED <<todo, view>>
     \/ mem.ref /\ Fault("api") /\ Done(TRUE)
  /\ UNCHANGED <<ws, clusterVars, informerVars, strat, ops>>

\* UpdateRunningStatus, then the idle check on the refreshed working copy.
UpdateRunningStatus ==
  /\ pc = "runningStatus"
  /\ \/ /\ StatusWriteAccepted({"Available"}) /\ UNCHANGED faults
        /\ Continue("idleCheck", [mem EXCEPT !.conds = {"Available"}])
        /\ UNCHANGED <<todo, view>>
     \/ WriteRejected /\ Done(TRUE)
  /\ UNCHANGED <<clusterVars, cdep, csvc, cpvc, strat, ops>>

UpdateStartingStatus ==
  pc = "startingStatus" /\ FinishWithStatus({"Progressing"}, TRUE)

UpdatePermanentDegradedRunningStatus ==
  pc = "degradedStatus" /\ FinishWithStatus({"Degraded"}, FALSE)

\* UpdateErrorStatus touches the Degraded condition only; the error is returned.
UpdateErrorStatus ==
  pc = "errorStatus" /\ FinishWithStatus(mem.conds \cup {"Degraded"}, TRUE)

\* handleIdleShutdownForRunningWorkspace: the answer of the idle endpoint.  A
\* permanent failure and a disabled check do not requeue.
CheckWorkspaceIdle ==
  /\ pc = "idleCheck"
  /\ \/ Done(IdleEnabled) /\ UNCHANGED faults
     \/ IdleEnabled /\ Fault("api") /\ Done(FALSE)
     \/ /\ IdleEnabled /\ Continue("idleStop", mem)
        /\ UNCHANGED <<todo, view, faults>>
  /\ UNCHANGED <<ws, clusterVars, informerVars, strat, ops>>

\* stopWorkspaceDueToIdle: an Update of the whole spec from the working copy.
StopWorkspaceDueToIdle ==
  /\ pc = "idleStop"
  /\ \/ UpdateAccepted([mem EXCEPT !.desired = "Stopped"]) /\ UNCHANGED faults
     \/ WriteRejected
  /\ Done(TRUE)
  /\ UNCHANGED <<clusterVars, cdep, csvc, cpvc, strat, ops>>

-----------------------------------------------------------------------------
(* reconcileDesiredStoppedStatus and ReconcileDeletion *)

\* A failed delete is recorded by a stop and merely returned by a deletion.
DeleteFails(stopStep) ==
  IF pc = stopStep THEN FailWithErrorStatus ELSE Done(TRUE)

\* EnsureDeploymentDeleted: deletes what the informer still shows as live, and
\* hands on the object as it was read, before the delete.  Deleting an object
\* that is gone already is an error.
EnsureDeploymentDeleted ==
  /\ pc \in {"stopDeployment", "cleanupDeployment"}
  /\ LET next == IF pc = "stopDeployment" THEN "stopService" ELSE "cleanupService"
         gone == cdep.st = "absent" \/ cdep.term
     IN \/ /\ gone
           /\ view' = [view EXCEPT !.dep = cdep]
           /\ Continue(next, mem) /\ UNCHANGED <<dep, todo, faults>>
        \/ /\ ~gone /\ dep.st # "absent"
           /\ dep' \in DepAfterDelete
           /\ view' = [view EXCEPT !.dep = cdep]
           /\ Continue(next, mem) /\ UNCHANGED <<todo, faults>>
        \/ /\ \/ ~gone /\ dep.st = "absent" /\ UNCHANGED faults
              \/ Fault("api")
           /\ DeleteFails("stopDeployment") /\ UNCHANGED dep
  /\ UNCHANGED <<ws, svc, pvc, res, informerVars, strat, ops>>

DepGone(d) == d.st = "absent" \/ d.term

\* Variant: the test of the deletionTimestamp is inverted.
ObjGoneInverted(o) == o # "term"

ObjGone(o) == o # "live"

\* How a stop ends, from the objects as they were read.
StopOutcome(v, tracked) ==
  IF DepGone(v.dep) /\ ObjGone(v.svc)
  THEN IF v.accessErr THEN "errorStatus"
       ELSE IF tracked # {} THEN "stoppingStatus" ELSE "stoppedStatus"
  ELSE IF DepGone(v.dep) \/ ObjGone(v.svc) THEN "stoppingStatus"
  ELSE "errorStatus"

EnsureServiceDeleted ==
  /\ pc \in {"stopService", "cleanupService"}
  /\ LET read == [view EXCEPT !.svc = csvc]
         next == IF pc = "stopService" THEN StopOutcome(read, mem.tracked)
                 ELSE "cleanupPVC"
     IN \/ /\ ObjGone(csvc)
           /\ view' = read
           /\ Continue(next, mem) /\ UNCHANGED <<svc, todo, faults>>
        \/ /\ ~ObjGone(csvc) /\ svc # "absent"
           /\ svc' \in AfterDelete(svc)
           /\ view' = read
           /\ Continue(next, mem) /\ UNCHANGED <<todo, faults>>
        \/ /\ \/ ~ObjGone(csvc) /\ svc = "absent" /\ UNCHANGED faults
              \/ Fault("api")
           /\ DeleteFails("stopService") /\ UNCHANGED svc
  /\ UNCHANGED <<ws, dep, pvc, res, informerVars, strat, ops>>

UpdateStoppingStatus ==
  pc = "stoppingStatus" /\ FinishWithStatus({"Progressing"}, TRUE)

UpdateStoppedStatus ==
  pc = "stoppedStatus" /\ FinishWithStatus({"Stopped"}, FALSE)

\* ReconcileDeletion reports Deleting before it cleans anything up.
UpdateDeletingStatus ==
  /\ pc = "deletingStatus"
  /\ \/ /\ StatusWriteAccepted({"Deleting"}) /\ UNCHANGED <<view, faults>>
        /\ Continue("cleanupAccess", [mem EXCEPT !.conds = {"Deleting"}])
        /\ todo' = mem.tracked
     \/ WriteRejected /\ Done(TRUE)
  /\ UNCHANGED <<clusterVars, cdep, csvc, cpvc, strat, ops>>

\* EnsurePVCDeleted: the only place that deletes storage.
EnsurePVCDeleted ==
  /\ pc = "cleanupPVC"
  /\ \/ /\ ObjGone(cpvc)
        /\ Continue("cleanupCheck", mem) /\ UNCHANGED <<pvc, todo, view, faults>>
     \/ /\ ~ObjGone(cpvc) /\ pvc # "absent"
        /\ pvc' \in AfterDelete(pvc)
        /\ Continue("cleanupCheck", mem) /\ UNCHANGED <<todo, view, faults>>
     \/ /\ \/ ~ObjGone(cpvc) /\ pvc = "absent" /\ UNCHANGED faults
           \/ Fault("api")
        /\ Done(TRUE) /\ UNCHANGED pvc
  /\ UNCHANGED <<ws, dep, svc, res, informerVars, strat, ops>>

AllResourcesDeleted ==
  cdep.st = "absent" /\ csvc = "absent" /\ cpvc = "absent" /\ mem.tracked = {}

\* AreAllResourcesDeleted asks the informers and the working copy.
CheckAllResourcesDeleted ==
  /\ pc = "cleanupCheck"
  /\ IF AllResourcesDeleted
     THEN Continue("removeFinalizer", mem) /\ UNCHANGED <<todo, view>>
     ELSE Done(TRUE)
  /\ UNCHANGED <<ws, clusterVars, informerVars, strat, ops, faults>>

RemoveFinalizer ==
  /\ pc = "removeFinalizer"
  /\ \/ /\ UpdateAccepted([mem EXCEPT !.finalizer = FALSE]) /\ UNCHANGED faults
        /\ Done(FALSE)
     \/ WriteRejected /\ Done(TRUE)
  /\ UNCHANGED <<clusterVars, cdep, csvc, cpvc, strat, ops>>

-----------------------------------------------------------------------------
(* The other actors: users, Kubernetes, informers, the process itself *)

\* Another client changes the Workspace.
UserWrite(op, w) ==
  /\ op \in UserOps /\ ops < MaxOps /\ ws.exists /\ w # ws
  /\ ops' = ops + 1
  /\ Store(w) /\ memFresh' = FALSE
  /\ UNCHANGED <<clusterVars, cdep, csvc, cpvc, strat, pc, mem, todo, view,
                 queued, faults>>

SetDesiredStatus == \E d \in {"Running", "Stopped"} :
                      UserWrite("desired", [ws EXCEPT !.desired = d])
SetAccessStrategyRef == UserWrite("ref", [ws EXCEPT !.ref = ~@])
EditSpec == UserWrite("spec", [ws EXCEPT !.ver = @ + 1])
DeleteWorkspace ==
  UserWrite("delete", IF ws.finalizer THEN [ws EXCEPT !.deleting = TRUE]
                      ELSE NoWorkspace)

\* HandleKubernetesEvents on a preemption event: a read-modify-write on the
\* informer's copy whose conflict is only logged; the request is queued anyway.
HandlePreemption ==
  /\ "preempt" \in UserOps /\ ops < MaxOps
  /\ ops' = ops + 1
  /\ queued' = TRUE
  /\ IF cacheFresh /\ cache.exists
     THEN /\ Store([cache EXCEPT !.desired = "Stopped"])
          /\ memFresh' = FALSE
     ELSE UNCHANGED <<ws, cache, cacheFresh, memFresh>>
  /\ UNCHANGED <<clusterVars, cdep, csvc, cpvc, strat, pc, mem, todo, view, faults>>

\* The AccessStrategy changes; accessStrategyEventHandler finds the Workspace
\* by its labels in the informer's copy.
EditAccessStrategy ==
  /\ "strategy" \in UserOps /\ ops < MaxOps
  /\ ops' = ops + 1
  /\ \E S \in SUBSET Resources : strat' = [tmpl |-> S, ver |-> strat.ver + 1]
  /\ queued' = (queued \/ (/\ cache.exists /\ ~cache.deleting
                           /\ cache.label /\ cache.ref))
  /\ UNCHANGED <<ws, clusterVars, informerVars, passVars, faults>>

\* The deployment controller brings the pod up, or loses it.
DeploymentReady ==
  /\ dep.st = "pending" /\ dep' = [dep EXCEPT !.st = "ready"]
  /\ UNCHANGED <<ws, svc, pvc, res, informerVars, strat, passVars, queued, ops, faults>>

DeploymentUnready ==
  /\ dep.st = "ready" /\ dep' = [dep EXCEPT !.st = "pending"] /\ Fault("unready")
  /\ UNCHANGED <<ws, svc, pvc, res, informerVars, strat, passVars, queued, ops>>

\* The garbage collector deletes the dependents of a Workspace that is gone.
Collect(o) == o = "term" \/ (o = "live" /\ ~ws.exists)

DeploymentGone ==
  /\ dep.st # "absent" /\ (dep.term \/ ~ws.exists)
  /\ dep' = NoDeployment
  /\ UNCHANGED <<ws, svc, pvc, res, informerVars, strat, passVars, queued, ops, faults>>

ServiceGone ==
  /\ Collect(svc) /\ svc' = "absent"
  /\ UNCHANGED <<ws, dep, pvc, res, informerVars, strat, passVars, queued, ops, faults>>

PVCGone ==
  /\ Collect(pvc) /\ pvc' = "absent"
  /\ UNCHANGED <<ws, dep, svc, res, informerVars, strat, passVars, queued, ops, faults>>

\* An access resource disappears: termination ends, the garbage collector
\* follows its owner reference, or somebody deletes it.  The event reaches the
\* Workspace only through a watch on its kind and its owner reference.
AccessResourceGone(r) ==
  /\ \/ /\ res[r].st = "term" \/ (res[r].st = "live" /\ res[r].owned /\ ~ws.exists)
        /\ UNCHANGED faults
     \/ res[r].st = "live" /\ Fault("lost")
  /\ res' = [res EXCEPT ![r] = NoResource]
  /\ queued' = (queued \/ (WatchAccess /\ res[r].owned))
  /\ UNCHANGED <<ws, dep, svc, pvc, informerVars, strat, passVars, ops>>

\* Informers catch up, each on its own, and queue the Workspace.
WorkspaceEvent ==
  /\ ~cacheFresh
  /\ cache' = ws /\ cacheFresh' = TRUE /\ queued' = TRUE
  /\ UNCHANGED <<ws, clusterVars, cdep, csvc, cpvc, strat, passVars, ops, faults>>

DeploymentEvent ==
  /\ cdep # dep
  /\ cdep' = dep /\ queued' = TRUE
  /\ UNCHANGED <<ws, clusterVars, cache, cacheFresh, csvc, cpvc, strat, passVars,
                 ops, faults>>

ServiceEvent ==
  /\ csvc # svc
  /\ csvc' = svc /\ queued' = TRUE
  /\ UNCHANGED <<ws, clusterVars, cache, cacheFresh, cdep, cpvc, strat, passVars,
                 ops, faults>>

PVCEvent ==
  /\ cpvc # pvc
  /\ cpvc' = pvc /\ queued' = TRUE
  /\ UNCHANGED <<ws, clusterVars, cache, cacheFresh, cdep, csvc, strat, passVars,
                 ops, faults>>

\* The manager dies, or another one takes the lease: the pass and the queue are
\* lost, the informers list everything anew.
Crash ==
  /\ Fault("crash")
  /\ pc' = "idle" /\ mem' = NoWorkspace /\ memFresh' = FALSE
  /\ todo' = {} /\ view' = NoView /\ queued' = TRUE
  /\ cache' = ws /\ cacheFresh' = TRUE
  /\ cdep' = dep /\ csvc' = svc /\ cpvc' = pvc
  /\ UNCHANGED <<ws, clusterVars, strat, ops>>

-----------------------------------------------------------------------------
(* The specification *)

RunningPass ==
  \/ EnsurePVCExists \/ EnsureDeploymentExists \/ EnsureServiceExists
  \/ \E r \in Resources : EnsureAccessResource(r)
  \/ AccessResourcesEnsured \/ ProbeAccessStartup
  \/ UpdateRunningStatus \/ UpdateStartingStatus
  \/ UpdatePermanentDegradedRunningStatus
  \/ CheckWorkspaceIdle \/ StopWorkspaceDueToIdle

StopOrDeletePass ==
  \/ \E r \in Resources : DeleteAccessResource(r)
  \/ AccessResourcesDeleted
  \/ EnsureDeploymentDeleted \/ EnsureServiceDeleted
  \/ UpdateStoppingStatus \/ UpdateStoppedStatus
  \/ UpdateDeletingStatus \/ EnsurePVCDeleted
  \/ CheckAllResourcesDeleted \/ RemoveFinalizer

Pass ==
  \/ Reconcile \/ AccessStrategyError \/ UpdateMetadata \/ UpdateErrorStatus
  \/ RunningPass \/ StopOrDeletePass

User ==
  \/ SetDesiredStatus \/ SetAccessStrategyRef \/ EditSpec \/ DeleteWorkspace
  \/ HandlePreemption \/ EditAccessStrategy

Kubernetes ==
  \/ DeploymentReady \/ DeploymentUnready \/ DeploymentGone \/ ServiceGone \/ PVCGone
  \/ \E r \in Resources : AccessResourceGone(r)

Informers == WorkspaceEvent \/ DeploymentEvent \/ ServiceEvent \/ PVCEvent

Next == Pass \/ User \/ Kubernetes \/ Informers \/ Crash

Spec == Init /\ [][Next]_vars

\* The workers, the informers and Kubernetes keep going; users, faults and the
\* watch on preemptions promise nothing.
Fairness ==
  /\ WF_vars(Pass)
  /\ WF_vars(WorkspaceEvent) /\ WF_vars(DeploymentEvent)
  /\ WF_vars(ServiceEvent) /\ WF_vars(PVCEvent)
  /\ WF_vars(DeploymentReady)
  /\ WF_vars(DeploymentGone) /\ WF_vars(ServiceGone) /\ WF_vars(PVCGone)
  /\ \A r \in Resources : WF_vars(AccessResourceGone(r))

FairSpec == Spec /\ Fairness

-----------------------------------------------------------------------------
(* Properties *)

StopSteps == {"stopAccess", "stopDeployment", "stopService", "stoppingStatus",
              "stoppedStatus"}
RunSteps == {"ensurePVC", "ensureDeployment", "ensureService", "ensureAccess",
             "pruneAccess", "dropAccess", "probe", "runningStatus",
             "startingStatus", "degradedStatus", "idleCheck", "idleStop"}
DeleteSteps == {"deletingStatus", "cleanupAccess", "cleanupDeployment",
                "cleanupService", "cleanupPVC", "cleanupCheck",
                "removeFinalizer"}
Steps == {"idle", "update", "errorStatus"} \cup StopSteps \cup RunSteps
           \cup DeleteSteps

\* Every variable has its type.
TypeOK ==
  /\ ws \in Workspace /\ cache \in Workspace /\ mem \in Workspace
  /\ dep \in Deployment /\ cdep \in Deployment
  /\ svc \in ObjStates /\ csvc \in ObjStates
  /\ pvc \in ObjStates /\ cpvc \in ObjStates
  /\ res \in [Resources -> AccessResource]
  /\ strat \in Strategy /\ view \in View
  /\ pc \in Steps /\ todo \subseteq Resources
  /\ cacheFresh \in BOOLEAN /\ memFresh \in BOOLEAN /\ queued \in BOOLEAN
  /\ ops \in Nat /\ faults \in Nat

\* What the stored Workspace looks like, whoever wrote it last.
StoredInv ==
  /\ ~ws.exists => ws = NoWorkspace
  /\ (ws.exists /\ ~ws.finalizer) => (ws.conds = {} /\ ~ws.deleting)

SameButTracked(m, w) ==
  /\ m.exists = w.exists /\ m.deleting = w.deleting /\ m.finalizer = w.finalizer
  /\ m.label = w.label /\ m.desired = w.desired /\ m.ref = w.ref
  /\ m.ver = w.ver /\ m.conds = w.conds

\* How the informer's copy and the working copy relate to it: a current copy
\* differs from it in nothing but what the pass has tracked, and an old one is
\* still right about the finalizer and about a deletion.
CopiesInv ==
  /\ cacheFresh => cache = ws
  /\ memFresh => (pc # "idle" /\ SameButTracked(mem, ws))
  /\ (cache.exists /\ cache.finalizer /\ ~cache.deleting)
       => (ws.exists /\ ws.finalizer)
  /\ (cache.exists /\ cache.deleting /\ ws.exists) => ws.deleting
  /\ \A w \in {ws, cache, mem} : "Deleting" \in w.conds => w.deleting

\* What a pass may rely on while it runs: the Workspace is there, protected by
\* its finalizer, unless the pass is about to find out that it is gone.
PassInv ==
  /\ pc = "update" => (mem.exists /\ ~mem.deleting)
  /\ pc \in RunSteps \cup StopSteps \cup {"errorStatus"} =>
       /\ mem.exists /\ mem.finalizer /\ ~mem.deleting
       /\ ws.exists /\ ws.finalizer
  /\ pc \in RunSteps => mem.desired = "Running"
  /\ pc \in StopSteps => mem.desired = "Stopped"
  /\ pc \in {"idleCheck", "idleStop"} => mem.conds = {"Available"}
  /\ pc \in DeleteSteps =>
       /\ mem.exists /\ mem.finalizer /\ mem.deleting
       /\ ws.exists => ws.deleting
       /\ cache.exists => cache.deleting
  /\ pc \in DeleteSteps \ {"deletingStatus"} =>
       (ws.exists /\ mem.conds = {"Deleting"})

\* The copies of the Workspace are sound: no pass acts on a copy that is wrong
\* about the finalizer or takes back a deletion, although informers lag and
\* users write in the middle of a pass.
CopiesAreSound == TypeOK /\ StoredInv /\ CopiesInv /\ PassInv

Contract == INSTANCE WorkspaceContract WITH
  obj <- [exists |-> ws.exists, deleting |-> ws.deleting, desired |-> ws.desired,
          ref |-> ws.ref, ver |-> ws.ver, conds |-> ws.conds],
  storage <- pvc, asked <- ops

\* The controller keeps the contract of module WorkspaceContract: conditions
\* answer the stored spec, user edits are never undone by a stale working copy,
\* stopping preserves storage.
KeepsContract == Contract!Spec

\* No step creates anything for a Workspace that is gone: a pass that started
\* on an old copy of it cannot bring its objects back (Reconcile reads the
\* Workspace from an informer that may not know of the deletion yet).
NothingCreatedForGone ==
  [][~ws.exists =>
       /\ dep.st = "absent" => dep'.st = "absent"
       /\ svc = "absent" => svc' = "absent"
       /\ pvc = "absent" => pvc' = "absent"
       /\ \A r \in Resources : res[r].st = "absent" => res'[r].st = "absent"]_vars

\* A desired status of Stopped that stays is reached: the Workspace ends up
\* Stopped and nothing else, with no Deployment and no Service, whatever a stale
\* informer made a pass report in between.
StopConverges ==
  <>[](ws.exists /\ ~ws.deleting /\ ws.desired = "Stopped")
    => <>[](ws.conds = {"Stopped"} /\ dep.st = "absent" /\ svc = "absent")

\* A desired status of Running that stays is reached: Available, on objects
\* that are there and carry the current spec, although updates are applied
\* only to a Workspace that is already Available.
RunConverges ==
  <>[](ws.exists /\ ~ws.deleting /\ ws.desired = "Running")
    => <>[](/\ ws.conds = {"Available"} /\ dep.st = "ready" /\ ~dep.term
            /\ dep.ver = ws.ver /\ svc = "live" /\ pvc = "live")

\* ... and while it refers to a strategy, every template of it has its access
\* resource in the strategy's current version, although the strategy's events
\* find the Workspace only by labels that a pass has yet to write.
RoutesConverge ==
  <>[](ws.exists /\ ~ws.deleting /\ ws.desired = "Running" /\ ws.ref)
    => <>[](\A r \in strat.tmpl : res[r].st = "live" /\ res[r].ver = strat.ver)

\* What the user wants and goes on wanting is reached (StateMachine.
\* ReconcileDesiredState), from every state the earlier passes, requests and faults
\* have led to.
DesiredStateReached == StopConverges /\ RunConverges /\ RoutesConverge

\* A deletion completes and leaves nothing behind.
DeletionCompletes ==
  ws.deleting ~> (/\ ~ws.exists /\ dep.st = "absent" /\ svc = "absent"
                  /\ pvc = "absent"
                  /\ \A r \in Resources : res[r].st = "absent")
=============================================================================

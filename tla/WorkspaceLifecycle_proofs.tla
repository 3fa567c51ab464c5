---------------------- MODULE WorkspaceLifecycle_proofs ----------------------
(***************************************************************************)
(* Proofs about the workspace controller, for any set of access resources  *)
(* and any bounds.  CopiesAreSound is the inductive invariant; from it     *)
(* follow NothingCreatedForGone and the contract of WorkspaceContract.     *)
(***************************************************************************)
EXTENDS WorkspaceLifecycle, TLAPS

USE ConstantsAssumption

-----------------------------------------------------------------------------
(* Records and conditions *)

\* Which sets of conditions a Workspace can show: the empty one, single ones,
\* and what UpdateErrorStatus makes of one that does not say Deleting.
LEMMA LegalConditions ==
  /\ {} \in ReportedConditions
  /\ \A c \in Conditions : {c} \in ReportedConditions
  /\ \A S \in ReportedConditions :
       "Deleting" \notin S => S \cup {"Degraded"} \in ReportedConditions
<1>1. {} \in ReportedConditions
  BY DEF ReportedConditions
<1>2. \A c \in Conditions : {c} \in ReportedConditions
  BY DEF ReportedConditions
<1>3. ASSUME NEW S \in ReportedConditions, "Deleting" \notin S
      PROVE  S \cup {"Degraded"} \in ReportedConditions
  <2>1. CASE S = {}
    BY <2>1, <1>2, "Degraded" \in Conditions, S \cup {"Degraded"} = {"Degraded"}
    DEF Conditions
  <2>2. ASSUME NEW c \in Conditions, S = {c}
        PROVE  S \cup {"Degraded"} \in ReportedConditions
    <3>1. S \cup {"Degraded"} = {c, "Degraded"}
      BY <2>2
    <3>2. c \in Conditions \ {"Deleting"}
      BY <2>2, <1>3
    <3> QED
      BY <3>1, <3>2 DEF ReportedConditions
  <2>3. ASSUME NEW c \in Conditions \ {"Deleting"}, S = {c, "Degraded"}
        PROVE  S \cup {"Degraded"} \in ReportedConditions
    BY <2>3, S \cup {"Degraded"} = S
  <2> QED
    BY <2>1, <2>2, <2>3 DEF ReportedConditions
<1> QED
  BY <1>1, <1>2, <1>3

\* The empty objects have their types.
LEMMA EmptyObjects ==
  /\ NoWorkspace \in Workspace /\ NoDeployment \in Deployment
  /\ NoResource \in AccessResource /\ NoView \in View
  /\ ~NoWorkspace.exists /\ ~NoWorkspace.deleting /\ ~NoWorkspace.finalizer
  /\ NoWorkspace.conds = {}
  BY DEF NoWorkspace, Workspace, ReportedConditions, NoDeployment, Deployment,
         NoResource, AccessResource, NoView, View, Strategy, ObjStates

\* The fields of a Workspace have their types.
LEMMA WorkspaceFields ==
  ASSUME NEW w \in Workspace
  PROVE  /\ {w.exists, w.deleting, w.finalizer, w.label, w.ref} \subseteq BOOLEAN
         /\ w.desired \in {"Running", "Stopped"} /\ w.ver \in Nat
         /\ w.conds \in ReportedConditions /\ w.tracked \subseteq Resources
  BY DEF Workspace

\* A working copy whose tracked list changes stays a Workspace.
LEMMA WorkingCopyFields ==
  ASSUME NEW w \in Workspace, NEW t \in SUBSET Resources
  PROVE  /\ [w EXCEPT !.tracked = t] \in Workspace
         /\ SameButTracked([w EXCEPT !.tracked = t], w)
  BY DEF Workspace, SameButTracked

-----------------------------------------------------------------------------
(* What a step does to the Workspace and its copies *)

\* TypeOK in two parts: the Workspace with its copies, and everything else.
CopyTypes ==
  /\ ws \in Workspace /\ cache \in Workspace /\ mem \in Workspace
  /\ cacheFresh \in BOOLEAN /\ memFresh \in BOOLEAN /\ pc \in Steps

OtherTypes ==
  /\ dep \in Deployment /\ cdep \in Deployment
  /\ svc \in ObjStates /\ csvc \in ObjStates
  /\ pvc \in ObjStates /\ cpvc \in ObjStates
  /\ res \in [Resources -> AccessResource]
  /\ strat \in Strategy /\ view \in View
  /\ todo \subseteq Resources /\ queued \in BOOLEAN
  /\ ops \in Nat /\ faults \in Nat

\* TypeOK is the types of the copies of the Workspace and those of the rest.
LEMMA TypeParts == TypeOK <=> CopyTypes /\ OtherTypes
  BY DEF TypeOK, CopyTypes, OtherTypes

\* Four kinds of step leave the stored Workspace alone: one outside the pass, one
\* that moves the pass on, one that ends it, and one that starts it.
Elsewhere == UNCHANGED <<ws, cache, cacheFresh, pc, mem, memFresh>>

Proceed ==
  /\ UNCHANGED <<ws, cache, cacheFresh, memFresh>>
  /\ mem' \in Workspace /\ SameButTracked(mem', mem)
  /\ \/ /\ pc \in RunSteps \ {"idleCheck", "idleStop"}
        /\ pc' \in (RunSteps \ {"idleCheck", "idleStop"}) \cup {"errorStatus"}
     \/ pc = "idleCheck" /\ pc' = "idleStop"
     \/ pc \in StopSteps /\ pc' \in StopSteps \cup {"errorStatus"}
     \/ /\ pc \in DeleteSteps \ {"deletingStatus"}
        /\ pc' \in DeleteSteps \ {"deletingStatus"}

Finish ==
  /\ UNCHANGED <<ws, cache, cacheFresh>>
  /\ pc' = "idle" /\ mem' = NoWorkspace /\ memFresh' = FALSE

Quiet == Elsewhere \/ Proceed \/ Finish

\* The conditions a status write may carry, given the working copy.
Answers(c) ==
  /\ c \in {{"Available"}, {"Progressing"}, {"Degraded"}, {"Stopped"}, {"Deleting"},
            mem.conds \cup {"Degraded"}}
  /\ c = {"Available"} => mem.desired = "Running"
  /\ c = {"Stopped"} => mem.desired = "Stopped"

\* A status write of conditions c that the API server accepts.
Reported(c) ==
  /\ StatusWriteAccepted(c)
  /\ c \in ReportedConditions /\ Answers(c)
  /\ "Deleting" \in c <=> mem.deleting
  /\ mem.exists /\ mem.finalizer
  /\ \/ pc' = "idle" /\ mem' = NoWorkspace /\ memFresh' = FALSE
     \/ /\ UNCHANGED memFresh /\ mem' = [mem EXCEPT !.conds = c]
        /\ \/ pc = "runningStatus" /\ pc' = "idleCheck" /\ c = {"Available"}
           \/ pc = "deletingStatus" /\ pc' = "cleanupAccess" /\ c = {"Deleting"}

\* A step that leaves the stored Workspace alone keeps the invariant.
LEMMA QuietSound ==
  ASSUME CopiesAreSound, Quiet, OtherTypes'
  PROVE  CopiesAreSound'
<1> USE DEF CopiesAreSound
<1>1. CopyTypes
  BY TypeParts
<1>2. CASE Elsewhere
  BY <1>1, <1>2, TypeParts
  DEF Elsewhere, CopyTypes, OtherTypes, TypeOK, StoredInv, CopiesInv, PassInv, SameButTracked
<1>3. CASE Proceed
  <2>1. TypeOK'
    BY <1>1, <1>3
    DEF Proceed, CopyTypes, OtherTypes, TypeOK, Steps, RunSteps, StopSteps, DeleteSteps
  <2>2. StoredInv'
    BY <1>3 DEF Proceed, StoredInv
  <2>3. pc' # "idle"
    BY <1>3 DEF Proceed, RunSteps, StopSteps, DeleteSteps
  <2>4. CopiesInv'
    BY <1>3, <2>3 DEF Proceed, CopiesInv, SameButTracked
  <2>5. PassInv'
    BY <1>3 DEF Proceed, PassInv, SameButTracked, RunSteps, StopSteps, DeleteSteps
  <2> QED
    BY <2>1, <2>2, <2>4, <2>5
<1>4. CASE Finish
  <2>1. TypeOK'
    BY <1>1, <1>4, EmptyObjects DEF Finish, CopyTypes, OtherTypes, TypeOK, Steps
  <2>2. StoredInv' /\ CopiesInv'
    BY <1>4, EmptyObjects DEF Finish, StoredInv, CopiesInv
  <2>3. PassInv'
    BY <1>4 DEF Finish, PassInv, RunSteps, StopSteps, DeleteSteps
  <2> QED
    BY <2>1, <2>2, <2>3
<1> QED
  BY <1>2, <1>3, <1>4 DEF Quiet

\* An accepted status write keeps the invariant: the working copy was current,
\* so the conditions answer the stored Workspace.
LEMMA ReportedSound ==
  ASSUME CopiesAreSound, NEW c, Reported(c), OtherTypes'
  PROVE  CopiesAreSound'
<1> DEFINE v == [ws EXCEPT !.conds = c, !.tracked = mem.tracked]
<1>1. /\ ws \in Workspace /\ mem \in Workspace /\ cache \in Workspace
      /\ memFresh /\ c \in ReportedConditions /\ mem.tracked \subseteq Resources
  BY WorkspaceFields DEF CopiesAreSound, TypeOK, Reported, StatusWriteAccepted
<1>2. /\ ws' = v /\ cacheFresh' = (cacheFresh /\ v = ws) /\ cache' = cache
  BY DEF Reported, StatusWriteAccepted, Store
<1>3. /\ v \in Workspace /\ v.conds = c /\ v.tracked = mem.tracked
      /\ v.exists = ws.exists /\ v.deleting = ws.deleting
      /\ v.finalizer = ws.finalizer /\ v.label = ws.label
      /\ v.desired = ws.desired /\ v.ref = ws.ref /\ v.ver = ws.ver
  BY <1>1 DEF Workspace
<1> HIDE DEF v
<1>4. SameButTracked(mem, ws) /\ pc # "idle"
  BY <1>1 DEF CopiesAreSound, CopiesInv
<1>5. mem' = NoWorkspace \/ mem' = [mem EXCEPT !.conds = c]
  BY DEF Reported
<1>6. CASE pc' = "idle" /\ mem' = NoWorkspace /\ memFresh' = FALSE
  <2>1. TypeOK'
    BY <1>1, <1>2, <1>3, <1>6, EmptyObjects DEF CopiesAreSound, TypeOK, OtherTypes, Steps
  <2>2. StoredInv'
    BY <1>2, <1>3, <1>4 DEF StoredInv, Reported, SameButTracked
  <2>3. CopiesInv'
    BY <1>2, <1>3, <1>4, <1>6, EmptyObjects
    DEF CopiesAreSound, CopiesInv, Reported, SameButTracked
  <2>4. PassInv'
    BY <1>6 DEF PassInv, RunSteps, StopSteps, DeleteSteps
  <2> QED
    BY <2>1, <2>2, <2>3, <2>4 DEF CopiesAreSound
<1>7. CASE /\ memFresh' = memFresh /\ mem' = [mem EXCEPT !.conds = c]
           /\ \/ pc = "runningStatus" /\ pc' = "idleCheck" /\ c = {"Available"}
              \/ pc = "deletingStatus" /\ pc' = "cleanupAccess" /\ c = {"Deleting"}
  <2>0. /\ mem' \in Workspace /\ mem'.conds = c
        /\ mem'.exists = mem.exists /\ mem'.deleting = mem.deleting
        /\ mem'.finalizer = mem.finalizer /\ mem'.label = mem.label
        /\ mem'.desired = mem.desired /\ mem'.ref = mem.ref /\ mem'.ver = mem.ver
    BY <1>1, <1>7 DEF Workspace
  <2>1. TypeOK'
    BY <1>1, <1>2, <1>3, <1>7, <2>0
    DEF CopiesAreSound, TypeOK, OtherTypes, Steps, RunSteps, DeleteSteps
  <2>2. StoredInv'
    BY <1>2, <1>3, <1>4 DEF StoredInv, Reported, SameButTracked
  <2>3. CopiesInv'
    BY <1>2, <1>3, <1>4, <1>7, <2>0
    DEF CopiesAreSound, CopiesInv, Reported, SameButTracked
  <2>4. PassInv'
    BY <1>2, <1>3, <1>4, <1>7, <2>0
    DEF CopiesAreSound, PassInv, SameButTracked, RunSteps, StopSteps, DeleteSteps
  <2> QED
    BY <2>1, <2>2, <2>3, <2>4 DEF CopiesAreSound
<1> QED
  BY <1>6, <1>7 DEF Reported

-----------------------------------------------------------------------------
(* Which kind each action is: the passes *)

\* How the pieces of a pass act on its other variables.
LEMMA DoneStep ==
  ASSUME OtherTypes, NEW b \in BOOLEAN, Done(b)
  PROVE  /\ pc' = "idle" /\ mem' = NoWorkspace /\ memFresh' = FALSE
         /\ todo' \subseteq Resources /\ view' \in View /\ queued' \in BOOLEAN
<1>1. queued' \in BOOLEAN
  BY DEF OtherTypes, Done
<1> QED
  BY <1>1, EmptyObjects DEF Done

\* A fault keeps the count of faults a number.
LEMMA FaultStep ==
  ASSUME OtherTypes, NEW k, Fault(k)
  PROVE  faults' \in Nat
  BY DEF Fault, OtherTypes

\* A new Deployment, and one of which a field is set, is a Deployment.
LEMMA DeploymentFields ==
  ASSUME NEW d \in Deployment, NEW n \in Nat
  PROVE  /\ [st |-> "pending", term |-> FALSE, ver |-> n] \in Deployment
         /\ [d EXCEPT !.ver = n] \in Deployment
         /\ [d EXCEPT !.term = TRUE] \in Deployment
         /\ [d EXCEPT !.st = "ready"] \in Deployment
         /\ [d EXCEPT !.st = "pending"] \in Deployment
  BY DEF Deployment

\* What a pass has read keeps its type when one object in it is replaced.
LEMMA ViewFields ==
  ASSUME NEW w \in View, NEW d \in Deployment, NEW o \in ObjStates
  PROVE  /\ [w EXCEPT !.dep = d] \in View /\ [w EXCEPT !.svc = o] \in View
         /\ [w EXCEPT !.accessErr = TRUE] \in View
         /\ w.strat.tmpl \subseteq Resources /\ w.strat.ver \in Nat
  BY DEF View, Strategy

\* The working copy is a Workspace and agrees with itself.
LEMMA MemSame ==
  ASSUME CopyTypes
  PROVE  mem \in Workspace /\ SameButTracked(mem, mem) /\ mem.ver \in Nat
         /\ mem.tracked \subseteq Resources
  BY WorkspaceFields DEF CopyTypes, SameButTracked

\* The steps of a Running pass up to its status write.
LEMMA RunningStepsQuiet ==
  ASSUME CopyTypes, OtherTypes
  PROVE  /\ EnsurePVCExists => Quiet /\ OtherTypes'
         /\ EnsureDeploymentExists => Quiet /\ OtherTypes'
         /\ EnsureServiceExists => Quiet /\ OtherTypes'
         /\ AccessResourcesEnsured => Quiet /\ OtherTypes'
         /\ ProbeAccessStartup => Quiet /\ OtherTypes'
         /\ CheckWorkspaceIdle => Quiet /\ OtherTypes'
         /\ AccessStrategyError => Quiet /\ OtherTypes'
<1> USE MemSame DEF clusterVars, informerVars, passVars
<1>1. ASSUME EnsurePVCExists PROVE Quiet /\ OtherTypes'
  <2>1. Proceed
    BY <1>1 DEF EnsurePVCExists, FailWithErrorStatus, Continue, Proceed, RunSteps
  <2>2. OtherTypes'
    BY <1>1, FaultStep
    DEF EnsurePVCExists, FailWithErrorStatus, Continue, OtherTypes, ObjStates
  <2> QED
    BY <2>1, <2>2 DEF Quiet
<1>2. ASSUME EnsureDeploymentExists PROVE Quiet /\ OtherTypes'
  <2>1. Proceed
    BY <1>2 DEF EnsureDeploymentExists, FailWithErrorStatus, Continue, Proceed, RunSteps
  <2>2. dep' \in Deployment
    BY <1>2, DeploymentFields, ZenonT(60)
    DEF EnsureDeploymentExists, FailWithErrorStatus, OtherTypes
  <2>3. view' \in View
    <3>1. \/ view' = [view EXCEPT !.dep = dep'] \/ view' = [view EXCEPT !.dep = cdep]
          \/ view' = view
      BY <1>2 DEF EnsureDeploymentExists, FailWithErrorStatus
    <3>2. view \in View /\ cdep \in Deployment BY DEF OtherTypes
    <3>3. view.svc \in ObjStates BY <3>2 DEF View
    <3> QED BY <2>2, <3>1, <3>2, <3>3, ViewFields
  <2>4. OtherTypes'
    BY <1>2, <2>2, <2>3, FaultStep
    DEF EnsureDeploymentExists, FailWithErrorStatus, Continue, OtherTypes
  <2> QED
    BY <2>1, <2>4 DEF Quiet
<1>3. ASSUME EnsureServiceExists PROVE Quiet /\ OtherTypes'
  <2>1. Proceed
    BY <1>3 DEF EnsureServiceExists, FailWithErrorStatus, Continue, Proceed, RunSteps
  <2>2. todo' \subseteq Resources
    BY <1>3, ViewFields, EmptyObjects
    DEF EnsureServiceExists, FailWithErrorStatus, OtherTypes
  <2>3. OtherTypes'
    BY <1>3, <2>2, FaultStep
    DEF EnsureServiceExists, FailWithErrorStatus, Continue, OtherTypes, ObjStates
  <2> QED
    BY <2>1, <2>3 DEF Quiet
<1>4. ASSUME AccessResourcesEnsured PROVE Quiet /\ OtherTypes'
  BY <1>4 DEF AccessResourcesEnsured, Continue, Quiet, Proceed, RunSteps, OtherTypes
<1>5. ASSUME ProbeAccessStartup PROVE Quiet /\ OtherTypes'
  <2>1. CASE pc' = "idle"
    BY <1>5, <2>1, DoneStep, FaultStep
    DEF ProbeAccessStartup, Continue, Quiet, Finish, OtherTypes
  <2>2. CASE pc' # "idle"
    BY <1>5, <2>2, FaultStep
    DEF ProbeAccessStartup, Continue, Done, Quiet, Proceed, RunSteps, OtherTypes
  <2> QED
    BY <2>1, <2>2
<1>6. ASSUME CheckWorkspaceIdle PROVE Quiet /\ OtherTypes'
  <2>1. CASE pc' = "idle"
    BY <1>6, <2>1, DoneStep, FaultStep
    DEF CheckWorkspaceIdle, Continue, Quiet, Finish, OtherTypes
  <2>2. CASE pc' # "idle"
    BY <1>6, <2>2
    DEF CheckWorkspaceIdle, Continue, Done, Quiet, Proceed, RunSteps, OtherTypes
  <2> QED
    BY <2>1, <2>2
<1>7. ASSUME AccessStrategyError PROVE Quiet /\ OtherTypes'
  BY <1>7, FaultStep DEF AccessStrategyError, Quiet, Elsewhere, OtherTypes
<1> QED
  BY <1>1, <1>2, <1>3, <1>4, <1>5, <1>6, <1>7

\* The steps that create, update and delete access resources.
LEMMA AccessStepsQuiet ==
  ASSUME CopyTypes, OtherTypes
  PROVE  /\ \A r \in Resources : EnsureAccessResource(r) => Quiet /\ OtherTypes'
         /\ \A r \in Resources : DeleteAccessResource(r) => Quiet /\ OtherTypes'
         /\ AccessResourcesDeleted => Quiet /\ OtherTypes'
<1> USE MemSame
<1>1. ASSUME NEW r \in Resources, EnsureAccessResource(r)
      PROVE  Quiet /\ OtherTypes'
  <2>1. CASE Done(TRUE)
    BY <1>1, <2>1, DoneStep, FaultStep
    DEF EnsureAccessResource, Continue, Quiet, Finish, OtherTypes, informerVars
  <2>2. CASE ~Done(TRUE)
    <3>1. PICK m \in {mem, [mem EXCEPT !.tracked = @ \cup {r}]} : Continue(pc, m)
      BY <1>1, <2>2 DEF EnsureAccessResource
    <3>2. m \in Workspace /\ SameButTracked(m, mem)
      BY WorkingCopyFields
    <3>3. Proceed
      BY <1>1, <3>1, <3>2
      DEF EnsureAccessResource, Continue, Proceed, RunSteps, informerVars
    <3>4. res' \in [Resources -> AccessResource]
      <4>1. /\ res[r] \in AccessResource /\ res[r].st \in ObjStates
            /\ view.strat.ver \in Nat /\ view \in View
        BY ViewFields DEF OtherTypes, AccessResource, View, Strategy
      <4>2. ASSUME NEW st \in ObjStates, NEW own \in BOOLEAN
            PROVE  [st |-> st, owned |-> own, ver |-> view.strat.ver] \in AccessResource
        BY <4>1 DEF AccessResource
      <4> QED
        BY <1>1, <2>2, <4>1, <4>2 DEF EnsureAccessResource, OtherTypes, ObjStates
    <3>5. OtherTypes'
      BY <1>1, <2>2, <3>1, <3>4
      DEF EnsureAccessResource, Continue, OtherTypes, informerVars
    <3> QED
      BY <3>3, <3>5 DEF Quiet
  <2> QED
    BY <2>1, <2>2
<1>2. ASSUME NEW r \in Resources, DeleteAccessResource(r)
      PROVE  Quiet /\ OtherTypes'
  <2>1. CASE Done(TRUE)
    BY <1>2, <2>1, DoneStep, FaultStep
    DEF DeleteAccessResource, Quiet, Finish, OtherTypes, informerVars, Continue,
        DeletingAccess
  <2>2. CASE ~Done(TRUE)
    <3>1. Proceed
      BY <1>2, <2>2
      DEF DeleteAccessResource, Continue, Proceed, RunSteps, StopSteps, DeleteSteps,
          informerVars, DeletingAccess, AfterAccess
    <3>2. res' \in [Resources -> AccessResource]
      <4>1. res[r] \in AccessResource /\ res[r].st \in ObjStates
        BY DEF OtherTypes, AccessResource
      <4>2. \A st \in AfterDelete(res[r].st) : st \in ObjStates
        BY <4>1 DEF AfterDelete, ObjStates
      <4>3. \A st \in ObjStates : [res[r] EXCEPT !.st = st] \in AccessResource
        BY <4>1 DEF AccessResource
      <4>4. CASE UNCHANGED res
        BY <4>4 DEF OtherTypes
      <4>5. CASE res' # res
        <5>1. PICK st \in AfterDelete(res[r].st) :
                res' = [res EXCEPT ![r] = IF st = "absent" THEN NoResource
                                          ELSE [@ EXCEPT !.st = st]]
          BY <1>2, <4>5 DEF DeleteAccessResource
        <5>2. [res[r] EXCEPT !.st = st] \in AccessResource
          BY <4>2, <4>3
        <5> QED
          BY <5>1, <5>2, EmptyObjects DEF OtherTypes
      <4> QED
        BY <4>4, <4>5
    <3>3. view' \in View /\ todo' \subseteq Resources
      BY <1>2, <2>2, ViewFields DEF DeleteAccessResource, OtherTypes
    <3>4. OtherTypes'
      BY <1>2, <2>2, <3>2, <3>3, FaultStep
      DEF DeleteAccessResource, Continue, OtherTypes, informerVars
    <3> QED
      BY <3>1, <3>4 DEF Quiet
  <2> QED
    BY <2>1, <2>2
<1>3. ASSUME AccessResourcesDeleted PROVE Quiet /\ OtherTypes'
  <2>1. PICK t \in SUBSET Resources : mem' = [mem EXCEPT !.tracked = t]
    BY <1>3 DEF AccessResourcesDeleted, Continue
  <2>2. Proceed
    BY <1>3, <2>1, WorkingCopyFields
    DEF AccessResourcesDeleted, Continue, Proceed, RunSteps, StopSteps, DeleteSteps,
        informerVars, DeletingAccess, AfterAccess
  <2> QED
    BY <1>3, <2>2
    DEF AccessResourcesDeleted, Continue, Quiet, OtherTypes, informerVars, clusterVars
<1> QED
  BY <1>1, <1>2, <1>3

\* The steps of a stop and of a deletion between the access resources and the
\* status write or the Update at the end.
LEMMA DeletingStepsQuiet ==
  ASSUME CopyTypes, OtherTypes
  PROVE  /\ EnsureDeploymentDeleted => Quiet /\ OtherTypes'
         /\ EnsureServiceDeleted => Quiet /\ OtherTypes'
         /\ EnsurePVCDeleted => Quiet /\ OtherTypes'
         /\ CheckAllResourcesDeleted => Quiet /\ OtherTypes'
<1> USE MemSame DEF clusterVars, informerVars, passVars
<1>1. ASSUME EnsureDeploymentDeleted PROVE Quiet /\ OtherTypes'
  <2>1. Finish \/ Proceed
    BY <1>1
    DEF EnsureDeploymentDeleted, DeleteFails, FailWithErrorStatus, Done, Continue,
        Finish, Proceed, StopSteps, DeleteSteps
  <2>2. dep' \in Deployment
    BY <1>1, DeploymentFields, EmptyObjects
    DEF EnsureDeploymentDeleted, DepAfterDelete, OtherTypes
  <2>3. view' \in View /\ todo' \subseteq Resources /\ queued' \in BOOLEAN
    BY <1>1, ViewFields, DoneStep
    DEF EnsureDeploymentDeleted, DeleteFails, FailWithErrorStatus, Continue, OtherTypes
  <2>4. OtherTypes'
    BY <1>1, <2>2, <2>3, FaultStep DEF EnsureDeploymentDeleted, OtherTypes
  <2> QED
    BY <2>1, <2>4 DEF Quiet
<1>2. ASSUME EnsureServiceDeleted PROVE Quiet /\ OtherTypes'
  <2>1. Finish \/ Proceed
    BY <1>2
    DEF EnsureServiceDeleted, DeleteFails, FailWithErrorStatus, Done, Continue,
        Finish, Proceed, StopSteps, DeleteSteps, StopOutcome
  <2>2. svc' \in ObjStates
    BY <1>2 DEF EnsureServiceDeleted, AfterDelete, OtherTypes, ObjStates
  <2>3. view' \in View /\ todo' \subseteq Resources /\ queued' \in BOOLEAN
    BY <1>2, ViewFields, DoneStep
    DEF EnsureServiceDeleted, DeleteFails, FailWithErrorStatus, Continue, OtherTypes
  <2>4. OtherTypes'
    BY <1>2, <2>2, <2>3, FaultStep DEF EnsureServiceDeleted, OtherTypes
  <2> QED
    BY <2>1, <2>4 DEF Quiet
<1>3. ASSUME EnsurePVCDeleted PROVE Quiet /\ OtherTypes'
  <2>1. Finish \/ Proceed
    BY <1>3 DEF EnsurePVCDeleted, Done, Continue, Finish, Proceed, DeleteSteps
  <2>2. pvc' \in ObjStates
    BY <1>3 DEF EnsurePVCDeleted, AfterDelete, OtherTypes, ObjStates
  <2>3. view' \in View /\ todo' \subseteq Resources /\ queued' \in BOOLEAN
    BY <1>3, DoneStep DEF EnsurePVCDeleted, Continue, OtherTypes
  <2>4. OtherTypes'
    BY <1>3, <2>2, <2>3, FaultStep DEF EnsurePVCDeleted, OtherTypes
  <2> QED
    BY <2>1, <2>4 DEF Quiet
<1>4. ASSUME CheckAllResourcesDeleted PROVE Quiet /\ OtherTypes'
  <2>1. Finish \/ Proceed
    BY <1>4 DEF CheckAllResourcesDeleted, Done, Continue, Finish, Proceed, DeleteSteps
  <2>2. view' \in View /\ todo' \subseteq Resources /\ queued' \in BOOLEAN
    BY <1>4, DoneStep DEF CheckAllResourcesDeleted, Continue, OtherTypes
  <2> QED
    BY <1>4, <2>1, <2>2 DEF CheckAllResourcesDeleted, OtherTypes, Quiet
<1> QED
  BY <1>1, <1>2, <1>3, <1>4

\* What Kubernetes, the other informers and an edit of the strategy do.
LEMMA OthersQuiet ==
  ASSUME CopyTypes, OtherTypes,
         \/ EditAccessStrategy \/ Kubernetes
         \/ DeploymentEvent \/ ServiceEvent \/ PVCEvent
  PROVE  Quiet /\ OtherTypes'
<1> USE DEF clusterVars, informerVars, passVars
<1>1. CASE EditAccessStrategy
  <2>1. cache.exists \in BOOLEAN /\ cache.label \in BOOLEAN /\ cache.ref \in BOOLEAN
    BY WorkspaceFields DEF CopyTypes
  <2>2. queued' \in BOOLEAN
    BY <1>1, <2>1 DEF EditAccessStrategy, OtherTypes
  <2>3. strat' \in Strategy /\ ops' \in Nat
    BY <1>1 DEF EditAccessStrategy, OtherTypes, Strategy
  <2> QED
    BY <1>1, <2>2, <2>3 DEF EditAccessStrategy, Quiet, Elsewhere, OtherTypes
<1>2. CASE DeploymentReady \/ DeploymentUnready \/ DeploymentGone
  <2>1. dep' \in Deployment
    BY <1>2, DeploymentFields, EmptyObjects
    DEF DeploymentReady, DeploymentUnready, DeploymentGone, OtherTypes
  <2> QED
    BY <1>2, <2>1, FaultStep
    DEF DeploymentReady, DeploymentUnready, DeploymentGone, Quiet, Elsewhere, OtherTypes
<1>3. CASE ServiceGone \/ PVCGone
  BY <1>3 DEF ServiceGone, PVCGone, Quiet, Elsewhere, OtherTypes, ObjStates
<1>4. ASSUME NEW r \in Resources, AccessResourceGone(r)
      PROVE  Quiet /\ OtherTypes'
  <2>1. queued' \in BOOLEAN
    BY <1>4 DEF AccessResourceGone, OtherTypes
  <2>2. res' \in [Resources -> AccessResource]
    BY <1>4, EmptyObjects DEF AccessResourceGone, OtherTypes
  <2> QED
    BY <1>4, <2>1, <2>2, FaultStep
    DEF AccessResourceGone, Quiet, Elsewhere, OtherTypes
<1>5. CASE DeploymentEvent \/ ServiceEvent \/ PVCEvent
  BY <1>5 DEF DeploymentEvent, ServiceEvent, PVCEvent, Quiet, Elsewhere, OtherTypes
<1> QED
  BY <1>1, <1>2, <1>3, <1>4, <1>5 DEF Kubernetes

\* The status writes of the controller: accepted or rejected, and in the first
\* case with conditions that fit the working copy.
LEMMA StatusWrites ==
  ASSUME CopiesAreSound,
         \/ UpdateRunningStatus \/ UpdateStartingStatus
         \/ UpdatePermanentDegradedRunningStatus \/ UpdateErrorStatus
         \/ UpdateStoppingStatus \/ UpdateStoppedStatus \/ UpdateDeletingStatus
  PROVE  /\ Quiet \/ \E c \in ReportedConditions : Reported(c)
         /\ OtherTypes'
<1>0. CopyTypes /\ OtherTypes /\ mem.conds \in ReportedConditions
  BY TypeParts, WorkspaceFields DEF CopiesAreSound, CopyTypes
<1>1. \A x : {x} \in ReportedConditions <=> x \in Conditions
  BY LegalConditions DEF ReportedConditions
<1>2. ASSUME NEW c \in ReportedConditions, NEW b \in BOOLEAN, FinishWithStatus(c, b),
             Answers(c), "Deleting" \notin c, mem.exists, mem.finalizer, ~mem.deleting
      PROVE  (Quiet \/ Reported(c)) /\ OtherTypes'
  <2>1. PICK q \in BOOLEAN : Done(q)
    BY <1>2 DEF FinishWithStatus
  <2>2. Quiet \/ Reported(c)
    BY <1>0, <1>2, <2>1, DoneStep
    DEF FinishWithStatus, WriteRejected, Quiet, Finish, Reported
  <2>3. OtherTypes'
    BY <1>0, <1>2, <2>1, DoneStep, FaultStep
    DEF FinishWithStatus, WriteRejected, OtherTypes, clusterVars
  <2> QED
    BY <2>2, <2>3
<1>3. CASE UpdateStartingStatus \/ UpdatePermanentDegradedRunningStatus
             \/ UpdateStoppingStatus \/ UpdateStoppedStatus
  <2>1. /\ mem.exists /\ mem.finalizer /\ ~mem.deleting
        /\ UpdateStoppedStatus => mem.desired = "Stopped"
    BY <1>3
    DEF CopiesAreSound, PassInv, RunSteps, StopSteps, UpdateStartingStatus,
        UpdatePermanentDegradedRunningStatus, UpdateStoppingStatus, UpdateStoppedStatus
  <2>2. PICK x \in {"Progressing", "Degraded", "Stopped"}, b \in BOOLEAN :
          FinishWithStatus({x}, b) /\ (x = "Stopped" => UpdateStoppedStatus)
    BY <1>3
    DEF UpdateStartingStatus, UpdatePermanentDegradedRunningStatus,
        UpdateStoppingStatus, UpdateStoppedStatus
  <2>3. Answers({x}) /\ {x} \in ReportedConditions
    BY <1>1, <2>1, <2>2 DEF Answers, Conditions
  <2> QED
    BY <1>2, <2>1, <2>2, <2>3
<1>4. CASE UpdateErrorStatus
  <2>1. mem.exists /\ mem.finalizer /\ ~mem.deleting /\ "Deleting" \notin mem.conds
    BY <1>4 DEF CopiesAreSound, CopiesInv, PassInv, UpdateErrorStatus
  <2>2. mem.conds \cup {"Degraded"} \in ReportedConditions
    BY <1>0, <2>1, LegalConditions
  <2>3. Answers(mem.conds \cup {"Degraded"})
    BY DEF Answers
  <2> QED
    BY <1>2, <1>4, <2>1, <2>2, <2>3 DEF UpdateErrorStatus
<1>5. CASE UpdateRunningStatus
  <2>1. mem.exists /\ mem.finalizer /\ ~mem.deleting /\ Answers({"Available"})
    BY <1>5 DEF CopiesAreSound, PassInv, RunSteps, UpdateRunningStatus, Answers
  <2>2. Quiet \/ Reported({"Available"})
    BY <1>0, <1>1, <1>5, <2>1, DoneStep
    DEF UpdateRunningStatus, WriteRejected, Quiet, Finish, Reported, Continue, Conditions
  <2>3. OtherTypes'
    BY <1>0, <1>5, DoneStep, FaultStep
    DEF UpdateRunningStatus, WriteRejected, OtherTypes, Continue, clusterVars
  <2> QED
    BY <1>1, <2>2, <2>3 DEF Conditions
<1>6. CASE UpdateDeletingStatus
  <2>1. mem.exists /\ mem.finalizer /\ mem.deleting /\ Answers({"Deleting"})
    BY <1>6 DEF CopiesAreSound, PassInv, DeleteSteps, UpdateDeletingStatus, Answers
  <2>2. Quiet \/ Reported({"Deleting"})
    BY <1>0, <1>1, <1>6, <2>1, DoneStep
    DEF UpdateDeletingStatus, WriteRejected, Quiet, Finish, Reported, Continue, Conditions
  <2>3. OtherTypes'
    BY <1>0, <1>6, DoneStep, FaultStep, MemSame
    DEF UpdateDeletingStatus, WriteRejected, OtherTypes, Continue, clusterVars
  <2> QED
    BY <1>1, <2>2, <2>3 DEF Conditions
<1> QED
  BY <1>3, <1>4, <1>5, <1>6

-----------------------------------------------------------------------------
(* Steps that store another Workspace, or copy it *)

\* A write that keeps the Workspace, its finalizer, its conditions and a
\* deletion, or removes one that the controller does not protect yet, keeps the
\* invariant, in the middle of a pass or at its end.
LEMMA StoreSound ==
  ASSUME CopiesAreSound, OtherTypes', NEW v \in Workspace, Store(v),
         memFresh' = FALSE,
         \/ UNCHANGED <<pc, mem>>
         \/ pc' = "idle" /\ mem' = NoWorkspace,
         \/ /\ ws.exists /\ v.exists /\ v.conds = ws.conds
            /\ ws.finalizer => v.finalizer
            /\ ws.deleting => v.deleting
            /\ v.deleting => v.finalizer
         \/ v = NoWorkspace /\ ~ws.finalizer
  PROVE  CopiesAreSound'
<1>1. ws' = v /\ cache' = cache /\ cacheFresh' = (cacheFresh /\ v = ws)
  BY DEF Store
<1>2. mem' \in Workspace /\ pc' \in Steps /\ cacheFresh' \in BOOLEAN
  BY <1>1, EmptyObjects DEF CopiesAreSound, TypeOK, Steps
<1>3. TypeOK'
  BY <1>1, <1>2 DEF CopiesAreSound, TypeOK, OtherTypes
<1>4. StoredInv'
  BY <1>1, EmptyObjects DEF CopiesAreSound, StoredInv
<1>5. CopiesInv'
  BY <1>1, EmptyObjects DEF CopiesAreSound, CopiesInv
<1>6. PassInv'
  BY <1>1, EmptyObjects
  DEF CopiesAreSound, StoredInv, PassInv, RunSteps, StopSteps, DeleteSteps
<1> QED
  BY <1>3, <1>4, <1>5, <1>6 DEF CopiesAreSound

\* The three Updates of the controller.
LEMMA UpdatesSound ==
  ASSUME CopiesAreSound,
         UpdateMetadata \/ StopWorkspaceDueToIdle \/ RemoveFinalizer
  PROVE  CopiesAreSound'
<1>0. CopyTypes /\ OtherTypes
  BY TypeParts DEF CopiesAreSound
<1>1. PICK b \in BOOLEAN : Done(b)
  BY DEF UpdateMetadata, StopWorkspaceDueToIdle, RemoveFinalizer
<1>2. OtherTypes'
  BY <1>0, <1>1, DoneStep, FaultStep
  DEF UpdateMetadata, StopWorkspaceDueToIdle, RemoveFinalizer, WriteRejected,
      OtherTypes, clusterVars
<1>3. CASE WriteRejected
  <2>1. Quiet
    BY <1>0, <1>1, <1>3, DoneStep DEF Quiet, Finish, WriteRejected
  <2> QED
    BY <1>2, <2>1, QuietSound
<1>4. ASSUME memFresh
      PROVE  /\ SameButTracked(mem, ws) /\ mem \in Workspace /\ ws \in Workspace
             /\ ws.conds \in ReportedConditions /\ ws.tracked \subseteq Resources
  BY <1>0, <1>4, WorkspaceFields DEF CopiesAreSound, CopiesInv, CopyTypes
<1>5. /\ pc' = "idle" /\ mem' = NoWorkspace /\ memFresh' = FALSE
  BY <1>0, <1>1, DoneStep
<1>6. CASE UpdateMetadata /\ ~WriteRejected
  <2> DEFINE w == [mem EXCEPT !.finalizer = TRUE, !.label = mem.ref]
             v == [w EXCEPT !.conds = ws.conds, !.tracked = ws.tracked]
  <2>1. UpdateAccepted(w) /\ memFresh
    BY <1>6 DEF UpdateMetadata, UpdateAccepted
  <2>2. /\ w \in Workspace /\ w.finalizer /\ w.exists = mem.exists
        /\ w.deleting = mem.deleting
    BY <1>4, <2>1 DEF Workspace
  <2> HIDE DEF w
  <2>3. /\ v \in Workspace /\ v.exists = w.exists /\ v.deleting = w.deleting
        /\ v.finalizer = w.finalizer /\ v.conds = ws.conds
    BY <1>4, <2>1, <2>2 DEF Workspace
  <2>4. Store(v)
    BY <2>1, <2>2 DEF UpdateAccepted
  <2> HIDE DEF v
  <2>5. mem.exists
    BY <1>6 DEF UpdateMetadata, CopiesAreSound, PassInv
  <2> QED
    BY <1>2, <1>4, <1>5, <2>1, <2>2, <2>3, <2>4, <2>5, StoreSound DEF SameButTracked
<1>7. CASE StopWorkspaceDueToIdle /\ ~WriteRejected
  <2> DEFINE w == [mem EXCEPT !.desired = "Stopped"]
             v == [w EXCEPT !.conds = ws.conds, !.tracked = ws.tracked]
  <2>1. UpdateAccepted(w) /\ memFresh
    BY <1>7 DEF StopWorkspaceDueToIdle, UpdateAccepted
  <2>2. /\ w \in Workspace /\ w.finalizer = mem.finalizer /\ w.exists = mem.exists
        /\ w.deleting = mem.deleting
    BY <1>4, <2>1 DEF Workspace
  <2>3. mem.exists /\ mem.finalizer /\ ~mem.deleting
    BY <1>7 DEF StopWorkspaceDueToIdle, CopiesAreSound, PassInv, RunSteps
  <2> HIDE DEF w
  <2>4. /\ v \in Workspace /\ v.exists = w.exists /\ v.deleting = w.deleting
        /\ v.finalizer = w.finalizer /\ v.conds = ws.conds
    BY <1>4, <2>1, <2>2 DEF Workspace
  <2>5. Store(v)
    BY <2>1, <2>2, <2>3 DEF UpdateAccepted
  <2> HIDE DEF v
  <2> QED
    BY <1>2, <1>4, <1>5, <2>1, <2>2, <2>3, <2>4, <2>5, StoreSound DEF SameButTracked
<1>8. CASE RemoveFinalizer /\ ~WriteRejected
  <2> DEFINE w == [mem EXCEPT !.finalizer = FALSE]
  <2>1. UpdateAccepted(w) /\ memFresh
    BY <1>8 DEF RemoveFinalizer, UpdateAccepted
  <2>2. mem.deleting /\ (cache.exists => cache.deleting)
    BY <1>8 DEF RemoveFinalizer, CopiesAreSound, PassInv, DeleteSteps
  <2>3. ~w.finalizer /\ w.deleting
    BY <1>4, <2>1, <2>2 DEF Workspace
  <2> HIDE DEF w
  <2>4. ws' = NoWorkspace /\ cache' = cache /\ cacheFresh' = (cacheFresh /\ NoWorkspace = ws)
    BY <2>1, <2>3 DEF UpdateAccepted, Store
  <2>5. TypeOK'
    BY <1>0, <1>2, <1>5, <2>4, EmptyObjects DEF CopyTypes, OtherTypes, TypeOK, Steps
  <2>6. StoredInv' /\ CopiesInv'
    BY <1>5, <2>2, <2>4, EmptyObjects DEF CopiesAreSound, StoredInv, CopiesInv
  <2>7. PassInv'
    BY <1>5 DEF PassInv, RunSteps, StopSteps, DeleteSteps
  <2> QED
    BY <2>5, <2>6, <2>7 DEF CopiesAreSound
<1> QED
  BY <1>3, <1>6, <1>7, <1>8

\* Users, and the preemption watch on their behalf.
LEMMA UserWritesSound ==
  ASSUME CopiesAreSound,
         \/ SetDesiredStatus \/ SetAccessStrategyRef \/ EditSpec \/ DeleteWorkspace
         \/ HandlePreemption
  PROVE  CopiesAreSound'
<1>0. CopyTypes /\ OtherTypes /\ ws \in Workspace
  BY TypeParts DEF CopiesAreSound, CopyTypes
<1>1. ASSUME NEW op, NEW v \in Workspace, UserWrite(op, v),
             \/ /\ v.exists = ws.exists /\ v.conds = ws.conds
                /\ v.finalizer = ws.finalizer
                /\ ws.deleting => v.deleting
                /\ v.deleting => (ws.deleting \/ ws.finalizer)
             \/ v = NoWorkspace /\ ~ws.finalizer
      PROVE  CopiesAreSound'
  <2>1. OtherTypes'
    BY <1>0, <1>1 DEF UserWrite, OtherTypes, clusterVars
  <2>2. Store(v) /\ memFresh' = FALSE /\ UNCHANGED <<pc, mem>> /\ ws.exists
    BY <1>1 DEF UserWrite
  <2>3. ws.deleting => ws.finalizer
    BY <2>2 DEF CopiesAreSound, StoredInv
  <2> QED
    BY <1>1, <2>1, <2>2, <2>3, StoreSound
<1>2. CASE SetDesiredStatus
  <2>1. PICK d \in {"Running", "Stopped"} : UserWrite("desired", [ws EXCEPT !.desired = d])
    BY <1>2 DEF SetDesiredStatus
  <2> DEFINE v == [ws EXCEPT !.desired = d]
  <2>2. /\ v \in Workspace /\ v.exists = ws.exists /\ v.conds = ws.conds
        /\ v.finalizer = ws.finalizer /\ v.deleting = ws.deleting
    BY <1>0 DEF Workspace
  <2> QED
    BY <1>1, <2>1, <2>2
<1>3. CASE SetAccessStrategyRef
  <2> DEFINE v == [ws EXCEPT !.ref = ~@]
  <2>1. /\ v \in Workspace /\ v.exists = ws.exists /\ v.conds = ws.conds
        /\ v.finalizer = ws.finalizer /\ v.deleting = ws.deleting
    BY <1>0 DEF Workspace
  <2> QED
    BY <1>1, <1>3, <2>1 DEF SetAccessStrategyRef
<1>4. CASE EditSpec
  <2> DEFINE v == [ws EXCEPT !.ver = @ + 1]
  <2>1. /\ v \in Workspace /\ v.exists = ws.exists /\ v.conds = ws.conds
        /\ v.finalizer = ws.finalizer /\ v.deleting = ws.deleting
    BY <1>0 DEF Workspace
  <2> QED
    BY <1>1, <1>4, <2>1 DEF EditSpec
<1>5. CASE DeleteWorkspace
  <2> DEFINE v == [ws EXCEPT !.deleting = TRUE]
  <2>1. /\ v \in Workspace /\ v.exists = ws.exists /\ v.conds = ws.conds
        /\ v.finalizer = ws.finalizer /\ v.deleting
    BY <1>0 DEF Workspace
  <2>2. CASE ws.finalizer
    BY <1>1, <1>5, <2>1, <2>2 DEF DeleteWorkspace
  <2>3. CASE ~ws.finalizer
    BY <1>1, <1>5, <2>3, EmptyObjects DEF DeleteWorkspace
  <2> QED
    BY <2>2, <2>3
<1>6. CASE HandlePreemption
  <2>1. OtherTypes'
    BY <1>0, <1>6 DEF HandlePreemption, OtherTypes, clusterVars
  <2>2. CASE cacheFresh /\ cache.exists
    <3> DEFINE v == [cache EXCEPT !.desired = "Stopped"]
    <3>1. cache = ws
      BY <2>2 DEF CopiesAreSound, CopiesInv
    <3>2. /\ v \in Workspace /\ v.exists = ws.exists /\ v.conds = ws.conds
          /\ v.finalizer = ws.finalizer /\ v.deleting = ws.deleting
      BY <1>0, <3>1 DEF Workspace
    <3>3. Store(v) /\ memFresh' = FALSE /\ UNCHANGED <<pc, mem>>
      BY <1>6, <2>2 DEF HandlePreemption
    <3>4. ws.exists /\ (ws.deleting => ws.finalizer)
      BY <2>2, <3>1 DEF CopiesAreSound, StoredInv
    <3> HIDE DEF v
    <3> QED
      BY <2>1, <3>2, <3>3, <3>4, StoreSound
  <2>3. CASE ~(cacheFresh /\ cache.exists)
    BY <1>6, <2>1, <2>3, QuietSound DEF HandlePreemption, Quiet, Elsewhere
  <2> QED
    BY <2>2, <2>3
<1> QED
  BY <1>2, <1>3, <1>4, <1>5, <1>6

\* The start of a pass, the informer that catches up, and a crash.
LEMMA CopyingSound ==
  ASSUME CopiesAreSound, Reconcile \/ WorkspaceEvent \/ Crash
  PROVE  CopiesAreSound'
<1>0. CopyTypes /\ OtherTypes
  BY TypeParts DEF CopiesAreSound
<1>1. CASE Reconcile
  <2>1. OtherTypes'
    <3>1. view' \in View
      BY <1>0, <1>1, EmptyObjects DEF Reconcile, passVars, OtherTypes, View
    <3>2. todo' \subseteq Resources /\ queued' \in BOOLEAN
      BY <1>0, <1>1, WorkspaceFields DEF Reconcile, passVars, OtherTypes, CopyTypes
    <3> QED
      BY <1>0, <1>1, <3>1, <3>2 DEF Reconcile, OtherTypes, clusterVars, informerVars
  <2>2. CASE FirstStep(cache) = "idle"
    BY <1>1, <2>1, <2>2, QuietSound
    DEF Reconcile, Quiet, Elsewhere, informerVars, passVars
  <2>3. CASE FirstStep(cache) # "idle"
    <3>1. /\ pc' = FirstStep(cache) /\ mem' = cache /\ memFresh' = cacheFresh
          /\ UNCHANGED <<ws, cache, cacheFresh>>
      BY <1>1, <2>3 DEF Reconcile, informerVars
    <3>2. \/ /\ pc' = "deletingStatus"
             /\ cache.exists /\ cache.deleting /\ cache.finalizer
          \/ pc' = "update" /\ cache.exists /\ ~cache.deleting
          \/ /\ cache.exists /\ ~cache.deleting /\ cache.finalizer
             /\ \/ pc' = "ensurePVC" /\ cache.desired = "Running"
                \/ pc' = "stopAccess" /\ cache.desired = "Stopped"
      BY <1>0, <2>3, <3>1, WorkspaceFields DEF FirstStep, NeedsUpdate, CopyTypes
    <3>3. TypeOK'
      BY <1>0, <2>1, <3>1, <3>2
      DEF CopyTypes, OtherTypes, TypeOK, Steps, RunSteps, StopSteps, DeleteSteps
    <3>4. StoredInv' /\ CopiesInv'
      BY <3>1, <3>2 DEF CopiesAreSound, StoredInv, CopiesInv, SameButTracked
    <3>5. PassInv'
      BY <3>1, <3>2
      DEF CopiesAreSound, CopiesInv, PassInv, RunSteps, StopSteps, DeleteSteps
    <3> QED
      BY <3>3, <3>4, <3>5 DEF CopiesAreSound
  <2> QED
    BY <2>2, <2>3
<1>2. CASE WorkspaceEvent
  <2>1. TypeOK'
    BY <1>0, <1>2
    DEF WorkspaceEvent, CopyTypes, OtherTypes, TypeOK, clusterVars, passVars
  <2>2. StoredInv' /\ CopiesInv'
    BY <1>2 DEF WorkspaceEvent, CopiesAreSound, StoredInv, CopiesInv, SameButTracked, passVars
  <2>3. PassInv'
    BY <1>2 DEF WorkspaceEvent, CopiesAreSound, PassInv, passVars
  <2> QED
    BY <2>1, <2>2, <2>3 DEF CopiesAreSound
<1>3. CASE Crash
  <2>1. TypeOK'
    BY <1>0, <1>3, EmptyObjects, FaultStep
    DEF Crash, CopyTypes, OtherTypes, TypeOK, clusterVars, Steps
  <2>2. StoredInv' /\ CopiesInv'
    BY <1>3, EmptyObjects DEF Crash, CopiesAreSound, StoredInv, CopiesInv
  <2>3. PassInv'
    BY <1>3 DEF Crash, PassInv, RunSteps, StopSteps, DeleteSteps
  <2> QED
    BY <2>1, <2>2, <2>3 DEF CopiesAreSound
<1> QED
  BY <1>1, <1>2, <1>3

-----------------------------------------------------------------------------
(* The theorems *)

\* The invariant holds in the initial states.
LEMMA InitSound == Init => CopiesAreSound
<1> SUFFICES ASSUME Init PROVE CopiesAreSound
  OBVIOUS
<1>1. PICK b \in BOOLEAN : ws = [NoWorkspace EXCEPT !.exists = TRUE, !.ref = b]
  BY DEF Init
<1>2. /\ ws \in Workspace /\ ws.exists /\ ~ws.deleting /\ ~ws.finalizer
      /\ ws.conds = {}
  BY <1>1, EmptyObjects DEF NoWorkspace, Workspace
<1>3. TypeOK
  BY <1>2, EmptyObjects DEF Init, TypeOK, Steps, ObjStates, Strategy
<1>4. StoredInv /\ CopiesInv
  BY <1>2, EmptyObjects DEF Init, StoredInv, CopiesInv
<1>5. PassInv
  BY DEF Init, PassInv, RunSteps, StopSteps, DeleteSteps
<1> QED
  BY <1>3, <1>4, <1>5 DEF CopiesAreSound

\* Every step keeps the invariant: one case for each kind of step.
LEMMA NextSound == CopiesAreSound /\ [Next]_vars => CopiesAreSound'
<1> SUFFICES ASSUME CopiesAreSound, [Next]_vars PROVE CopiesAreSound'
  OBVIOUS
<1>0. CopyTypes /\ OtherTypes
  BY TypeParts DEF CopiesAreSound
<1>1. CASE RunningPass
  BY <1>0, <1>1, RunningStepsQuiet, AccessStepsQuiet, StatusWrites, QuietSound,
     ReportedSound, UpdatesSound DEF RunningPass
<1>2. CASE StopOrDeletePass
  BY <1>0, <1>2, DeletingStepsQuiet, AccessStepsQuiet, StatusWrites, QuietSound,
     ReportedSound, UpdatesSound DEF StopOrDeletePass
<1>3. CASE Reconcile \/ AccessStrategyError \/ UpdateMetadata \/ UpdateErrorStatus
  BY <1>0, <1>3, CopyingSound, RunningStepsQuiet, StatusWrites, QuietSound,
     ReportedSound, UpdatesSound
<1>4. CASE User
  BY <1>0, <1>4, UserWritesSound, OthersQuiet, QuietSound DEF User
<1>5. CASE Kubernetes \/ Informers \/ Crash
  BY <1>0, <1>5, OthersQuiet, QuietSound, CopyingSound DEF Informers
<1>6. CASE UNCHANGED vars
  <2>1. Quiet /\ OtherTypes'
    BY <1>0, <1>6
    DEF vars, clusterVars, informerVars, passVars, Quiet, Elsewhere, OtherTypes
  <2> QED
    BY <2>1, QuietSound
<1> QED
  BY <1>1, <1>2, <1>3, <1>4, <1>5, <1>6 DEF Next, Pass

\* The copies of the Workspace are sound in every reachable state: whatever users,
\* lagging informers, conflicts and crashes do, no pass acts on a copy that is
\* wrong about the finalizer or takes back a deletion.
THEOREM CopiesAlwaysSound == Spec => []CopiesAreSound
<1>1. Init => CopiesAreSound
  BY InitSound
<1>2. CopiesAreSound /\ [Next]_vars => CopiesAreSound'
  BY NextSound
<1> QED
  BY <1>1, <1>2, PTL DEF Spec

\* Type correctness.
THEOREM TypeCorrect == Spec => []TypeOK
<1>1. CopiesAreSound => TypeOK
  BY DEF CopiesAreSound
<1> QED
  BY <1>1, CopiesAlwaysSound, PTL

\* Which steps can create something: the Running passes only.
LEMMA CreationNeedsRunningPass ==
  ASSUME OtherTypes, Next, pc \notin RunSteps
  PROVE  /\ dep.st = "absent" => dep'.st = "absent"
         /\ svc = "absent" => svc' = "absent"
         /\ pvc = "absent" => pvc' = "absent"
         /\ \A r \in Resources : res[r].st = "absent" => res'[r].st = "absent"
<1> USE DEF clusterVars
<1>1. CASE StopOrDeletePass
  <2>1. CASE EnsureDeploymentDeleted
    BY <2>1 DEF EnsureDeploymentDeleted
  <2>2. CASE EnsureServiceDeleted
    BY <2>2 DEF EnsureServiceDeleted
  <2>3. CASE EnsurePVCDeleted
    BY <2>3 DEF EnsurePVCDeleted
  <2>4. ASSUME NEW r \in Resources, DeleteAccessResource(r)
        PROVE  /\ UNCHANGED <<dep, svc, pvc>>
               /\ \A x \in Resources : res[x].st = "absent" => res'[x].st = "absent"
    <3>1. UNCHANGED <<dep, svc, pvc>>
      BY <2>4 DEF DeleteAccessResource
    <3>2. CASE UNCHANGED res
      BY <3>1, <3>2
    <3>3. CASE res' # res
      <4>1. PICK st \in AfterDelete(res[r].st) :
              res' = [res EXCEPT ![r] = IF st = "absent" THEN NoResource
                                        ELSE [@ EXCEPT !.st = st]]
        BY <2>4, <3>3 DEF DeleteAccessResource
      <4>2. res[r].st = "absent" => st = "absent"
        BY <4>1 DEF AfterDelete
      <4> QED
        BY <3>1, <4>1, <4>2 DEF NoResource, OtherTypes
    <3> QED
      BY <3>2, <3>3
  <2>5. CASE AccessResourcesDeleted \/ CheckAllResourcesDeleted
    BY <2>5 DEF AccessResourcesDeleted, CheckAllResourcesDeleted
  <2>6. CASE UpdateStoppingStatus \/ UpdateStoppedStatus \/ UpdateDeletingStatus
               \/ RemoveFinalizer
    BY <2>6 DEF UpdateStoppingStatus, UpdateStoppedStatus, UpdateDeletingStatus,
                RemoveFinalizer, FinishWithStatus
  <2> QED
    BY <1>1, <2>1, <2>2, <2>3, <2>4, <2>5, <2>6 DEF StopOrDeletePass
<1>2. CASE RunningPass
  BY <1>2
  DEF RunningPass, RunSteps, EnsurePVCExists, EnsureDeploymentExists,
      EnsureServiceExists, EnsureAccessResource, AccessResourcesEnsured,
      ProbeAccessStartup, UpdateRunningStatus, UpdateStartingStatus,
      UpdatePermanentDegradedRunningStatus, CheckWorkspaceIdle, StopWorkspaceDueToIdle
<1>3. CASE Reconcile \/ AccessStrategyError \/ UpdateMetadata \/ UpdateErrorStatus
  BY <1>3 DEF Reconcile, AccessStrategyError, UpdateMetadata, UpdateErrorStatus,
              FinishWithStatus
<1>4. CASE User
  BY <1>4 DEF User, SetDesiredStatus, SetAccessStrategyRef, EditSpec, DeleteWorkspace,
              UserWrite, HandlePreemption, EditAccessStrategy
<1>5. CASE Kubernetes
  <2>1. ASSUME NEW r \in Resources, AccessResourceGone(r)
        PROVE  /\ UNCHANGED <<dep, svc, pvc>>
               /\ \A x \in Resources : res[x].st = "absent" => res'[x].st = "absent"
    BY <2>1 DEF AccessResourceGone, NoResource, OtherTypes
  <2>2. CASE DeploymentReady \/ DeploymentUnready \/ DeploymentGone
    BY <2>2 DEF DeploymentReady, DeploymentUnready, DeploymentGone, OtherTypes, Deployment
  <2>3. CASE ServiceGone \/ PVCGone
    BY <2>3 DEF ServiceGone, PVCGone
  <2> QED
    BY <1>5, <2>1, <2>2, <2>3 DEF Kubernetes
<1>6. CASE Informers \/ Crash
  BY <1>6 DEF Informers, WorkspaceEvent, DeploymentEvent, ServiceEvent, PVCEvent, Crash
<1> QED
  BY <1>1, <1>2, <1>3, <1>4, <1>5, <1>6 DEF Next, Pass

\* No step creates anything for a Workspace that is gone: the finalizer, which a
\* pass adds before it creates anything, keeps the Workspace in place until the
\* pass is over, however old the copy is that the pass works on.
THEOREM NothingEverCreatedForGone == Spec => NothingCreatedForGone
<1>1. CopiesAreSound /\ [Next]_vars =>
        [~ws.exists =>
           /\ dep.st = "absent" => dep'.st = "absent"
           /\ svc = "absent" => svc' = "absent"
           /\ pvc = "absent" => pvc' = "absent"
           /\ \A r \in Resources : res[r].st = "absent" => res'[r].st = "absent"]_vars
  <2> SUFFICES ASSUME CopiesAreSound, Next, ~ws.exists
               PROVE  /\ dep.st = "absent" => dep'.st = "absent"
                      /\ svc = "absent" => svc' = "absent"
                      /\ pvc = "absent" => pvc' = "absent"
                      /\ \A r \in Resources :
                           res[r].st = "absent" => res'[r].st = "absent"
    OBVIOUS
  <2>1. OtherTypes
    BY TypeParts DEF CopiesAreSound
  <2>2. pc \notin RunSteps
    BY DEF CopiesAreSound, PassInv
  <2> QED
    BY <2>1, <2>2, CreationNeedsRunningPass
<1> QED
  BY <1>1, CopiesAlwaysSound, PTL DEF Spec, NothingCreatedForGone

-----------------------------------------------------------------------------
(***************************************************************************)
(* Refinement.  The workspace controller implements the contract of        *)
(* WorkspaceContract: every step of WorkspaceLifecycle is a step of the    *)
(* contract or leaves what the contract speaks of unchanged.               *)
(***************************************************************************)

\* What the contract sees of a Workspace.
Seen(w) == [exists |-> w.exists, deleting |-> w.deleting, desired |-> w.desired,
            ref |-> w.ref, ver |-> w.ver, conds |-> w.conds]

ContractStep == [Contract!Next]_(Contract!contractVars)

\* A step that changes nothing the contract speaks of.
LEMMA StutterStep ==
  ASSUME UNCHANGED <<ws, pvc, ops>>
  PROVE  ContractStep
  BY DEF ContractStep, Contract!contractVars

\* The initial states map to initial states.
LEMMA InitRefines == Init => Contract!Init
<1> SUFFICES ASSUME Init PROVE Contract!Init
  OBVIOUS
<1>1. PICK b \in BOOLEAN : ws = [NoWorkspace EXCEPT !.exists = TRUE, !.ref = b]
  BY DEF Init
<1>2. /\ ws.exists = TRUE /\ ws.deleting = FALSE /\ ws.desired = "Running"
      /\ ws.ref = b /\ ws.ver = 0 /\ ws.conds = {}
  BY <1>1 DEF NoWorkspace
<1> QED
  BY <1>2 DEF Init, Contract!Init

\* An accepted status write is a Report.
LEMMA ReportedRefines ==
  ASSUME CopiesAreSound, NEW c, Reported(c), UNCHANGED <<pvc, ops>>
  PROVE  ContractStep
<1>1. /\ ws \in Workspace /\ memFresh /\ SameButTracked(mem, ws)
      /\ ws' = [ws EXCEPT !.conds = c, !.tracked = mem.tracked]
  BY DEF Reported, StatusWriteAccepted, Store, CopiesAreSound, TypeOK, CopiesInv
<1>2. Seen(ws)' = [Seen(ws) EXCEPT !.conds = c]
  BY <1>1 DEF Seen, Workspace
<1>3. /\ ws.exists /\ ("Deleting" \in c <=> ws.deleting)
      /\ c = {"Available"} => ws.desired = "Running"
      /\ c = {"Stopped"} => ws.desired = "Stopped"
      /\ c \in {{"Available"}, {"Progressing"}, {"Degraded"}, {"Stopped"},
                {"Deleting"}, ws.conds \cup {"Degraded"}}
  BY <1>1 DEF Reported, Answers, SameButTracked
<1> QED
  BY <1>2, <1>3 DEF ContractStep, Contract!Next, Contract!Report, Seen

\* The Updates of the controller: metadata are invisible, an idle stop is
\* IdleStop, the end of a deletion is Vanish.
LEMMA UpdatesRefine ==
  ASSUME CopiesAreSound,
         UpdateMetadata \/ StopWorkspaceDueToIdle \/ RemoveFinalizer
  PROVE  ContractStep
<1>0. UNCHANGED <<pvc, ops>> /\ ws \in Workspace /\ mem \in Workspace
  BY DEF UpdateMetadata, StopWorkspaceDueToIdle, RemoveFinalizer, clusterVars,
         CopiesAreSound, TypeOK
<1>1. CASE WriteRejected
  BY <1>0, <1>1, StutterStep DEF WriteRejected
<1>2. memFresh => SameButTracked(mem, ws)
  BY DEF CopiesAreSound, CopiesInv
<1>3. CASE UpdateMetadata /\ ~WriteRejected
  <2> DEFINE w == [mem EXCEPT !.finalizer = TRUE, !.label = mem.ref]
             v == [w EXCEPT !.conds = ws.conds, !.tracked = ws.tracked]
  <2>1. UpdateAccepted(w) /\ memFresh
    BY <1>3 DEF UpdateMetadata, UpdateAccepted
  <2>2. Seen(w) = Seen(mem) /\ w \in Workspace /\ w.finalizer
    BY <1>0 DEF Seen, Workspace
  <2> HIDE DEF w
  <2>3. Seen(v) = [Seen(w) EXCEPT !.conds = ws.conds]
    BY <2>2 DEF Seen, Workspace
  <2>4. ws' = v
    BY <2>1, <2>2 DEF UpdateAccepted, Store
  <2> HIDE DEF v
  <2>5. Seen(v) = Seen(ws)
    BY <1>2, <2>1, <2>2, <2>3 DEF Seen, SameButTracked
  <2> QED
    BY <1>0, <2>4, <2>5 DEF ContractStep, Contract!contractVars, Seen
<1>4. CASE StopWorkspaceDueToIdle /\ ~WriteRejected
  <2> DEFINE w == [mem EXCEPT !.desired = "Stopped"]
             v == [w EXCEPT !.conds = ws.conds, !.tracked = ws.tracked]
  <2>1. UpdateAccepted(w) /\ memFresh
    BY <1>4 DEF StopWorkspaceDueToIdle, UpdateAccepted
  <2>2. /\ mem.exists /\ ~mem.deleting /\ mem.finalizer /\ mem.desired = "Running"
        /\ mem.conds = {"Available"}
    BY <1>4 DEF StopWorkspaceDueToIdle, CopiesAreSound, PassInv, RunSteps
  <2>3. /\ Seen(w) = [Seen(mem) EXCEPT !.desired = "Stopped"] /\ w \in Workspace
        /\ w.deleting = mem.deleting
    BY <1>0 DEF Seen, Workspace
  <2> HIDE DEF w
  <2>4. Seen(v) = [Seen(w) EXCEPT !.conds = ws.conds]
    BY <2>3 DEF Seen, Workspace
  <2>5. ws' = v
    BY <2>1, <2>2, <2>3 DEF UpdateAccepted, Store
  <2> HIDE DEF v
  <2>6. Seen(v) = [Seen(ws) EXCEPT !.desired = "Stopped"]
    BY <1>2, <2>1, <2>3, <2>4 DEF Seen, SameButTracked
  <2>7. Contract!IdleStop
    BY <1>0, <1>2, <2>1, <2>2, <2>5, <2>6 DEF Contract!IdleStop, Seen, SameButTracked
  <2> QED
    BY <2>7 DEF ContractStep, Contract!Next
<1>5. CASE RemoveFinalizer /\ ~WriteRejected
  <2> DEFINE w == [mem EXCEPT !.finalizer = FALSE]
  <2>1. UpdateAccepted(w) /\ memFresh
    BY <1>5 DEF RemoveFinalizer, UpdateAccepted
  <2>2. mem.exists /\ mem.deleting /\ mem.conds = {"Deleting"}
    BY <1>5 DEF RemoveFinalizer, CopiesAreSound, PassInv, DeleteSteps
  <2>3. ~w.finalizer /\ w.deleting
    BY <1>0, <2>2 DEF Workspace
  <2> HIDE DEF w
  <2>4. ws' = NoWorkspace
    BY <2>1, <2>3 DEF UpdateAccepted, Store
  <2>5. Seen(NoWorkspace) = Contract!Gone
    BY DEF Seen, NoWorkspace, Contract!Gone
  <2>6. Contract!Vanish
    BY <1>0, <1>2, <2>1, <2>2, <2>4, <2>5 DEF Contract!Vanish, Seen, SameButTracked
  <2> QED
    BY <2>6 DEF ContractStep, Contract!Next
<1> QED
  BY <1>1, <1>3, <1>4, <1>5

\* What users do is a UserChange; deleting an unprotected Workspace is Vanish, and
\* a request that does not reach the Workspace an OtherRequest.
LEMMA UsersRefine ==
  ASSUME CopiesAreSound, User
  PROVE  ContractStep
<1>0. ws \in Workspace /\ ops \in Nat
  BY DEF CopiesAreSound, TypeOK
<1>1. ASSUME ws.exists, ops' = ops + 1, UNCHANGED pvc,
             NEW v \in Workspace, ws' = v,
             v.exists = ws.exists, v.conds = ws.conds,
             v.ver \in {ws.ver, ws.ver + 1}, v.deleting \in {ws.deleting, TRUE}
      PROVE  ContractStep
  <2>1. v.desired \in {"Running", "Stopped"} /\ v.ref \in BOOLEAN
    BY WorkspaceFields
  <2>2. v.exists = TRUE
    BY <1>1, WorkspaceFields, <1>0
  <2>3. Contract!UserChange
    BY <1>1, <2>1, <2>2 DEF Contract!UserChange
  <2> QED
    BY <2>3 DEF ContractStep, Contract!Next
<1>2. CASE SetDesiredStatus
  <2>1. PICK d \in {"Running", "Stopped"} : UserWrite("desired", [ws EXCEPT !.desired = d])
    BY <1>2 DEF SetDesiredStatus
  <2> DEFINE v == [ws EXCEPT !.desired = d]
  <2>2. /\ v \in Workspace /\ v.exists = ws.exists /\ v.conds = ws.conds
        /\ v.ver = ws.ver /\ v.deleting = ws.deleting
    BY <1>0 DEF Workspace
  <2>3. ws.exists /\ ops' = ops + 1 /\ UNCHANGED pvc /\ ws' = v
    BY <2>1 DEF UserWrite, Store, clusterVars
  <2> HIDE DEF v
  <2> QED
    BY <1>1, <2>2, <2>3
<1>3. CASE SetAccessStrategyRef
  <2> DEFINE v == [ws EXCEPT !.ref = ~@]
  <2>1. /\ v \in Workspace /\ v.exists = ws.exists /\ v.conds = ws.conds
        /\ v.ver = ws.ver /\ v.deleting = ws.deleting
    BY <1>0 DEF Workspace
  <2>2. ws.exists /\ ops' = ops + 1 /\ UNCHANGED pvc /\ ws' = v
    BY <1>3 DEF SetAccessStrategyRef, UserWrite, Store, clusterVars
  <2> HIDE DEF v
  <2> QED
    BY <1>1, <2>1, <2>2
<1>4. CASE EditSpec
  <2> DEFINE v == [ws EXCEPT !.ver = @ + 1]
  <2>1. /\ v \in Workspace /\ v.exists = ws.exists /\ v.conds = ws.conds
        /\ v.ver = ws.ver + 1 /\ v.deleting = ws.deleting
    BY <1>0 DEF Workspace
  <2>2. ws.exists /\ ops' = ops + 1 /\ UNCHANGED pvc /\ ws' = v
    BY <1>4 DEF EditSpec, UserWrite, Store, clusterVars
  <2> HIDE DEF v
  <2> QED
    BY <1>1, <2>1, <2>2
<1>5. CASE DeleteWorkspace
  <2> DEFINE v == [ws EXCEPT !.deleting = TRUE]
  <2>1. /\ v \in Workspace /\ v.exists = ws.exists /\ v.conds = ws.conds
        /\ v.ver = ws.ver /\ v.deleting = TRUE
    BY <1>0 DEF Workspace
  <2>2. /\ ws.exists /\ ops' = ops + 1 /\ UNCHANGED pvc
        /\ ws' = IF ws.finalizer THEN v ELSE NoWorkspace
    BY <1>5 DEF DeleteWorkspace, UserWrite, Store, clusterVars
  <2> HIDE DEF v
  <2>3. CASE ws.finalizer
    BY <1>1, <2>1, <2>2, <2>3
  <2>4. CASE ~ws.finalizer
    <3>1. ws.conds = {}
      BY <2>2, <2>4 DEF CopiesAreSound, StoredInv
    <3>2. Seen(NoWorkspace) = Contract!Gone
      BY DEF Seen, NoWorkspace, Contract!Gone
    <3>3. Contract!Vanish
      BY <2>2, <2>4, <3>1, <3>2 DEF Contract!Vanish, Seen
    <3> QED
      BY <3>3 DEF ContractStep, Contract!Next
  <2> QED
    BY <2>3, <2>4
<1>6. CASE UNCHANGED <<ws, pvc>> /\ ops' = ops + 1
  BY <1>6 DEF ContractStep, Contract!Next, Contract!OtherRequest
<1>7. CASE HandlePreemption
  <2>1. CASE cacheFresh /\ cache.exists
    <3> DEFINE v == [cache EXCEPT !.desired = "Stopped"]
    <3>1. cache = ws
      BY <2>1 DEF CopiesAreSound, CopiesInv
    <3>2. /\ v \in Workspace /\ v.exists = ws.exists /\ v.conds = ws.conds
          /\ v.ver = ws.ver /\ v.deleting = ws.deleting
      BY <1>0, <3>1 DEF Workspace
    <3>3. ws.exists /\ ops' = ops + 1 /\ UNCHANGED pvc /\ ws' = v
      BY <1>7, <2>1, <3>1 DEF HandlePreemption, Store, clusterVars
    <3> HIDE DEF v
    <3> QED
      BY <1>1, <3>2, <3>3
  <2> QED
    BY <1>6, <1>7, <2>1 DEF HandlePreemption, clusterVars
<1>8. CASE EditAccessStrategy
  BY <1>6, <1>8 DEF EditAccessStrategy, clusterVars
<1> QED
  BY <1>2, <1>3, <1>4, <1>5, <1>7, <1>8 DEF User

\* The steps that create or delete the storage.
LEMMA StorageRefines ==
  ASSUME CopiesAreSound, EnsurePVCExists \/ EnsurePVCDeleted \/ PVCGone
  PROVE  ContractStep
<1>0. UNCHANGED <<ws, ops>> /\ pvc \in ObjStates
  BY DEF EnsurePVCExists, EnsurePVCDeleted, PVCGone, CopiesAreSound, TypeOK
<1>1. CASE UNCHANGED pvc
  BY <1>0, <1>1, StutterStep
<1>2. CASE EnsurePVCExists /\ pvc' # pvc
  <2>1. ws.exists /\ pvc = "absent" /\ pvc' = "live"
    BY <1>2 DEF EnsurePVCExists, CopiesAreSound, PassInv, RunSteps
  <2>2. Contract!CreateStorage
    BY <1>0, <2>1 DEF Contract!CreateStorage
  <2> QED
    BY <2>2 DEF ContractStep, Contract!Next
<1>3. CASE EnsurePVCDeleted /\ pvc' # pvc
  <2>1. ws.deleting
    BY <1>3 DEF EnsurePVCDeleted, CopiesAreSound, PassInv, DeleteSteps
  <2>2. pvc # "absent" /\ pvc' \in {"absent", "term"}
    BY <1>3 DEF EnsurePVCDeleted, AfterDelete
  <2>3. Contract!DropStorage
    BY <1>0, <2>1, <2>2 DEF Contract!DropStorage
  <2> QED
    BY <2>3 DEF ContractStep, Contract!Next
<1>4. CASE PVCGone
  <2>1. Contract!DropStorage
    BY <1>0, <1>4 DEF PVCGone, Collect, Contract!DropStorage
  <2> QED
    BY <2>1 DEF ContractStep, Contract!Next
<1> QED
  BY <1>1, <1>2, <1>3, <1>4

\* The other steps leave the storage and the count of requests alone.
LEMMA StatusWritesRefine ==
  ASSUME CopiesAreSound,
         \/ UpdateRunningStatus \/ UpdateStartingStatus
         \/ UpdatePermanentDegradedRunningStatus \/ UpdateErrorStatus
         \/ UpdateStoppingStatus \/ UpdateStoppedStatus \/ UpdateDeletingStatus
  PROVE  ContractStep
<1>1. UNCHANGED <<pvc, ops>>
  BY DEF UpdateRunningStatus, UpdateStartingStatus,
         UpdatePermanentDegradedRunningStatus, UpdateErrorStatus,
         UpdateStoppingStatus, UpdateStoppedStatus, UpdateDeletingStatus,
         FinishWithStatus, clusterVars
<1>2. CASE Quiet
  BY <1>1, <1>2, StutterStep DEF Quiet, Elsewhere, Proceed, Finish
<1> QED
  BY <1>1, <1>2, StatusWrites, ReportedRefines

\* The steps of a pass that runs the Workspace are steps of the contract.
LEMMA RunningPassRefines ==
  ASSUME CopiesAreSound, RunningPass
  PROVE  ContractStep
<1>1. CASE \/ EnsureDeploymentExists \/ EnsureServiceExists
           \/ \E r \in Resources : EnsureAccessResource(r)
           \/ AccessResourcesEnsured \/ ProbeAccessStartup \/ CheckWorkspaceIdle
  <2>1. UNCHANGED <<ws, pvc, ops>>
    BY <1>1
    DEF EnsureDeploymentExists, EnsureServiceExists, EnsureAccessResource,
        AccessResourcesEnsured, ProbeAccessStartup, CheckWorkspaceIdle, clusterVars
  <2> QED
    BY <2>1, StutterStep
<1> QED
  BY <1>1, StorageRefines, StatusWritesRefine, UpdatesRefine DEF RunningPass

\* The steps of a pass that stops or deletes the Workspace are steps of the contract.
LEMMA StopOrDeletePassRefines ==
  ASSUME CopiesAreSound, StopOrDeletePass
  PROVE  ContractStep
<1>1. CASE \/ \E r \in Resources : DeleteAccessResource(r)
           \/ AccessResourcesDeleted \/ EnsureDeploymentDeleted
           \/ EnsureServiceDeleted \/ CheckAllResourcesDeleted
  <2>1. UNCHANGED <<ws, pvc, ops>>
    BY <1>1
    DEF DeleteAccessResource, AccessResourcesDeleted, EnsureDeploymentDeleted,
        EnsureServiceDeleted, CheckAllResourcesDeleted, clusterVars
  <2> QED
    BY <2>1, StutterStep
<1> QED
  BY <1>1, StorageRefines, StatusWritesRefine, UpdatesRefine DEF StopOrDeletePass

\* Every step of the controller is a step of the contract or leaves it alone.
LEMMA NextRefines == CopiesAreSound /\ [Next]_vars => ContractStep
<1> SUFFICES ASSUME CopiesAreSound, [Next]_vars PROVE ContractStep
  OBVIOUS
<1>1. CASE Pass
  <2>1. CASE Reconcile \/ AccessStrategyError
    BY <2>1, StutterStep DEF Reconcile, AccessStrategyError, clusterVars
  <2> QED
    BY <1>1, <2>1, RunningPassRefines, StopOrDeletePassRefines, StatusWritesRefine,
       UpdatesRefine DEF Pass
<1>2. CASE User
  BY <1>2, UsersRefine
<1>3. CASE Kubernetes
  <2>1. CASE \/ DeploymentReady \/ DeploymentUnready \/ DeploymentGone \/ ServiceGone
             \/ \E r \in Resources : AccessResourceGone(r)
    BY <2>1, StutterStep
    DEF DeploymentReady, DeploymentUnready, DeploymentGone, ServiceGone,
        AccessResourceGone
  <2> QED
    BY <1>3, <2>1, StorageRefines DEF Kubernetes
<1>4. CASE Informers \/ Crash
  BY <1>4, StutterStep
  DEF Informers, WorkspaceEvent, DeploymentEvent, ServiceEvent, PVCEvent, Crash,
      clusterVars
<1>5. CASE UNCHANGED vars
  BY <1>5, StutterStep DEF vars, clusterVars
<1> QED
  BY <1>1, <1>2, <1>3, <1>4, <1>5 DEF Next

\* The controller implements the contract, for any set of access resources and
\* any number of users' requests and faults: conditions answer the stored spec, a
\* stale working copy undoes no user's edit, the Workspace goes only after
\* Deleting was reported, and a stop keeps the storage.
THEOREM ImplementsContract == Spec => KeepsContract
<1>1. Init => Contract!Init
  BY InitRefines
<1>2. CopiesAreSound /\ [Next]_vars => [Contract!Next]_(Contract!contractVars)
  BY NextRefines DEF ContractStep
<1> QED
  BY <1>1, <1>2, CopiesAlwaysSound, PTL DEF Spec, KeepsContract, Contract!Spec
=============================================================================

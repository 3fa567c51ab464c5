------------------------- MODULE Integrations_proofs -------------------------
(***************************************************************************)
(* Proofs about Integrations: the pod is built from one version of the     *)
(* resource, a running sidecar is kept, and drift does not roll the pod.   *)
(* Each of the last two needs to know what all copies of the Workspace say *)
(* (the stored one, the informer's, the one a pass works on): the history  *)
(* variables are set when these agree, and every step keeps the agreement. *)
(***************************************************************************)
EXTENDS Integrations, TLAPS

-----------------------------------------------------------------------------
(* The inductive invariant *)

\* The values of a record were read from one version of the resource.
Genuine(w) ==
  w.rec # None =>
    \E o \in Objects : \A e \in DOMAIN w.rec.values : w.rec.values[e] = o[e] /\ o[e] # Empty

Pcs == {"idle", "load", "capture", "deploy", "serve", "status", "error", "stop"}

WsOK == /\ ws \in Workspaces /\ wsCache \in Workspaces
        /\ Genuine(ws) /\ Genuine(wsCache)
        /\ wsFresh => wsCache = ws

PassOK == /\ mem \in Workspaces /\ Genuine(mem)
          /\ loaded \in Revisions \cup {None}
          /\ pc \in Pcs
          /\ pc = "stop" => ~mem.run
          /\ pc = "capture" => mem.ref # None /\ loaded # None

TmplOK == /\ tmpl \in [Templates -> Revisions \cup {None}]
          /\ tmplCache \in [Templates -> Revisions \cup {None}]
          /\ revisions \in 1..MaxRevisions

DepOK == /\ dep \in Deployments \cup {None} /\ depCache \in Deployments \cup {None}
         /\ depFresh => depCache = dep
         /\ NoPartialOverlay

ResOK == res \in [Targets -> Objects \cup {None}] /\ strat \in Nat

TInv == WsOK /\ PassOK /\ TmplOK /\ DepOK /\ ResOK

\* While the sidecar is kept, every copy of the Workspace has a record of it.
Attached(w, name) ==
  w.run /\ w.ref # None /\ w.ref.name = name /\ w.rec # None /\ w.rec.name = name

Keeping ==
  /\ Attached(ws, ws.ref.name) /\ Attached(wsCache, ws.ref.name)
  /\ pc # "idle" => Attached(mem, ws.ref.name)
  /\ dep # None /\ dep.overlay # None

\* While the overlay is frozen, every copy has the record, the controller knows the
\* template, and record and Deployment answer it.
Same(v, w) == v.run = w.run /\ v.ref = w.ref /\ v.rec = w.rec

Answers(w, rev) ==
  /\ w.run /\ w.ref # None /\ rev # None
  /\ ~HasIntegrationChanged(w.rec, w.ref, rev)
  /\ CanReplay(rev.shape, w.ref, w.rec)

Freezing ==
  LET rev == tmpl[ws.ref.tmpl] IN
  /\ Answers(ws, rev) /\ tmplCache[ws.ref.tmpl] = rev
  /\ Same(wsCache, ws)
  /\ pc # "idle" => Same(mem, ws)
  /\ pc # "capture"
  /\ pc = "deploy" => loaded = rev
  /\ dep # None /\ dep.overlay = Overlay(rev.shape, ws.ref, ws.rec)

IInv ==
  /\ TInv
  /\ kept => Keeping
  /\ frozen # None => Freezing /\ frozen = dep.overlay

USE IntegrationsAssumption

-----------------------------------------------------------------------------
(* Types *)

\* What an update of one field of a Workspace leaves of the others.
LEMMA WorkspaceFields ==
  ASSUME NEW w \in Workspaces, NEW rec \in Records \cup {None}
  PROVE  [w EXCEPT !.rec = rec] \in Workspaces
  BY DEF Workspaces

\* What an update of conditions and access state leaves of a Workspace.
LEMMA ConditionFields ==
  ASSUME NEW w \in Workspaces, NEW v \in Verdicts \cup {None}, NEW b \in BOOLEAN,
         NEW a \in Accesses \cup {None},
         NEW x, \/ x = [w EXCEPT !.access = a]
                \/ x = [w EXCEPT !.avail = b, !.access = a]
                \/ x = [w EXCEPT !.avail = b, !.verdict = v, !.access = a]
  PROVE  x \in Workspaces /\ Same(x, w)
  BY DEF Workspaces, Same

\* The state of the access probe that a pass notes.
LEMMA AccessedType ==
  ASSUME TInv
  PROVE  /\ Accessed("passed") \in Accesses /\ Accessed("over") \in Accesses
         /\ mem.access \in Accesses \cup {None}
  BY DEF TInv, ResOK, PassOK, Workspaces, Accessed, Accesses

\* A record that is found is the record.
LEMMA RecordType ==
  ASSUME NEW rec \in Records \cup {None}, NEW r \in Refs
  PROVE  Record(rec, r) \in Records \cup {None}
  BY DEF Record

\* What is captured is a record, of the reference it is captured for.
LEMMA CapturedType ==
  ASSUME NEW r \in Refs, NEW rev \in Revisions, NEW o \in Objects,
         CanCapture(rev.shape, r, o)
  PROVE  /\ Captured(r, rev, o) \in Records
         /\ Captured(r, rev, o).name = r.name
         /\ Captured(r, rev, o).values = [e \in Expressions(rev.shape) |-> o[e]]
<1>1. rev.shape \in AllShapes /\ rev.id \in 1..MaxRevisions BY DEF Revisions
<1>2. \A e \in Expressions(rev.shape) : o[e] \in Values
  BY <1>1 DEF Values, Paths, CanCapture, HasValue
<1>3. [e \in Expressions(rev.shape) |-> o[e]] \in [Expressions(rev.shape) -> Values]
  BY <1>2
<1>4. [e \in Expressions(rev.shape) |-> o[e]]
        \in UNION {[Expressions(s) -> Values] : s \in AllShapes}
  BY <1>1, <1>3
<1>5. r.name \in Names BY DEF Names
<1> HIDE DEF Expressions, Values
<1> QED BY <1>1, <1>4, <1>5 DEF Captured, Records

\* What is built from a record is an overlay, with values of the record.
LEMMA OverlayType ==
  ASSUME NEW s \in AllShapes, NEW r \in Refs, NEW rec \in Records, CanReplay(s, r, rec)
  PROVE  /\ Overlay(s, r, rec) \in Overlays
         /\ Overlay(s, r, rec).shape = s
         /\ \A e \in s.pod : e \in DOMAIN rec.values
                             /\ Overlay(s, r, rec).values[e] = rec.values[e]
<1>1. s.pod \subseteq DOMAIN rec.values BY DEF CanReplay, Frozen
<1>2. PICK z \in AllShapes : rec.values \in [Expressions(z) -> Values] BY DEF Records
<1>3. \A e \in s.pod : rec.values[e] \in Values BY <1>1, <1>2
<1> DEFINE vs == [e \in s.pod |-> IF e \in DOMAIN rec.values THEN rec.values[e] ELSE Empty]
<1>4. vs \in [s.pod -> Values \cup {Empty}] BY <1>1, <1>3
<1>5. vs \in UNION {[x.pod -> Values \cup {Empty}] : x \in AllShapes} BY <1>4
<1>6. Overlay(s, r, rec) = [shape |-> s, target |-> r.target, values |-> vs] BY DEF Overlay
<1>7. \A e \in s.pod : vs[e] = rec.values[e] BY <1>1
<1> HIDE DEF vs
<1> QED BY <1>1, <1>5, <1>6, <1>7 DEF Overlays

\* What a pass builds is an overlay or none.
LEMMA BuiltType ==
  ASSUME TInv, CanBuild
  PROVE  Built \in Overlays \cup {None}
<1>1. mem.ref \in Refs \cup {None} /\ mem.rec \in Records \cup {None}
  BY DEF TInv, PassOK, Workspaces
<1>2. CASE mem.ref = None \/ Record(mem.rec, mem.ref) = None BY <1>2 DEF Built
<1>3. CASE mem.ref # None /\ Record(mem.rec, mem.ref) # None
  <2>1. mem.rec \in Records BY <1>1, <1>3 DEF Record
  <2>2. loaded # None /\ CanReplay(loaded.shape, mem.ref, mem.rec) BY <1>3 DEF CanBuild
  <2>3. loaded.shape \in AllShapes BY <2>2 DEF TInv, PassOK, Revisions
  <2>4. Overlay(loaded.shape, mem.ref, mem.rec) \in Overlays
    BY <1>1, <1>3, <2>1, <2>2, <2>3, OverlayType
  <2> QED BY <1>3, <2>4 DEF Built
<1> QED BY <1>2, <1>3

\* A verdict has a reason.
LEMMA VerdictType ==
  ASSUME TInv
  PROVE  Verdict(mem.ref, mem.rec) \in Verdicts \cup {None}
<1>1. mem.ref \in Refs \cup {None} BY DEF TInv, PassOK, Workspaces
<1>2. CASE mem.ref = None BY <1>2 DEF Verdict
<1>3. CASE mem.ref # None
  <2>1. mem.ref.name \in Names BY <1>1, <1>3 DEF Names
  <2>2. \A x \in Reasons : [name |-> mem.ref.name, reason |-> x] \in Verdicts
    BY <2>1 DEF Verdicts
  <2> QED BY <1>3, <2>2 DEF Verdict, Reasons, ProbeReason
<1> QED BY <1>2, <1>3

-----------------------------------------------------------------------------
(* Types are preserved: what an action leaves alone, and each kind of change *)

\* The types of the Workspace and its copy, when these do not change.
LEMMA WsKept == TInv /\ UNCHANGED wsVars => WsOK'
  BY DEF TInv, WsOK, Genuine, wsVars

\* The types of the pass, when it does not change.
LEMMA PassKept == TInv /\ UNCHANGED passVars => PassOK'
  BY DEF TInv, PassOK, Genuine, passVars

\* The types of the templates, when they do not change.
LEMMA TmplKept == TInv /\ UNCHANGED tmplVars => TmplOK'
  BY DEF TInv, TmplOK, tmplVars

\* The types of the Deployment and its copy, when these do not change.
LEMMA DepKept == TInv /\ UNCHANGED depVars => DepOK'
  BY DEF TInv, DepOK, NoPartialOverlay, depVars

\* The types of the resources and the access strategy, when they do not change.
LEMMA ResKept == TInv /\ UNCHANGED <<res, strat>> => ResOK'
  BY DEF TInv, ResOK

\* A step of the pass that changes only the pass.
LEMMA PassStep ==
  ASSUME TInv, UNCHANGED <<wsVars, tmplVars, depVars, res, strat>>, PassOK'
  PROVE  TInv'
  BY WsKept, TmplKept, DepKept, ResKept DEF TInv

\* A pass that ends.
LEMMA EndPassOK ==
  ASSUME NEW b, EndPass(b)
  PROVE  PassOK'
  BY DEF EndPass, PassOK, Idle, Workspaces, Genuine, Pcs

\* A pass begins with a copy of the informer's Workspace.
LEMMA BeginTypes == TInv /\ Begin => TInv'
<1> SUFFICES ASSUME TInv, Begin PROVE TInv' OBVIOUS
<1>1. UNCHANGED <<wsVars, tmplVars, depVars, res, strat>> BY DEF Begin, envVars, accessVars
<1>2. /\ mem' = wsCache /\ loaded' = loaded
      /\ pc' = IF wsCache.run THEN "load" ELSE "stop"
  BY DEF Begin
<1>3. PassOK' BY <1>2 DEF PassOK, TInv, WsOK, Pcs, Genuine
<1> QED BY <1>1, <1>3, PassStep

\* A pass that sets the record of the working copy.
LEMMA RecordSet ==
  ASSUME TInv, NEW rec \in Records \cup {None},
         mem' = [mem EXCEPT !.rec = rec], Genuine([mem EXCEPT !.rec = rec]),
         pc' = "deploy", loaded' = loaded,
         UNCHANGED <<wsVars, tmplVars, depVars, res, strat>>
  PROVE  TInv'
<1>1. mem' \in Workspaces BY WorkspaceFields DEF TInv, PassOK
<1>2. PassOK' BY <1>1 DEF PassOK, TInv, Pcs, Genuine
<1> QED BY <1>2, PassStep

\* A record that is dropped or kept is as genuine as before.
LEMMA KeptGenuine ==
  ASSUME NEW w \in Workspaces, Genuine(w), w.ref # None
  PROVE  /\ Genuine([w EXCEPT !.rec = None])
         /\ Genuine([w EXCEPT !.rec = Record(w.rec, w.ref)])
<1>1. \A r : [w EXCEPT !.rec = r].rec = r BY DEF Workspaces
<1> QED BY <1>1 DEF Genuine, Record

\* A record is pruned, or a template or resource cannot be read.
LEMMA ResolveTypes ==
  TInv /\ (PruneIntegration \/ TemplateUnreadable \/ CaptureFails) => TInv'
<1>1. ASSUME TInv, PruneIntegration PROVE TInv'
  <2>1. Genuine([mem EXCEPT !.rec = None])
    <3>1. [mem EXCEPT !.rec = None].rec = None BY <1>1 DEF TInv, PassOK, Workspaces
    <3> QED BY <3>1 DEF Genuine
  <2> QED BY <1>1, <2>1, RecordSet DEF PruneIntegration, envVars, accessVars
<1>2. ASSUME TInv, TemplateUnreadable PROVE TInv'
  <2>1. mem \in Workspaces /\ Genuine(mem) /\ mem.ref # None
    BY <1>2 DEF TemplateUnreadable, TInv, PassOK
  <2>2. Record(mem.rec, mem.ref) \in Records \cup {None}
    BY <2>1, RecordType DEF Workspaces
  <2> QED BY <1>2, <2>1, <2>2, KeptGenuine, RecordSet DEF TemplateUnreadable, envVars, accessVars
<1>3. ASSUME TInv, CaptureFails PROVE TInv'
  <2>1. mem \in Workspaces /\ Genuine(mem) /\ mem.ref # None
    BY <1>3 DEF CaptureFails, TInv, PassOK
  <2>2. Record(mem.rec, mem.ref) \in Records \cup {None}
    BY <2>1, RecordType DEF Workspaces
  <2> QED BY <1>3, <2>1, <2>2, KeptGenuine, RecordSet DEF CaptureFails, envVars, accessVars
<1> QED BY <1>1, <1>2, <1>3

\* A template is loaded from the informer.
LEMMA LoadTypes == TInv /\ LoadTemplate => TInv'
<1> SUFFICES ASSUME TInv, LoadTemplate PROVE TInv' OBVIOUS
<1>1. /\ mem.ref # None /\ mem' = mem /\ loaded' = tmplCache[mem.ref.tmpl] /\ loaded' # None
      /\ pc' \in {"capture", "deploy"}
      /\ UNCHANGED <<wsVars, tmplVars, depVars, res, strat>>
  BY DEF LoadTemplate, envVars, accessVars
<1>2. mem.ref \in Refs /\ mem \in Workspaces /\ Genuine(mem) BY <1>1 DEF TInv, PassOK, Workspaces
<1>3. loaded' \in Revisions BY <1>1, <1>2 DEF TInv, TmplOK
<1>4. PassOK' BY <1>1, <1>2, <1>3 DEF PassOK, Pcs, Genuine
<1> QED BY <1>1, <1>4, PassStep

\* Values are captured from one version of the resource.
LEMMA CaptureTypes == TInv /\ Capture => TInv'
<1> SUFFICES ASSUME TInv, Capture PROVE TInv' OBVIOUS
<1> DEFINE o == res[mem.ref.target]
           rec == Captured(mem.ref, loaded, o)
<1>1. /\ mem \in Workspaces /\ mem.ref \in Refs /\ loaded \in Revisions
  BY DEF Capture, TInv, PassOK, Workspaces
<1>2. o \in Objects /\ CanCapture(loaded.shape, mem.ref, o)
  BY <1>1 DEF Capture, CanCapture, TInv, ResOK
<1>3. /\ mem' = [mem EXCEPT !.rec = rec] /\ pc' = "deploy" /\ loaded' = loaded
      /\ UNCHANGED <<wsVars, tmplVars, depVars, res, strat>>
  BY DEF Capture, envVars, accessVars
<1> HIDE DEF o
<1>4. rec \in Records /\ rec.values = [e \in Expressions(loaded.shape) |-> o[e]]
  BY <1>1, <1>2, CapturedType
<1> HIDE DEF rec
<1>5. [mem EXCEPT !.rec = rec].rec = rec BY <1>1 DEF Workspaces
<1>6. \A e \in DOMAIN rec.values : rec.values[e] = o[e] /\ o[e] # Empty
  BY <1>2, <1>4 DEF CanCapture, HasValue
<1>7. Genuine([mem EXCEPT !.rec = rec]) BY <1>2, <1>5, <1>6 DEF Genuine
<1> QED BY <1>3, <1>4, <1>7, RecordSet

\* What a pass builds comes from one version of the resource.
LEMMA BuiltWhole ==
  ASSUME TInv, CanBuild, Built # None
  PROVE  \E o \in Objects : \A e \in Built.shape.pod :
           Built.values[e] = o[e] /\ o[e] # Empty
<1>1. /\ mem.ref \in Refs /\ mem.rec \in Records /\ Genuine(mem)
      /\ Record(mem.rec, mem.ref) # None
  BY DEF Built, Record, TInv, PassOK, Workspaces
<1>2. loaded # None /\ CanReplay(loaded.shape, mem.ref, mem.rec) BY <1>1 DEF CanBuild
<1>3. loaded.shape \in AllShapes BY <1>2 DEF TInv, PassOK, Revisions
<1>4. Built = Overlay(loaded.shape, mem.ref, mem.rec) BY <1>1 DEF Built
<1>5. /\ Built.shape = loaded.shape
      /\ \A e \in loaded.shape.pod : e \in DOMAIN mem.rec.values
                                     /\ Built.values[e] = mem.rec.values[e]
  BY <1>1, <1>2, <1>3, <1>4, OverlayType
<1>6. PICK o \in Objects :
        \A e \in DOMAIN mem.rec.values : mem.rec.values[e] = o[e] /\ o[e] # Empty
  BY <1>1 DEF Genuine
<1> QED BY <1>5, <1>6

\* A Deployment that is stored, its copy being left to the informer.
LEMMA DeploymentStored ==
  ASSUME TInv, NEW d \in Deployments \cup {None}, dep' = d, depCache' = depCache,
         depFresh' => depFresh /\ dep' = dep,
         d # None /\ d.overlay # None =>
           \E o \in Objects : \A e \in d.overlay.shape.pod :
             d.overlay.values[e] = o[e] /\ o[e] # Empty
  PROVE  DepOK'
  BY DEF TInv, DepOK, NoPartialOverlay

\* A Deployment is created or updated.
LEMMA DeployTypes ==
  TInv /\ (CreateDeployment \/ UpdateDeployment) => TInv'
<1>1. ASSUME TInv, CreateDeployment PROVE TInv'
  <2> DEFINE d == [overlay |-> Built, ready |-> FALSE]
  <2>1. CanBuild BY <1>1 DEF CreateDeployment
  <2>2. d \in Deployments BY <1>1, <2>1, BuiltType DEF Deployments
  <2>3. DepOK' BY <1>1, <2>1, <2>2, BuiltWhole, DeploymentStored DEF CreateDeployment
  <2>4. PassOK' BY <1>1 DEF CreateDeployment, TInv, PassOK, Pcs, Genuine
  <2>5. WsOK' /\ TmplOK' /\ ResOK'
    BY <1>1, WsKept, TmplKept, ResKept DEF CreateDeployment, envVars, accessVars
  <2> QED BY <2>3, <2>4, <2>5 DEF TInv
<1>2. ASSUME TInv, UpdateDeployment PROVE TInv'
  <2> DEFINE d == [dep EXCEPT !.overlay = Built]
  <2>1. CanBuild /\ dep = depCache /\ dep # None
    BY <1>2 DEF UpdateDeployment, NeedsUpdate, TInv, DepOK
  <2>2. dep \in Deployments BY <1>2, <2>1 DEF TInv, DepOK
  <2>3. d \in Deployments /\ d.overlay = Built BY <1>2, <2>1, <2>2, BuiltType DEF Deployments
  <2>4. dep' = d /\ depCache' = depCache /\ depFresh' = FALSE BY <1>2 DEF UpdateDeployment
  <2> HIDE DEF d
  <2>5. DepOK' BY <1>2, <2>1, <2>3, <2>4, BuiltWhole, DeploymentStored
  <2>6. PassOK' BY <1>2 DEF UpdateDeployment, TInv, PassOK, Pcs, Genuine
  <2>7. WsOK' /\ TmplOK' /\ ResOK'
    BY <1>2, WsKept, TmplKept, ResKept DEF UpdateDeployment, envVars, accessVars
  <2> QED BY <2>5, <2>6, <2>7 DEF TInv
<1> QED BY <1>1, <1>2

\* Steps that only move the pass on.
LEMMA MoveTypes ==
  TInv /\ (KeepDeployment \/ DeploymentFails \/ ServiceFails) => TInv'
<1> SUFFICES ASSUME TInv, KeepDeployment \/ DeploymentFails \/ ServiceFails PROVE TInv'
  OBVIOUS
<1>1. /\ UNCHANGED <<wsVars, tmplVars, depVars, res, strat>> /\ mem' = mem /\ loaded' = loaded
      /\ pc' \in {"serve", "error"}
  BY DEF KeepDeployment, DeploymentFails, ServiceFails, envVars, accessVars
<1>2. PassOK' BY <1>1 DEF TInv, PassOK, Pcs, Genuine
<1> QED BY <1>1, <1>2, PassStep

\* Steps that set the conditions of the working copy.
LEMMA ConditionsSet ==
  ASSUME TInv, NEW w, mem' = w, w \in Workspaces, Same(w, mem), pc' \in {"status", "error"},
         loaded' = loaded
  PROVE  PassOK'
  BY DEF TInv, PassOK, Pcs, Genuine, Same

\* What becomes of the working copy when the conditions are worked out.
LEMMA ServeCopy ==
  ASSUME TInv, NotServing \/ GiveUp \/ ProbeIntegrationStatus \/ StopPass \/ StopFails
  PROVE  /\ mem' \in Workspaces /\ Same(mem', mem) /\ loaded' = loaded
         /\ pc \in {"serve", "stop"} /\ pc' \in {"status", "error"}
         /\ UNCHANGED <<wsVars, tmplVars, res, strat>>
<1>0. mem \in Workspaces BY DEF TInv, PassOK
<1>1. CASE NotServing
  <2> DEFINE a == IF up THEN None ELSE mem.access
  <2>1. a \in Accesses \cup {None} BY AccessedType
  <2>2. mem' = [mem EXCEPT !.avail = FALSE, !.access = a] BY <1>1 DEF NotServing
  <2> HIDE DEF a
  <2>3. mem' \in Workspaces /\ Same(mem', mem) BY <1>0, <2>1, <2>2, ConditionFields
  <2> QED BY <1>1, <2>3 DEF NotServing, envVars, accessVars
<1>2. CASE GiveUp
  <2>1. mem' = [mem EXCEPT !.avail = FALSE, !.access = Accessed("over")] BY <1>2 DEF GiveUp
  <2>2. mem' \in Workspaces /\ Same(mem', mem)
    BY <1>0, <2>1, AccessedType, ConditionFields
  <2> QED BY <1>2, <2>2 DEF GiveUp, envVars, accessVars
<1>3. CASE ProbeIntegrationStatus
  <2>1. PICK v \in Verdicts \cup {None} :
          mem' = [mem EXCEPT !.avail = TRUE, !.verdict = v, !.access = Accessed("passed")]
    BY <1>3 DEF ProbeIntegrationStatus
  <2>2. mem' \in Workspaces /\ Same(mem', mem)
    BY <1>0, <2>1, AccessedType, ConditionFields
  <2> QED BY <1>3, <2>2 DEF ProbeIntegrationStatus, envVars, accessVars
<1>4. CASE StopPass \/ StopFails
  <2>1. \/ mem' = [mem EXCEPT !.avail = FALSE, !.access = None]
        \/ mem' = [mem EXCEPT !.access = None]
    BY <1>4 DEF StopPass, StopFails
  <2>2. mem' \in Workspaces /\ Same(mem', mem) BY <1>0, <2>1, ConditionFields
  <2> QED BY <1>4, <2>2 DEF StopPass, StopFails, envVars, accessVars
<1> QED BY <1>1, <1>2, <1>3, <1>4

\* The conditions are worked out, or the Workspace is stopped.
LEMMA ServeTypes ==
  TInv /\ (NotServing \/ GiveUp \/ ProbeIntegrationStatus \/ StopPass \/ StopFails) => TInv'
<1> SUFFICES ASSUME TInv, NotServing \/ GiveUp \/ ProbeIntegrationStatus \/ StopPass \/ StopFails
             PROVE  TInv'
  OBVIOUS
<1>1. PassOK' BY ServeCopy, ConditionsSet
<1>2. DepOK'
  <2>1. CASE NotServing \/ GiveUp \/ ProbeIntegrationStatus
    BY <2>1, DepKept DEF NotServing, GiveUp, ProbeIntegrationStatus
  <2>2. CASE StopPass \/ StopFails
    BY <2>2 DEF StopPass, StopFails, Deleted, TInv, DepOK, NoPartialOverlay
  <2> QED BY <2>1, <2>2
<1> QED BY <1>1, <1>2, ServeCopy, WsKept, TmplKept, ResKept DEF TInv

\* Steps that end a pass, with or without a write of the status.
LEMMA EndTypes ==
  TInv /\ (AccessFails \/ StatusFails \/ WriteStatus \/ WriteErrorStatus) => TInv'
<1>1. ASSUME TInv, AccessFails \/ StatusFails PROVE TInv'
  <2>1. PassOK' BY <1>1, EndPassOK DEF AccessFails, StatusFails
  <2> QED BY <1>1, <2>1, PassStep DEF AccessFails, StatusFails, envVars, accessVars
<1>2. ASSUME TInv, WriteStatus \/ WriteErrorStatus PROVE TInv'
  <2>1. PassOK' BY <1>2, EndPassOK DEF WriteStatus, WriteErrorStatus
  <2>2. /\ ws' = Stored /\ wsCache' = wsCache /\ wsFresh' = (wsFresh /\ ws' = ws)
        /\ UNCHANGED <<tmplVars, depVars, res, strat>>
    BY <1>2 DEF WriteStatus, WriteErrorStatus, envVars, accessVars
  <2>3. ws \in Workspaces /\ mem \in Workspaces /\ Genuine(mem)
    BY <1>2 DEF TInv, WsOK, PassOK
  <2>4. Stored \in Workspaces /\ Stored.rec = mem.rec
    BY <2>3 DEF Stored, Workspaces
  <2>5. Genuine(Stored) BY <2>3, <2>4 DEF Genuine
  <2>6. WsOK'
    <3>1. ws' \in Workspaces /\ Genuine(ws') BY <2>2, <2>4, <2>5
    <3>2. wsCache' \in Workspaces /\ Genuine(wsCache') BY <1>2, <2>2 DEF TInv, WsOK
    <3>3. wsFresh' => wsCache' = ws' BY <1>2, <2>2 DEF TInv, WsOK
    <3> QED BY <3>1, <3>2, <3>3 DEF WsOK
  <2> QED BY <1>2, <2>1, <2>2, <2>6, TmplKept, DepKept, ResKept DEF TInv
<1> QED BY <1>1, <1>2

\* The informers catch up.
LEMMA DeliverTypes ==
  TInv /\ (\/ Restart \/ DeliverWorkspace \/ DeliverDeployment
           \/ (\E t \in Templates : DeliverTemplate(t)) \/ Wake) => TInv'
<1>1. ASSUME TInv, Restart PROVE TInv'
  <2>1. PassOK' BY <1>1, EndPassOK DEF Restart
  <2>2. WsOK' BY <1>1 DEF Restart, TInv, WsOK, Genuine
  <2>3. TmplOK' BY <1>1 DEF Restart, TInv, TmplOK
  <2>4. DepOK' BY <1>1 DEF Restart, TInv, DepOK, NoPartialOverlay
  <2> QED BY <1>1, <2>1, <2>2, <2>3, <2>4, ResKept DEF TInv, Restart, envVars, accessVars
<1>2. ASSUME TInv, DeliverWorkspace PROVE TInv'
  <2>1. WsOK' BY <1>2 DEF DeliverWorkspace, TInv, WsOK, Genuine
  <2> QED BY <1>2, <2>1, PassKept, TmplKept, DepKept, ResKept DEF TInv, DeliverWorkspace, envVars, accessVars
<1>3. ASSUME TInv, DeliverDeployment PROVE TInv'
  <2>1. DepOK' BY <1>3 DEF DeliverDeployment, TInv, DepOK, NoPartialOverlay
  <2> QED BY <1>3, <2>1, PassKept, TmplKept, WsKept, ResKept DEF TInv, DeliverDeployment, envVars, accessVars
<1>4. ASSUME TInv, NEW t \in Templates, DeliverTemplate(t) PROVE TInv'
  <2>1. TmplOK' BY <1>4 DEF DeliverTemplate, TInv, TmplOK
  <2> QED BY <1>4, <2>1, PassKept, DepKept, WsKept, ResKept DEF TInv, DeliverTemplate, envVars, accessVars
<1>5. ASSUME TInv, Wake PROVE TInv'
  BY <1>5, PassKept, DepKept, WsKept, ResKept, TmplKept DEF TInv, Wake, envVars, accessVars
<1> QED BY <1>1, <1>2, <1>3, <1>4, <1>5

\* An update of the Workspace by a user or an administrator.
LEMMA StoreTypes ==
  ASSUME TInv, NEW w \in Workspaces, w.rec = ws.rec, StoreWorkspace(w)
  PROVE  TInv'
<1>1. ws' = w /\ wsFresh' = FALSE /\ wsCache' = wsCache BY DEF StoreWorkspace
<1>2. Genuine(w) BY DEF TInv, WsOK, Genuine
<1>3. WsOK' BY <1>1, <1>2 DEF TInv, WsOK, Genuine
<1>4. PassOK' BY DEF StoreWorkspace, TInv, PassOK, Genuine
<1> QED BY <1>3, <1>4, TmplKept, DepKept, ResKept DEF TInv, StoreWorkspace, envVars, accessVars

\* Users, admins and faults.
LEMMA EnvironmentTypes == TInv /\ Environment => TInv'
<1>1. ASSUME TInv, NEW r \in Refs \cup {None}, SetRef(r) \/ SetRefUnchecked(r) PROVE TInv'
  <2> DEFINE w == [ws EXCEPT !.ref = r]
  <2>1. w \in Workspaces /\ w.rec = ws.rec BY <1>1 DEF TInv, WsOK, Workspaces
  <2>2. StoreWorkspace(w) BY <1>1 DEF SetRef, SetRefUnchecked
  <2> HIDE DEF w
  <2> QED BY <1>1, <2>1, <2>2, StoreTypes
<1>2. ASSUME TInv, SetDesiredStatus PROVE TInv'
  <2> DEFINE w == [ws EXCEPT !.run = ~@]
  <2>1. w \in Workspaces /\ w.rec = ws.rec BY <1>2 DEF TInv, WsOK, Workspaces
  <2>2. StoreWorkspace(w) BY <1>2 DEF SetDesiredStatus
  <2> HIDE DEF w
  <2> QED BY <1>2, <2>1, <2>2, StoreTypes
<1>3. ASSUME TInv, NEW t \in Templates, DeleteTemplate(t) PROVE TInv'
  <2>1. TmplOK' BY <1>3 DEF DeleteTemplate, TInv, TmplOK
  <2> QED BY <1>3, <2>1, WsKept, PassKept, DepKept, ResKept DEF TInv, DeleteTemplate, envVars, accessVars
<1>4. ASSUME TInv, NEW t \in Templates, NEW s \in Shapes[t], StoreTemplate(t, s) PROVE TInv'
  <2>0. revisions + 1 \in 1..MaxRevisions BY <1>4 DEF StoreTemplate, TInv, TmplOK
  <2>s. s \in AllShapes BY DEF AllShapes
  <2>1. [id |-> revisions + 1, shape |-> s] \in Revisions BY <2>0, <2>s DEF Revisions
  <2>2. TmplOK' BY <1>4, <2>0, <2>1 DEF StoreTemplate, TInv, TmplOK
  <2> QED BY <1>4, <2>2, WsKept, PassKept, DepKept, ResKept DEF TInv, StoreTemplate, envVars, accessVars
<1>5. ASSUME TInv, NEW x \in Targets, NEW o \in Objects \cup {None}, Drift(x, o) PROVE TInv'
  <2>1. ResOK' BY <1>5 DEF Drift, TInv, ResOK, accessVars
  <2> QED BY <1>5, <2>1, WsKept, PassKept, DepKept, TmplKept DEF TInv, Drift
<1>6. ASSUME TInv, HealthChanges \/ RouteChanges PROVE TInv'
  BY <1>6, WsKept, PassKept, DepKept, TmplKept, ResKept
     DEF TInv, HealthChanges, RouteChanges, accessVars
<1>7. ASSUME TInv, EditAccessStrategy PROVE TInv'
  <2>1. ResOK' BY <1>7 DEF EditAccessStrategy, TInv, ResOK
  <2> QED BY <1>7, <2>1, WsKept, PassKept, DepKept, TmplKept DEF TInv, EditAccessStrategy
<1> QED BY <1>1, <1>2, <1>3, <1>4, <1>5, <1>6, <1>7 DEF Environment

\* A Deployment whose readiness changes keeps its overlay.
LEMMA ReadySet ==
  ASSUME NEW d \in Deployments, NEW b \in BOOLEAN
  PROVE  [d EXCEPT !.ready = b] \in Deployments /\ [d EXCEPT !.ready = b].overlay = d.overlay
  BY DEF Deployments

\* Pods come and go.
LEMMA PodTypes == TInv /\ (PodStops \/ PodStarts) => TInv'
<1>1. ASSUME TInv, PodStops PROVE TInv'
  <2>1. CASE dep = None
    <3>1. DepOK' BY <1>1, <2>1 DEF PodStops, TInv, DepOK, NoPartialOverlay
    <3> QED BY <1>1, <3>1, WsKept, PassKept, TmplKept, ResKept DEF TInv, PodStops, accessVars
  <2>2. CASE dep # None
    <3> DEFINE d == [dep EXCEPT !.ready = FALSE]
    <3>1. d \in Deployments /\ d.overlay = dep.overlay BY <1>1, <2>2, ReadySet DEF TInv, DepOK
    <3>2. dep' = d /\ depCache' = depCache /\ depFresh' = (depFresh /\ dep' = dep)
      BY <1>1, <2>2 DEF PodStops
    <3> HIDE DEF d
    <3>3. d # None /\ d.overlay # None =>
            \E o \in Objects : \A e \in d.overlay.shape.pod :
              d.overlay.values[e] = o[e] /\ o[e] # Empty
      BY <1>1, <2>2, <3>1 DEF TInv, DepOK, NoPartialOverlay
    <3>4. DepOK' BY <1>1, <3>1, <3>2, <3>3, DeploymentStored
    <3> QED BY <1>1, <3>4, WsKept, PassKept, TmplKept, ResKept DEF TInv, PodStops, accessVars
  <2> QED BY <2>1, <2>2
<1>2. ASSUME TInv, PodStarts PROVE TInv'
  <2> DEFINE d == [dep EXCEPT !.ready = TRUE]
  <2>1. dep # None /\ dep' = d /\ depCache' = depCache /\ depFresh' = FALSE
    BY <1>2 DEF PodStarts
  <2>2. d \in Deployments /\ d.overlay = dep.overlay BY <1>2, <2>1, ReadySet DEF TInv, DepOK
  <2> HIDE DEF d
  <2>3. DepOK'
    BY <1>2, <2>1, <2>2, DeploymentStored DEF TInv, DepOK, NoPartialOverlay
  <2> QED BY <1>2, <2>3, WsKept, PassKept, TmplKept, ResKept DEF TInv, PodStarts, accessVars
<1> QED BY <1>1, <1>2

\* Every step keeps the types.
LEMMA StepTypes == TInv /\ Step => TInv'
  BY BeginTypes, ResolveTypes, LoadTypes, CaptureTypes, DeployTypes, MoveTypes, ServeTypes,
     EndTypes, DeliverTypes, EnvironmentTypes, PodTypes DEF Step, Pass

\* The types hold at first.
LEMMA InitTypes == Init => TInv
<1> SUFFICES ASSUME Init PROVE TInv OBVIOUS
<1>1. PICK r \in Refs \cup {None} : ws = [Idle EXCEPT !.run = TRUE, !.ref = r]
  BY DEF Init
<1>2. ws \in Workspaces /\ ws.rec = None /\ Idle \in Workspaces /\ Idle.rec = None
  BY <1>1 DEF Idle, Workspaces
<1>3. WsOK BY <1>2 DEF Init, WsOK, Genuine
<1>4. PassOK BY <1>2 DEF Init, PassOK, Genuine, Pcs
<1>5. TmplOK
  <2>1. PICK f \in [Templates -> AllShapes] : tmpl = [t \in Templates |-> [id |-> 1, shape |-> f[t]]]
    BY DEF Init
  <2>2. \A t \in Templates : [id |-> 1, shape |-> f[t]] \in Revisions BY DEF Revisions
  <2> QED BY <2>1, <2>2 DEF Init, TmplOK
<1>6. DepOK /\ ResOK BY DEF Init, DepOK, ResOK, NoPartialOverlay
<1> QED BY <1>3, <1>4, <1>5, <1>6 DEF TInv

-----------------------------------------------------------------------------
(* The sidecar is kept *)

\* A pass of an attached integration goes on with a record of it.
LEMMA KeepingRecord ==
  ASSUME TInv, Keeping, pc # "idle", PruneIntegration \/ TemplateUnreadable \/ Capture \/ CaptureFails
  PROVE  Attached(mem', ws.ref.name)
<1>1. mem \in Workspaces /\ Attached(mem, ws.ref.name) BY DEF TInv, PassOK, Keeping
<1>2. ASSUME NEW x, mem' = [mem EXCEPT !.rec = x], x # None, x.name = ws.ref.name
      PROVE  Attached(mem', ws.ref.name)
  <2>1. mem'.run = mem.run /\ mem'.ref = mem.ref /\ mem'.rec = x BY <1>1, <1>2 DEF Workspaces
  <2> QED BY <1>1, <1>2, <2>1 DEF Attached
<1>3. CASE PruneIntegration
  BY <1>1, <1>3 DEF PruneIntegration, Attached
<1>4. CASE TemplateUnreadable \/ CaptureFails
  BY <1>1, <1>2, <1>4 DEF TemplateUnreadable, CaptureFails, Record, Attached
<1>5. CASE Capture
  <2> DEFINE o == res[mem.ref.target]
             x == Captured(mem.ref, loaded, o)
  <2>1. mem.ref \in Refs /\ loaded \in Revisions
    BY <1>5 DEF Capture, TInv, PassOK, Workspaces
  <2>2. o \in Objects /\ CanCapture(loaded.shape, mem.ref, o)
    BY <1>5, <2>1 DEF Capture, CanCapture, TInv, ResOK
  <2>3. mem' = [mem EXCEPT !.rec = x] BY <1>5 DEF Capture
  <2> HIDE DEF o
  <2>4. x \in Records /\ x.name = mem.ref.name BY <2>1, <2>2, CapturedType, ZenonT(60)
  <2> HIDE DEF x
  <2>5. x # None BY <2>4
  <2> QED BY <1>1, <1>2, <2>3, <2>4, <2>5 DEF Attached
<1> QED BY <1>3, <1>4, <1>5

\* While the sidecar is kept, the controller's pass keeps it.
LEMMA KeepingPass ==
  ASSUME TInv, Keeping, Pass
  PROVE  Keeping'
<1>1. CASE Begin
  BY <1>1 DEF Begin, Keeping, wsVars, depVars
<1>2. CASE PruneIntegration \/ TemplateUnreadable \/ Capture \/ CaptureFails
  <2>1. UNCHANGED <<wsVars, depVars>> /\ pc # "idle"
    BY <1>2 DEF PruneIntegration, TemplateUnreadable, Capture, CaptureFails
  <2> QED BY <1>2, <2>1, KeepingRecord DEF Keeping, wsVars, depVars
<1>3. CASE LoadTemplate \/ KeepDeployment \/ DeploymentFails \/ ServiceFails
  <2>1. UNCHANGED <<wsVars, depVars, mem>> /\ pc # "idle"
    BY <1>3 DEF LoadTemplate, KeepDeployment, DeploymentFails, ServiceFails
  <2> QED BY <2>1 DEF Keeping, wsVars, depVars
<1>4. CASE CreateDeployment
  BY <1>4 DEF CreateDeployment, Keeping
<1>5. CASE UpdateDeployment
  <2>1. CanBuild /\ pc # "idle" /\ dep' = [dep EXCEPT !.overlay = Built] /\ UNCHANGED <<wsVars, mem>>
    BY <1>5 DEF UpdateDeployment, NeedsUpdate
  <2>2. /\ mem.ref \in Refs /\ mem.rec \in Records
        /\ Record(mem.rec, mem.ref) # None
    BY <2>1 DEF Keeping, Attached, Record, TInv, PassOK, Workspaces
  <2>3. /\ Built = Overlay(loaded.shape, mem.ref, mem.rec)
        /\ loaded # None /\ CanReplay(loaded.shape, mem.ref, mem.rec)
    BY <2>1, <2>2 DEF Built, CanBuild
  <2>4. loaded.shape \in AllShapes BY <2>3 DEF TInv, PassOK, Revisions
  <2>5. Built \in Overlays BY <2>2, <2>3, <2>4, OverlayType
  <2>6. dep \in Deployments BY DEF Keeping, TInv, DepOK
  <2>7. dep' \in Deployments /\ dep'.overlay = Built BY <2>1, <2>5, <2>6 DEF Deployments
  <2> QED BY <2>1, <2>5, <2>7 DEF Keeping, wsVars
<1>6. CASE NotServing \/ GiveUp \/ ProbeIntegrationStatus \/ StopPass \/ StopFails
  <2>1. pc # "idle" /\ UNCHANGED wsVars BY <1>6, ServeCopy
  <2>2. pc # "stop" BY <2>1 DEF Keeping, Attached, TInv, PassOK
  <2>3. dep' = dep
    BY <1>6, <2>2 DEF NotServing, GiveUp, ProbeIntegrationStatus, StopPass, StopFails, depVars
  <2>4. Same(mem', mem) BY <1>6, ServeCopy
  <2> QED BY <2>1, <2>3, <2>4 DEF Keeping, Same, Attached, wsVars
<1>7. CASE AccessFails \/ StatusFails
  BY <1>7 DEF AccessFails, StatusFails, EndPass, Keeping, wsVars, depVars
<1>8. CASE WriteStatus \/ WriteErrorStatus
  <2>1. pc # "idle" /\ ws' = Stored /\ wsCache' = wsCache /\ dep' = dep /\ pc' = "idle"
    BY <1>8 DEF WriteStatus, WriteErrorStatus, EndPass, depVars
  <2>2. Stored.run = ws.run /\ Stored.ref = ws.ref /\ Stored.rec = mem.rec
    BY DEF Stored, TInv, WsOK, Workspaces
  <2> QED BY <2>1, <2>2 DEF Keeping, Attached
<1> QED BY <1>1, <1>2, <1>3, <1>4, <1>5, <1>6, <1>7, <1>8 DEF Pass

\* While the sidecar is kept, every step keeps it or ends the claim.
LEMMA KeepingStep ==
  ASSUME TInv, Keeping, Step, ws'.ref # None, ws'.ref.name = ws.ref.name, ws'.run
  PROVE  Keeping'
<1>1. CASE Pass BY <1>1, KeepingPass
<1>2. CASE Restart
  BY <1>2 DEF Restart, EndPass, Keeping
<1>3. CASE \/ DeliverWorkspace \/ DeliverDeployment \/ (\E t \in Templates : DeliverTemplate(t))
           \/ Wake
  BY <1>3 DEF DeliverWorkspace, DeliverDeployment, DeliverTemplate, Wake, Keeping, wsVars,
              depVars, passVars
<1>4. CASE \E r \in Refs \cup {None} : SetRef(r) \/ SetRefUnchecked(r)
  <2>1. PICK r \in Refs \cup {None} : StoreWorkspace([ws EXCEPT !.ref = r])
    BY <1>4 DEF SetRef, SetRefUnchecked
  <2>2. ws'.rec = ws.rec BY <2>1 DEF StoreWorkspace, TInv, WsOK, Workspaces
  <2> QED BY <2>1, <2>2 DEF StoreWorkspace, Keeping, Attached, depVars
<1>5. CASE SetDesiredStatus
  <2>1. ws'.rec = ws.rec BY <1>5 DEF SetDesiredStatus, StoreWorkspace, TInv, WsOK, Workspaces
  <2> QED BY <1>5, <2>1 DEF SetDesiredStatus, StoreWorkspace, Keeping, Attached, depVars
<1>6. CASE \/ \E t \in Templates : DeleteTemplate(t) \/ (\E s \in Shapes[t] : StoreTemplate(t, s))
           \/ \E x \in Targets, o \in Objects \cup {None} : Drift(x, o)
           \/ HealthChanges \/ RouteChanges \/ EditAccessStrategy
  BY <1>6 DEF DeleteTemplate, StoreTemplate, Drift, HealthChanges, RouteChanges,
              EditAccessStrategy, Keeping, wsVars, depVars, passVars
<1>7. CASE PodStops \/ PodStarts
  <2>1. UNCHANGED <<wsVars, passVars>> BY <1>7 DEF PodStops, PodStarts
  <2>2. dep \in Deployments BY DEF Keeping, TInv, DepOK
  <2>3. dep' \in Deployments /\ dep'.overlay = dep.overlay
    BY <1>7, <2>2, ReadySet DEF PodStops, PodStarts, Keeping
  <2> QED BY <2>1, <2>3 DEF Keeping, wsVars, passVars
<1> QED BY <1>1, <1>2, <1>3, <1>4, <1>5, <1>6, <1>7 DEF Step, Environment

\* Where the sidecar begins to be kept, the copies agree.
LEMMA KeepingBegins ==
  ASSUME TInv', Recorded'
  PROVE  Keeping'
  BY DEF Recorded, Keeping, Attached, Record

-----------------------------------------------------------------------------
(* Drift does not roll the pod *)

\* What every step has to leave as it is.
LEMMA FreezingKept ==
  ASSUME Freezing, tmpl'[ws.ref.tmpl] = tmpl[ws.ref.tmpl],
         tmplCache'[ws.ref.tmpl] = tmplCache[ws.ref.tmpl],
         Same(ws', ws), Same(wsCache', ws), pc' # "idle" => Same(mem', ws),
         pc' # "capture", pc' = "deploy" => loaded' = tmpl[ws.ref.tmpl],
         dep' # None, dep'.overlay = dep.overlay
  PROVE  Freezing' /\ dep'.overlay = dep.overlay
<1>1. ws'.ref = ws.ref /\ ws'.rec = ws.rec /\ ws'.run = ws.run BY DEF Same
<1>2. Answers(ws', tmpl'[ws'.ref.tmpl]) BY <1>1 DEF Freezing, Answers
<1>3. Same(wsCache', ws') /\ (pc' # "idle" => Same(mem', ws')) BY <1>1 DEF Same
<1>4. dep'.overlay = Overlay(tmpl'[ws'.ref.tmpl].shape, ws'.ref, ws'.rec)
  BY <1>1 DEF Freezing
<1> QED BY <1>1, <1>2, <1>3, <1>4 DEF Freezing

\* While the overlay is frozen, the controller's pass leaves it alone.
LEMMA FreezingPass ==
  ASSUME TInv, Freezing, Pass
  PROVE  Freezing' /\ dep'.overlay = dep.overlay
<1> DEFINE rev == tmpl[ws.ref.tmpl]
<1>0. /\ Same(ws, ws) /\ Same(wsCache, ws) /\ (pc # "idle" => Same(mem, ws)) /\ dep # None
      /\ pc = "deploy" => loaded = rev
      /\ ws.run /\ ws.ref # None /\ rev # None /\ tmplCache[ws.ref.tmpl] = rev
      /\ ~HasIntegrationChanged(ws.rec, ws.ref, rev) /\ CanReplay(rev.shape, ws.ref, ws.rec)
      /\ dep.overlay = Overlay(rev.shape, ws.ref, ws.rec)
  BY DEF Freezing, Answers, Same
<1>u. UNCHANGED tmplVars => tmpl' = tmpl /\ tmplCache' = tmplCache BY DEF tmplVars
<1> HIDE DEF rev
<1>1. CASE Begin
  <2>1. /\ UNCHANGED <<wsVars, tmplVars, depVars>> /\ mem' = wsCache /\ pc' \in {"load", "stop"}
    BY <1>1 DEF Begin
  <2> QED BY <1>0, <1>u, <2>1, FreezingKept DEF wsVars, depVars
<1>2. CASE PruneIntegration \/ TemplateUnreadable \/ Capture \/ CaptureFails
  BY <1>0, <1>2 DEF PruneIntegration, TemplateUnreadable, Capture, CaptureFails, Same, Freezing
<1>3. CASE LoadTemplate
  <2>1. /\ UNCHANGED <<wsVars, tmplVars, depVars, mem>> /\ pc # "idle"
        /\ loaded' = tmplCache[mem.ref.tmpl]
        /\ pc' = IF HasIntegrationChanged(mem.rec, mem.ref, loaded') THEN "capture" ELSE "deploy"
    BY <1>3 DEF LoadTemplate
  <2>2. loaded' = rev /\ pc' = "deploy" BY <1>0, <2>1 DEF Same
  <2> QED BY <1>0, <1>u, <2>1, <2>2, FreezingKept DEF wsVars, depVars, rev
<1>4. CASE KeepDeployment \/ DeploymentFails \/ ServiceFails
  <2>1. /\ UNCHANGED <<wsVars, tmplVars, depVars, mem>> /\ pc # "idle"
        /\ pc' \in {"serve", "error"}
    BY <1>4 DEF KeepDeployment, DeploymentFails, ServiceFails
  <2> QED BY <1>0, <1>u, <2>1, FreezingKept DEF wsVars, depVars
<1>5. CASE CreateDeployment
  BY <1>0, <1>5 DEF CreateDeployment
<1>6. CASE UpdateDeployment
  <2>1. /\ dep' = [dep EXCEPT !.overlay = Built] /\ UNCHANGED <<wsVars, tmplVars, mem>>
        /\ pc = "deploy" /\ pc' = "serve"
    BY <1>6 DEF UpdateDeployment
  <2>2. mem.ref = ws.ref /\ mem.rec = ws.rec /\ loaded = rev
    BY <1>0, <2>1 DEF Same
  <2>3. Record(mem.rec, mem.ref) # None BY <1>0, <2>2 DEF HasIntegrationChanged
  <2>4. Built = dep.overlay BY <1>0, <2>2, <2>3 DEF Built
  <2>5. dep \in Deployments BY <1>0 DEF TInv, DepOK
  <2>6. dep' = dep BY <2>1, <2>4, <2>5 DEF Deployments
  <2> QED BY <1>0, <1>u, <2>1, <2>6, FreezingKept DEF wsVars
<1>7. CASE NotServing \/ GiveUp \/ ProbeIntegrationStatus \/ StopPass \/ StopFails
  <2>1. pc # "idle" /\ UNCHANGED <<wsVars, tmplVars>> /\ pc' \in {"status", "error"}
    BY <1>7, ServeCopy
  <2>2. pc # "stop" BY <1>0, <2>1 DEF Same, TInv, PassOK
  <2>3. dep' = dep
    BY <1>7, <2>2 DEF NotServing, GiveUp, ProbeIntegrationStatus, StopPass, StopFails, depVars
  <2>4. Same(mem', mem) BY <1>7, ServeCopy
  <2>5. Same(mem', ws) BY <1>0, <2>1, <2>4 DEF Same
  <2> QED BY <1>0, <1>u, <2>1, <2>3, <2>5, FreezingKept DEF wsVars
<1>8. CASE AccessFails \/ StatusFails
  <2>1. UNCHANGED <<wsVars, tmplVars, depVars>> /\ pc' = "idle"
    BY <1>8 DEF AccessFails, StatusFails, EndPass
  <2> QED BY <1>0, <1>u, <2>1, FreezingKept DEF wsVars, depVars
<1>9. CASE WriteStatus \/ WriteErrorStatus
  <2>1. /\ pc # "idle" /\ ws' = Stored /\ wsCache' = wsCache /\ dep' = dep /\ pc' = "idle"
        /\ UNCHANGED tmplVars
    BY <1>9 DEF WriteStatus, WriteErrorStatus, EndPass, depVars
  <2>2. Stored.run = ws.run /\ Stored.ref = ws.ref /\ Stored.rec = mem.rec
    BY DEF Stored, TInv, WsOK, Workspaces
  <2>3. Same(ws', ws) BY <1>0, <2>1, <2>2 DEF Same
  <2> QED BY <1>0, <1>u, <2>1, <2>3, FreezingKept
<1> QED BY <1>1, <1>2, <1>3, <1>4, <1>5, <1>6, <1>7, <1>8, <1>9 DEF Pass

\* While the overlay is frozen, every step leaves it alone or ends the claim.
LEMMA FreezingStep ==
  ASSUME TInv, Freezing, Step, ws'.ref = ws.ref, ws'.run,
         tmpl'[ws.ref.tmpl] = tmpl[ws.ref.tmpl]
  PROVE  Freezing' /\ dep'.overlay = dep.overlay
<1>0. /\ Same(ws, ws) /\ Same(wsCache, ws) /\ (pc # "idle" => Same(mem, ws)) /\ dep # None
      /\ pc # "capture" /\ (pc = "deploy" => loaded = tmpl[ws.ref.tmpl])
      /\ tmplCache[ws.ref.tmpl] = tmpl[ws.ref.tmpl] /\ ws.run
  BY DEF Freezing, Answers, Same
<1>u. UNCHANGED passVars => pc' = pc /\ mem' = mem /\ loaded' = loaded BY DEF passVars
<1>1. CASE Pass BY <1>1, FreezingPass
<1>2. CASE Restart
  <2>1. ws' = ws /\ wsCache' = ws /\ tmplCache' = tmpl /\ dep' = dep /\ pc' = "idle"
    BY <1>2 DEF Restart, EndPass
  <2> QED BY <1>0, <2>1, FreezingKept
<1>3. CASE DeliverWorkspace \/ DeliverDeployment \/ Wake
  <2>1. /\ UNCHANGED <<tmplVars, passVars>> /\ ws' = ws /\ dep' = dep /\ wsCache' \in {ws, wsCache}
    BY <1>3 DEF DeliverWorkspace, DeliverDeployment, Wake, wsVars, depVars
  <2> QED BY <1>0, <1>u, <2>1, FreezingKept DEF tmplVars
<1>4. ASSUME NEW t \in Templates, DeliverTemplate(t) PROVE Freezing' /\ dep'.overlay = dep.overlay
  <2>1. /\ UNCHANGED <<wsVars, tmpl, depVars, passVars>>
        /\ tmplCache' = [tmplCache EXCEPT ![t] = tmpl[t]]
    BY <1>4 DEF DeliverTemplate
  <2>2. tmplCache'[ws.ref.tmpl] = tmplCache[ws.ref.tmpl]
    BY <1>0, <2>1 DEF TInv, TmplOK
  <2> QED BY <1>0, <1>u, <2>1, <2>2, FreezingKept DEF wsVars, depVars
<1>5. CASE \/ \E r \in Refs \cup {None} : SetRef(r) \/ SetRefUnchecked(r)
           \/ SetDesiredStatus
  <2>1. CASE SetDesiredStatus
    BY <1>0, <2>1 DEF SetDesiredStatus, StoreWorkspace, TInv, WsOK, Workspaces
  <2>2. ASSUME NEW r \in Refs \cup {None}, SetRef(r) \/ SetRefUnchecked(r)
        PROVE  FALSE
    BY <2>2 DEF SetRef, SetRefUnchecked, StoreWorkspace, TInv, WsOK, Workspaces
  <2> QED BY <1>5, <2>1, <2>2
<1>6. CASE \/ \E t \in Templates : DeleteTemplate(t) \/ (\E s \in Shapes[t] : StoreTemplate(t, s))
           \/ \E x \in Targets, o \in Objects \cup {None} : Drift(x, o)
           \/ HealthChanges \/ RouteChanges \/ EditAccessStrategy
  <2>1. UNCHANGED <<wsVars, tmplCache, depVars, passVars>>
    BY <1>6 DEF DeleteTemplate, StoreTemplate, Drift, HealthChanges, RouteChanges,
           EditAccessStrategy, tmplVars
  <2> QED BY <1>0, <1>u, <2>1, FreezingKept DEF wsVars, depVars
<1>7. CASE PodStops \/ PodStarts
  <2>1. UNCHANGED <<wsVars, tmplVars, passVars>> BY <1>7 DEF PodStops, PodStarts
  <2>2. dep \in Deployments BY <1>0 DEF TInv, DepOK
  <2>3. dep' \in Deployments /\ dep'.overlay = dep.overlay
    BY <1>0, <1>7, <2>2, ReadySet DEF PodStops, PodStarts
  <2>4. dep' # None BY <2>3
  <2> QED BY <1>0, <1>u, <2>1, <2>3, <2>4, FreezingKept DEF wsVars, tmplVars
<1> QED BY <1>1, <1>2, <1>3, <1>4, <1>5, <1>6, <1>7 DEF Step, Environment

\* Where the overlay begins to be frozen, the copies agree.
LEMMA FreezingBegins ==
  ASSUME TInv', Current'
  PROVE  Freezing'
<1>1. ws'.ref # None /\ ws'.run /\ wsCache' = ws' /\ pc' = "idle" /\ dep' # None
  BY DEF Current, Recorded
<1> QED BY <1>1 DEF Current, Freezing, Answers, Same

-----------------------------------------------------------------------------
(* The theorems *)

\* The invariant holds at first.
LEMMA InitIInv == Init => IInv
<1>1. Init => ~kept /\ frozen = None BY DEF Init
<1> QED BY <1>1, InitTypes DEF IInv

\* Every step keeps the invariant.
LEMMA NextIInv == IInv /\ [Next]_vars => IInv'
<1> SUFFICES ASSUME IInv, [Next]_vars PROVE IInv' OBVIOUS
<1>1. CASE Next
  <2>1. Step /\ Marks /\ TInv BY <1>1 DEF Next, IInv
  <2>2. TInv' BY <2>1, StepTypes
  <2>3. ASSUME kept' PROVE Keeping'
    <3>1. /\ ws'.ref # None /\ ws'.ref.name = ws.ref.name /\ ws'.run
          /\ kept \/ Recorded'
      BY <2>1, <2>3 DEF Marks
    <3>2. CASE kept BY <2>1, <3>1, <3>2, KeepingStep DEF IInv
    <3>3. CASE Recorded' BY <2>2, <3>3, KeepingBegins
    <3> QED BY <3>1, <3>2, <3>3
  <2>4. ASSUME frozen' # None PROVE Freezing' /\ frozen' = dep'.overlay
    <3>1. /\ ws'.ref = ws.ref /\ ws'.run /\ tmpl'[ws.ref.tmpl] = tmpl[ws.ref.tmpl]
          /\ frozen' = IF frozen = None /\ Current' THEN dep'.overlay ELSE frozen
      BY <2>1, <2>4 DEF Marks
    <3>2. CASE frozen = None /\ Current' BY <2>2, <3>1, <3>2, FreezingBegins
    <3>3. CASE frozen # None
      BY <2>1, <3>1, <3>3, FreezingStep DEF IInv
    <3> QED BY <2>4, <3>1, <3>2, <3>3
  <2> QED BY <2>2, <2>3, <2>4 DEF IInv
<1>2. CASE UNCHANGED vars
  <2>1. UNCHANGED <<wsVars, tmplVars, depVars, passVars, res, strat, kept, frozen>>
    BY <1>2 DEF vars, envVars, accessVars
  <2>2. TInv' BY <2>1, WsKept, PassKept, TmplKept, DepKept, ResKept DEF IInv, TInv
  <2>3. kept' => Keeping'
    BY <2>1 DEF IInv, Keeping, wsVars, passVars, depVars
  <2>4. frozen' # None => Freezing' /\ frozen' = dep'.overlay
    BY <2>1 DEF IInv, Freezing, wsVars, passVars, depVars, tmplVars
  <2> QED BY <2>2, <2>3, <2>4 DEF IInv
<1> QED BY <1>1, <1>2

\* What IInv says holds in every reachable state.
THEOREM Invariance == Spec => []IInv
  BY InitIInv, NextIInv, PTL DEF Spec

\* Every piece of state keeps its type: records hold values for all expressions of a
\* revision, whatever is edited, deleted or fails (reconcileIntegrations).
THEOREM TypeCorrect == Spec => []TypeOK
<1>1. IInv => TypeOK
  BY DEF IInv, TInv, WsOK, PassOK, TmplOK, DepOK, ResOK, TypeOK, Pcs
<1> QED BY <1>1, Invariance, PTL

\* A pod is built from one version of the resource, with a value for each expression
\* (captureIntegrationValues, buildIntegrationPodModifications).
THEOREM BuiltWhollyFromOneVersion == Spec => []NoPartialOverlay
<1>1. IInv => NoPartialOverlay BY DEF IInv, TInv, DepOK
<1> QED BY <1>1, Invariance, PTL

\* A stored and known record keeps the sidecar in the Deployment until the integration
\* is detached or the Workspace stops (reconcileIntegrations, ensureDeploymentUpToDate).
THEOREM SidecarStays == Spec => []SidecarKept
<1>1. IInv => SidecarKept BY DEF IInv, Keeping, SidecarKept
<1> QED BY <1>1, Invariance, PTL

\* Once record and Deployment answer reference and template, the overlay stays what it
\* is until one of these changes (hasIntegrationChanged, frozenResourceValueProvider).
THEOREM DriftIsHarmless == Spec => []DriftNeverRolls
<1>1. IInv => DriftNeverRolls BY DEF IInv, Freezing, DriftNeverRolls
<1> QED BY <1>1, Invariance, PTL
=============================================================================

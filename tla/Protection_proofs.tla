-------------------------- MODULE Protection_proofs --------------------------
(***************************************************************************)
(* For every set of workspaces and every number of retries: the            *)
(* controllers of templates and of access strategies miss no change that   *)
(* concerns the finalizers they manage, and every variable has its type.   *)
(*                                                                         *)
(* StrategyProtection is extended and TemplateProtection, which names its  *)
(* definitions the same way, is instantiated.  The variables of the same   *)
(* name stand for those of the one in the first part and for those of the  *)
(* other in the second: a statement about both is about each of the two    *)
(* systems by itself.                                                      *)
(***************************************************************************)
EXTENDS StrategyProtection, TLAPS

CONSTANT Refs
VARIABLES template, cacheFresh

TP == INSTANCE TemplateProtection

-----------------------------------------------------------------------------
(* The inductive invariant of StrategyProtection *)

Functions == ws = [w \in Workspaces |-> ws[w]] /\ wcache = [w \in Workspaces |-> wcache[w]]

\* A copy of the strategy that counts as current is.
CacheCurrent == aFresh => acache = as
CopyCurrent == pc # "idle" /\ memFresh => mem = as.fin

\* A pass with an outdated copy is followed by another one.
OutdatedPassFollowed == pc # "idle" /\ ~memFresh => queued \/ ~aFresh

\* So is a pass whose lists are outdated.  Its write may be the wrong one.
KnownWorkspaces == IF HasActiveWorkspaces THEN {"workspace"} ELSE {}
KnownTemplates == IF HasActiveTemplates THEN {"template"} ELSE {}
OutdatedListsFollowed ==
  /\ pc = "templates" /\ ~queued => want = KnownWorkspaces
  /\ pc \in {"write", "retry"} /\ ~queued => want = Referrers

IInv ==
  /\ Functions /\ CacheCurrent /\ CopyCurrent /\ OutdatedPassFollowed /\ OutdatedListsFollowed
  /\ Attended

\* The two lists make up the known referrers.
LEMMA ReferrersKnown == Referrers = KnownWorkspaces \cup KnownTemplates
BY DEF Referrers, KnownWorkspaces, KnownTemplates

-----------------------------------------------------------------------------
(* Kinds of steps of StrategyProtection *)

\* The informers know the same referrers as before.
SameReferrers == KnownWorkspaces' = KnownWorkspaces /\ KnownTemplates' = KnownTemplates

\* They only change with the informers.
LEMMA SameCaches ==
  ASSUME UNCHANGED <<wcache, tcache>>
  PROVE  SameReferrers /\ Referrers' = Referrers
BY DEF SameReferrers, KnownWorkspaces, KnownTemplates, HasActiveWorkspaces, HasActiveTemplates,
       Referrers

\* A write of the strategy by somebody else is followed by an event.
LEMMA WriteKeeps ==
  ASSUME IInv, Functions', ~aFresh', ~memFresh', UNCHANGED <<wcache, tcache, queued, pc, want>>
  PROVE  IInv'
<1>1. KnownWorkspaces' = KnownWorkspaces /\ Referrers' = Referrers
  BY SameCaches DEF SameReferrers
<1> QED BY <1>1 DEF IInv, CacheCurrent, CopyCurrent, OutdatedPassFollowed, OutdatedListsFollowed,
                    Attended

\* A step that leaves the strategy, its copies, the informers and the pass alone.
LEMMA ElsewhereKeeps ==
  ASSUME IInv, Functions', UNCHANGED <<asVars, wcache, tcache, queued, pc, mem, memFresh, want>>
  PROVE  IInv'
<1>1. KnownWorkspaces' = KnownWorkspaces /\ Referrers' = Referrers
  BY SameCaches DEF SameReferrers
<1> QED BY <1>1 DEF asVars, IInv, CacheCurrent, CopyCurrent, OutdatedPassFollowed,
                    OutdatedListsFollowed, Attended

\* A step that may add a finalizer on behalf of a referrer.
LEMMA AddKeeps ==
  ASSUME IInv, Functions', UNCHANGED <<wcache, tcache, queued, pc, mem, want>>,
         \/ UNCHANGED <<asVars, memFresh>>
         \/ \E kind \in Kinds : AddFinalizer(kind)
  PROVE  IInv'
<1>1. CASE UNCHANGED <<asVars, memFresh>>
  BY <1>1, ElsewhereKeeps
<1>2. CASE ~aFresh' /\ ~memFresh'
  BY <1>2, WriteKeeps
<1> QED BY <1>1, <1>2 DEF AddFinalizer, StoreStrategy

\* A step that queues the strategy and leaves it and the copies alone.
LEMMA WakeKeeps ==
  ASSUME IInv, Functions', queued', UNCHANGED <<asVars, pc, mem, memFresh>>
  PROVE  IInv'
BY DEF asVars, IInv, CacheCurrent, CopyCurrent, OutdatedPassFollowed, OutdatedListsFollowed,
       Attended

-----------------------------------------------------------------------------
(* The invariant is inductive *)

\* It holds of a strategy without references.
LEMMA InitIInv ==
  Init => IInv
BY DEF Init, IInv, Functions, CacheCurrent, CopyCurrent, OutdatedPassFollowed,
       OutdatedListsFollowed, Attended

\* Passes of the strategy controller keep it.
LEMMA PassKeeps ==
  ASSUME IInv, Pass
  PROVE  IInv'
<1>f. Functions' /\ SameReferrers /\ Referrers' = Referrers
  <2>1. UNCHANGED <<ws, wcache, tcache>>
    BY DEF Pass, Reconcile, ListWorkspaces, ListTemplates, UpdateFinalizers, RetryFinalizers,
           wsVars, tmVars
  <2> QED BY <2>1, SameCaches DEF IInv, Functions
<1>1. CASE Reconcile
  <2>1. CacheCurrent' /\ OutdatedListsFollowed'
    BY <1>1 DEF Reconcile, asVars, IInv, CacheCurrent, OutdatedListsFollowed
  <2>2. CopyCurrent'
    BY <1>1 DEF Reconcile, asVars, IInv, CacheCurrent, CopyCurrent
  <2>3. OutdatedPassFollowed'
    BY <1>1 DEF Reconcile, asVars, OutdatedPassFollowed
  <2>4. Attended'
    BY <1>1 DEF Reconcile, Missing, asVars, IInv, CacheCurrent, Attended
  <2> QED BY <1>f, <2>1, <2>2, <2>3, <2>4 DEF IInv
<1>2. CASE ListWorkspaces
  <2>1. want' = KnownWorkspaces'
    BY <1>2, <1>f DEF ListWorkspaces, KnownWorkspaces, SameReferrers
  <2> QED BY <1>2, <1>f, <2>1
             DEF ListWorkspaces, asVars, IInv, CacheCurrent, CopyCurrent, OutdatedPassFollowed,
                 OutdatedListsFollowed, Attended
<1>3. CASE ListTemplates
  <2>1. want' = want \cup KnownTemplates
    BY <1>3 DEF ListTemplates, KnownTemplates
  <2>2. ~queued' => want' = Referrers'
    BY <1>3, <1>f, <2>1, ReferrersKnown DEF ListTemplates, IInv, OutdatedListsFollowed
  <2>3. CacheCurrent' /\ CopyCurrent' /\ OutdatedPassFollowed' /\ OutdatedListsFollowed'
    BY <1>3, <2>2 DEF ListTemplates, asVars, IInv, CacheCurrent, CopyCurrent,
                      OutdatedPassFollowed, OutdatedListsFollowed
  <2>4. Attended'
    BY <1>3, <2>2 DEF ListTemplates, asVars, IInv, CopyCurrent, OutdatedPassFollowed, Attended
  <2> QED BY <1>f, <2>3, <2>4 DEF IInv
<1>4. CASE UpdateFinalizers \/ RetryFinalizers
  <2>1. CASE FailPass
    BY <1>f, <2>1 DEF FailPass, asVars, IInv, CacheCurrent, CopyCurrent, OutdatedPassFollowed,
                      OutdatedListsFollowed, Attended
  <2>2. CASE SetFinalizers
    BY <1>f, <2>2 DEF SetFinalizers, StoreStrategy, IInv, CacheCurrent, CopyCurrent,
                      OutdatedPassFollowed, OutdatedListsFollowed, Attended
  <2>3. CASE /\ pc \in {"write", "retry"} /\ pc' = "retry"
             /\ UNCHANGED <<asVars, queued, mem, memFresh, want>>
    BY <1>f, <2>3 DEF asVars, IInv, CacheCurrent, CopyCurrent, OutdatedPassFollowed,
                      OutdatedListsFollowed, Attended
  <2>4. CASE /\ pc = "retry" /\ pc' = "idle" /\ acache.fin = want
             /\ UNCHANGED <<asVars, queued, mem, memFresh, want>>
    BY <1>f, <2>4 DEF asVars, IInv, CacheCurrent, CopyCurrent, OutdatedPassFollowed,
                      OutdatedListsFollowed, Attended
  <2> QED BY <1>4, <2>1, <2>2, <2>3, <2>4 DEF UpdateFinalizers, RetryFinalizers
<1> QED BY <1>1, <1>2, <1>3, <1>4 DEF Pass

\* Events of the informers keep it: one that changes the known referrers queues the
\* strategy, because the object carries the label before or after.
LEMMA EventKeeps ==
  ASSUME IInv, StrategyEvent \/ TemplateEvent \/ Restart \/ \E w \in Workspaces : WorkspaceEvent(w)
  PROVE  IInv'
<1>1. CASE StrategyEvent
  BY <1>1 DEF StrategyEvent, wsVars, IInv, Functions, CacheCurrent, CopyCurrent,
              OutdatedPassFollowed, OutdatedListsFollowed, Attended
<1>2. CASE Restart
  BY <1>2 DEF Restart, IInv, Functions, CacheCurrent, CopyCurrent, OutdatedPassFollowed,
              OutdatedListsFollowed, Attended
<1>3. CASE TemplateEvent
  <2>1. Functions'
    BY <1>3 DEF TemplateEvent, wsVars, IInv, Functions
  <2>2. CASE Concerns(tcache, tm)
    BY <1>3, <2>1, <2>2, WakeKeeps DEF TemplateEvent
  <2>3. CASE ~Concerns(tcache, tm)
    <3>1. KnownWorkspaces' = KnownWorkspaces
      BY <1>3 DEF TemplateEvent, wsVars, KnownWorkspaces, HasActiveWorkspaces
    <3>2. KnownTemplates' = KnownTemplates
      BY <1>3, <2>3 DEF TemplateEvent, Concerns, KnownTemplates, HasActiveTemplates
    <3>3. Referrers' = Referrers
      BY <3>1, <3>2 DEF Referrers, KnownWorkspaces, KnownTemplates
    <3> QED BY <1>3, <2>1, <3>1, <3>3
               DEF TemplateEvent, asVars, IInv, CacheCurrent, CopyCurrent, OutdatedPassFollowed,
                   OutdatedListsFollowed, Attended
  <2> QED BY <2>2, <2>3
<1>4. ASSUME NEW w \in Workspaces, WorkspaceEvent(w) PROVE IInv'
  <2>1. Functions'
    BY <1>4 DEF WorkspaceEvent, IInv, Functions
  <2>2. CASE Concerns(wcache[w], ws[w])
    BY <1>4, <2>1, <2>2, WakeKeeps DEF WorkspaceEvent
  <2>3. CASE ~Concerns(wcache[w], ws[w])
    <3>1. \A v \in Workspaces : wcache'[v] = IF v = w THEN ws[w] ELSE wcache[v]
      BY <1>4 DEF WorkspaceEvent, IInv, Functions
    <3>2. HasActiveWorkspaces' <=> HasActiveWorkspaces
      BY <2>3, <3>1 DEF HasActiveWorkspaces, Concerns
    <3>3. KnownWorkspaces' = KnownWorkspaces
      BY <3>2 DEF KnownWorkspaces
    <3>4. KnownTemplates' = KnownTemplates
      BY <1>4 DEF WorkspaceEvent, tmVars, KnownTemplates, HasActiveTemplates
    <3>5. Referrers' = Referrers
      BY <3>3, <3>4 DEF Referrers, KnownWorkspaces, KnownTemplates
    <3> QED BY <1>4, <2>1, <3>3, <3>5
               DEF WorkspaceEvent, asVars, IInv, CacheCurrent, CopyCurrent, OutdatedPassFollowed,
                   OutdatedListsFollowed, Attended
  <2> QED BY <2>2, <2>3
<1> QED BY <1>1, <1>2, <1>3, <1>4

\* Every step keeps it.
LEMMA NextIInv ==
  ASSUME IInv, [Next]_vars
  PROVE  IInv'
<1>1. CASE Pass
  BY <1>1, PassKeeps
<1>2. CASE StrategyEvent \/ TemplateEvent \/ Restart \/ \E w \in Workspaces : WorkspaceEvent(w)
  BY <1>2, EventKeeps
<1>3. CASE DeleteStrategy \/ CreateStrategy \/ EditStrategy
  <2>1. Functions' /\ ~aFresh' /\ ~memFresh' /\ UNCHANGED <<wcache, tcache, queued, pc, want>>
    BY <1>3 DEF DeleteStrategy, CreateStrategy, EditStrategy, StoreStrategy, wsVars, tmVars, IInv,
                Functions
  <2> QED BY <2>1, WriteKeeps
<1>4. CASE BackfillLabels \/ BackfillFinalizer \/ \E ref \in BOOLEAN : WriteTemplate(ref)
  <2>1. Functions' /\ UNCHANGED <<wcache, tcache, queued, pc, mem, want>>
    BY <1>4 DEF BackfillLabels, BackfillFinalizer, WriteTemplate, wsVars, IInv, Functions
  <2>2. UNCHANGED <<asVars, memFresh>> \/ \E kind \in Kinds : AddFinalizer(kind)
    BY <1>4 DEF BackfillLabels, BackfillFinalizer, WriteTemplate, DefaultTemplate, Kinds
  <2> QED BY <2>1, <2>2, AddKeeps
<1>5. ASSUME NEW w \in Workspaces, UpdateMetadata(w) \/ \E ref \in BOOLEAN : WriteWorkspace(w, ref)
      PROVE  IInv'
  <2>1. Functions' /\ UNCHANGED <<wcache, tcache, queued, pc, mem, want>>
    BY <1>5 DEF UpdateMetadata, WriteWorkspace, tmVars, IInv, Functions
  <2>2. UNCHANGED <<asVars, memFresh>> \/ \E kind \in Kinds : AddFinalizer(kind)
    BY <1>5 DEF UpdateMetadata, WriteWorkspace, Default, Kinds
  <2> QED BY <2>1, <2>2, AddKeeps
<1>6. ASSUME \/ DeleteTemplate \/ TemplateGone \/ \E by \in Writers : StoreTemplate(by)
             \/ \E w \in Workspaces : StoreWorkspace(w) \/ DeleteWorkspace(w) \/ WorkspaceGone(w)
      PROVE  IInv'
  <2>1. Functions'
    BY <1>6 DEF DeleteTemplate, TemplateGone, StoreTemplate, StoreWorkspace, DeleteWorkspace,
                WorkspaceGone, wsVars, IInv, Functions
  <2>2. UNCHANGED <<asVars, wcache, tcache, queued, pc, mem, memFresh, want>>
    BY <1>6 DEF DeleteTemplate, TemplateGone, StoreTemplate, StoreWorkspace, DeleteWorkspace,
                WorkspaceGone, wsVars, tmVars, passVars
  <2> QED BY <2>1, <2>2, ElsewhereKeeps
<1>7. CASE UNCHANGED vars
  <2>1. Functions'
    BY <1>7 DEF vars, wsVars, IInv, Functions
  <2>2. UNCHANGED <<asVars, wcache, tcache, queued, pc, mem, memFresh, want>>
    BY <1>7 DEF vars, wsVars, tmVars, passVars
  <2> QED BY <2>1, <2>2, ElsewhereKeeps
<1> QED BY <1>1, <1>2, <1>3, <1>4, <1>5, <1>6, <1>7 DEF Next

-----------------------------------------------------------------------------
(* The theorem *)

\* However many workspaces there are and however often a conflict is retried: when a
\* finalizer of the strategy disagrees with the referrers the informers know, the
\* controller (WorkspaceAccessStrategyReconciler) is going to look.
THEOREM StrategyAlwaysAttended == Spec => []Attended
<1>1. Init => IInv
  BY InitIInv
<1>2. IInv /\ [Next]_vars => IInv'
  BY NextIInv
<1>3. IInv => Attended
  BY DEF IInv
<1> QED BY <1>1, <1>2, <1>3, PTL DEF Spec

-----------------------------------------------------------------------------
(* Type correctness *)

\* Writes that are being admitted.
WorkspaceWrite == [on: BOOLEAN, to: Workspace, from: Workspace]
TemplateWrite == [on: BOOLEAN, to: Template, from: Template]

\* What is not there has its type too.
LEMMA EmptyTypes ==
  /\ Absent \in Workspace /\ NoRequest \in WorkspaceWrite
  /\ NoTemplate \in Template /\ NoWrite \in TemplateWrite
BY DEF Absent, Workspace, NoTemplate, Template, NoRequest, WorkspaceWrite, NoWrite, TemplateWrite

\* What users and the workspace controller make of a workspace.
LEMMA WorkspaceTypes ==
  ASSUME NEW v \in Workspace
  PROVE  /\ [v EXCEPT !.label = v.ref, !.fin = TRUE] \in Workspace
         /\ [v EXCEPT !.st = "deleting"] \in Workspace
         /\ \A ref \in BOOLEAN : [v EXCEPT !.st = "active", !.ref = ref] \in Workspace
BY DEF Workspace

\* What users and the template controller make of a template.
LEMMA TemplateTypes ==
  ASSUME NEW t \in Template
  PROVE  /\ Labelled(t) \in Template
         /\ [t EXCEPT !.st = "deleting"] \in Template
         /\ \A ref \in BOOLEAN : [t EXCEPT !.st = "present", !.ref = ref] \in Template
BY DEF Template, Labelled

\* What the webhooks, the controllers and users make of a strategy.
LEMMA StrategyTypes ==
  ASSUME NEW a \in Strategy
  PROVE  /\ Released(a) \in Strategy
         /\ [a EXCEPT !.st = "deleting"] \in Strategy
         /\ \A fin \in SUBSET Kinds : [a EXCEPT !.fin = fin] \in Strategy
         /\ \A kind \in Kinds : [a EXCEPT !.fin = @ \cup {kind}] \in Strategy
BY DEF Strategy, Released

\* The strategy and the copies of it.
StrategyOK == as \in Strategy /\ acache \in Strategy /\ aFresh \in BOOLEAN /\ memFresh \in BOOLEAN

\* SafelyAddFinalizerToAccessStrategy, whether there is something to add or not.
LEMMA AddTypes ==
  ASSUME TypeOK,
         UNCHANGED <<asVars, memFresh>> \/ \E kind \in Kinds : AddFinalizer(kind)
  PROVE  StrategyOK'
<1>0. as \in Strategy /\ acache \in Strategy /\ aFresh \in BOOLEAN /\ memFresh \in BOOLEAN
  BY DEF TypeOK
<1>1. CASE UNCHANGED <<asVars, memFresh>>
  BY <1>0, <1>1 DEF asVars, StrategyOK
<1>2. ASSUME NEW kind \in Kinds, StoreStrategy([as EXCEPT !.fin = @ \cup {kind}])
      PROVE  StrategyOK'
  <2>1. [as EXCEPT !.fin = @ \cup {kind}] \in Strategy
    BY <1>0, StrategyTypes
  <2> QED BY <1>0, <1>2, <2>1 DEF StoreStrategy, StrategyOK
<1> QED BY <1>1, <1>2 DEF AddFinalizer

\* The admission of a workspace.
LEMMA DefaultTypes ==
  ASSUME TypeOK, NEW w \in Workspaces, NEW from \in Workspace, NEW to \in Workspace,
         Default(w, from, to)
  PROVE  StrategyOK' /\ req' \in [Workspaces -> WorkspaceWrite]
<1>1. StrategyOK'
  BY AddTypes DEF Default, Kinds
<1>2. [on |-> TRUE, to |-> to, from |-> from] \in WorkspaceWrite
  BY DEF WorkspaceWrite
<1>3. req \in [Workspaces -> WorkspaceWrite]
  BY DEF TypeOK, WorkspaceWrite
<1> QED BY <1>1, <1>2, <1>3 DEF Default

\* The admission of a template, also past the webhook.
LEMMA DefaultTemplateTypes ==
  ASSUME TypeOK, NEW by \in Writers, NEW from \in Template, NEW to \in Template,
         DefaultTemplate(by, from, to)
  PROVE  StrategyOK' /\ treq' \in [Writers -> TemplateWrite] /\ faults' \in 0..MaxFaults
<1>1. StrategyOK'
  BY AddTypes DEF DefaultTemplate, Kinds
<1>2. PICK t \in Template : Pending(by, from, t)
  BY TemplateTypes DEF DefaultTemplate
<1>3. [on |-> TRUE, to |-> t, from |-> from] \in TemplateWrite
  BY DEF TemplateWrite
<1>4. treq \in [Writers -> TemplateWrite]
  BY DEF TypeOK, TemplateWrite
<1>5. treq' \in [Writers -> TemplateWrite]
  BY <1>2, <1>3, <1>4 DEF Pending
<1>6. faults' \in 0..MaxFaults
  BY StrategyAssumption DEF DefaultTemplate, Fault, TypeOK
<1> QED BY <1>1, <1>5, <1>6

\* The count of requests stays within its bound.
LEMMA OpTypes == ASSUME TypeOK, Op \/ ops' = ops PROVE ops' \in 0..MaxOps
<1>1. ops \in 0..MaxOps
  BY DEF TypeOK
<1> QED BY <1>1, StrategyAssumption DEF Op

\* A pass of the strategy controller, the number of its retries included.
LEMMA PassTypes == ASSUME TypeOK, Pass PROVE TypeOK'
<1> USE DEF asVars, wsVars, tmVars
<1>0. as \in Strategy /\ want \in SUBSET Kinds
  BY DEF TypeOK
<1>1. Released([as EXCEPT !.fin = want]) \in Strategy
  BY <1>0, StrategyTypes
<1>2. CASE Reconcile
  <2>1. acache.fin \in SUBSET Kinds
    BY DEF TypeOK, Strategy
  <2> QED BY <1>2, <2>1 DEF Reconcile, TypeOK
<1>3. CASE ListWorkspaces
  BY <1>3 DEF ListWorkspaces, TypeOK, Kinds
<1>4. CASE ListTemplates
  BY <1>4 DEF ListTemplates, TypeOK, Kinds
<1>5. CASE UpdateFinalizers
  <2>1. tries' \in 0..Retries
    <3>1. tries \in 0..Retries /\ 0 \in 0..Retries
      BY StrategyAssumption DEF TypeOK
    <3> QED BY <1>5, <3>1 DEF UpdateFinalizers, SetFinalizers, FailPass
  <2> QED BY <1>1, <1>5, <2>1 DEF UpdateFinalizers, SetFinalizers, FailPass, StoreStrategy, TypeOK
<1>6. CASE RetryFinalizers
  <2>1. tries' \in 0..Retries
    <3>1. tries \in 0..Retries
      BY DEF TypeOK
    <3>2. CASE tries < Retries /\ tries' = tries + 1
      BY <3>1, <3>2, StrategyAssumption
    <3>3. CASE tries' = tries
      BY <3>1, <3>3
    <3> QED BY <1>6, <3>2, <3>3 DEF RetryFinalizers, SetFinalizers, FailPass
  <2> QED BY <1>1, <1>6, <2>1 DEF RetryFinalizers, SetFinalizers, FailPass, StoreStrategy, TypeOK
<1> QED BY <1>2, <1>3, <1>4, <1>5, <1>6 DEF Pass

\* Every step keeps the types.
LEMMA TypesKept == TypeOK /\ [Next]_vars => TypeOK'
<1> SUFFICES ASSUME TypeOK, [Next]_vars PROVE TypeOK'
  OBVIOUS
<1> USE DEF asVars, wsVars, tmVars, passVars
<1>1. CASE Pass
  BY <1>1, PassTypes
<1>2. CASE BackfillLabels
  <2>1. tcache \in Template /\ "controller" \in Writers
    BY DEF TypeOK, Writers
  <2>2. Labelled(tcache) \in Template
    BY <2>1, TemplateTypes
  <2>3. CASE UNCHANGED <<tqueued, treq, asVars, memFresh, faults>>
    BY <1>2, <2>3 DEF BackfillLabels, TypeOK
  <2>4. CASE tqueued' = FALSE /\ DefaultTemplate("controller", tcache, Labelled(tcache))
    <3>1. StrategyOK' /\ treq' \in [Writers -> TemplateWrite] /\ faults' \in 0..MaxFaults
      BY <2>1, <2>2, <2>4, DefaultTemplateTypes
    <3> QED BY <1>2, <2>4, <3>1 DEF BackfillLabels, StrategyOK, TemplateWrite, TypeOK
  <2> QED BY <1>2, <2>3, <2>4 DEF BackfillLabels
<1>3. CASE BackfillFinalizer
  <2>1. StrategyOK' /\ tqueued' \in BOOLEAN
    <3>1. tqueued' \in BOOLEAN
      BY <1>3 DEF BackfillFinalizer, TypeOK
    <3> QED BY <1>3, <3>1, AddTypes DEF BackfillFinalizer, Kinds
  <2> QED BY <1>3, <2>1 DEF BackfillFinalizer, StrategyOK, TypeOK
<1>4. CASE StrategyEvent
  BY <1>4 DEF StrategyEvent, TypeOK
<1>5. CASE TemplateEvent
  BY <1>5 DEF TemplateEvent, Concerns, TypeOK
<1>6. CASE Restart
  <2>1. faults' \in 0..MaxFaults
    BY <1>6, StrategyAssumption DEF Restart, Fault, TypeOK
  <2> QED BY <1>6, <2>1, EmptyTypes DEF Restart, WorkspaceWrite, TemplateWrite, TypeOK
<1>7. CASE DeleteStrategy \/ CreateStrategy \/ EditStrategy
  <2>1. as \in Strategy
    BY DEF TypeOK
  <2>2. Released([as EXCEPT !.st = "deleting"]) \in Strategy
    BY <2>1, StrategyTypes
  <2>3. [st |-> "present", fin |-> {}] \in Strategy
    BY DEF Strategy
  <2>4. PICK a \in Strategy : StoreStrategy(a)
    BY <1>7, <2>1, <2>2, <2>3 DEF DeleteStrategy, CreateStrategy, EditStrategy
  <2>5. ops' \in 0..MaxOps
    BY <1>7, OpTypes DEF DeleteStrategy, CreateStrategy, EditStrategy
  <2>6. UNCHANGED <<wsVars, tmVars, queued, pc, mem, want, tries, faults>>
    BY <1>7 DEF DeleteStrategy, CreateStrategy, EditStrategy
  <2> QED BY <2>4, <2>5, <2>6 DEF StoreStrategy, TypeOK
<1>8. CASE DeleteTemplate \/ TemplateGone
  <2>1. tm \in Template
    BY DEF TypeOK
  <2>2. tm' \in Template
    BY <1>8, <2>1, TemplateTypes, EmptyTypes DEF DeleteTemplate, TemplateGone
  <2>3. ops' \in 0..MaxOps
    BY <1>8, OpTypes DEF DeleteTemplate, TemplateGone
  <2> QED BY <1>8, <2>2, <2>3 DEF DeleteTemplate, TemplateGone, TypeOK
<1>9. ASSUME NEW by \in Writers, StoreTemplate(by) PROVE TypeOK'
  <2>1. treq \in [Writers -> TemplateWrite] /\ tm \in Template
    BY DEF TypeOK, TemplateWrite
  <2>2. treq[by].to \in Template
    BY <2>1 DEF TemplateWrite
  <2>3. treq' \in [Writers -> TemplateWrite]
    BY <1>9, <2>1, EmptyTypes DEF StoreTemplate
  <2> QED BY <1>9, <2>2, <2>3 DEF StoreTemplate, TemplateWrite, TypeOK
<1>10. ASSUME NEW ref \in BOOLEAN, WriteTemplate(ref) PROVE TypeOK'
  <2>1. tm \in Template /\ "user" \in Writers
    BY DEF TypeOK, Writers
  <2>2. [tm EXCEPT !.st = "present", !.ref = ref] \in Template
    BY <2>1, TemplateTypes
  <2>3. StrategyOK' /\ treq' \in [Writers -> TemplateWrite] /\ faults' \in 0..MaxFaults
    BY <1>10, <2>1, <2>2, DefaultTemplateTypes DEF WriteTemplate
  <2>4. ops' \in 0..MaxOps
    BY <1>10, OpTypes DEF WriteTemplate
  <2> QED BY <1>10, <2>3, <2>4 DEF WriteTemplate, StrategyOK, TemplateWrite, TypeOK
<1>11. ASSUME NEW w \in Workspaces, UpdateMetadata(w) PROVE TypeOK'
  <2>1. wcache[w] \in Workspace
    BY DEF TypeOK
  <2>2. [wcache[w] EXCEPT !.label = wcache[w].ref, !.fin = TRUE] \in Workspace
    BY <2>1, WorkspaceTypes
  <2>3. StrategyOK' /\ req' \in [Workspaces -> WorkspaceWrite]
    BY <1>11, <2>1, <2>2, DefaultTypes DEF UpdateMetadata
  <2> QED BY <1>11, <2>3 DEF UpdateMetadata, StrategyOK, WorkspaceWrite, TypeOK
<1>12. ASSUME NEW w \in Workspaces, NEW ref \in BOOLEAN, WriteWorkspace(w, ref) PROVE TypeOK'
  <2>1. ws[w] \in Workspace
    BY DEF TypeOK
  <2>2. [ws[w] EXCEPT !.st = "active", !.ref = ref] \in Workspace
    BY <2>1, WorkspaceTypes
  <2>3. StrategyOK' /\ req' \in [Workspaces -> WorkspaceWrite]
    BY <1>12, <2>1, <2>2, DefaultTypes DEF WriteWorkspace
  <2>4. ops' \in 0..MaxOps
    BY <1>12, OpTypes DEF WriteWorkspace
  <2> QED BY <1>12, <2>3, <2>4 DEF WriteWorkspace, StrategyOK, WorkspaceWrite, TypeOK
<1>13. ASSUME NEW w \in Workspaces, StoreWorkspace(w) PROVE TypeOK'
  <2>1. req \in [Workspaces -> WorkspaceWrite] /\ ws[w] \in Workspace
    BY DEF TypeOK, WorkspaceWrite
  <2>2. req[w].to \in Workspace
    BY <2>1 DEF WorkspaceWrite
  <2>3. req' \in [Workspaces -> WorkspaceWrite]
    BY <1>13, <2>1, EmptyTypes DEF StoreWorkspace
  <2> QED BY <1>13, <2>1, <2>2, <2>3 DEF StoreWorkspace, WorkspaceWrite, TypeOK
<1>14. ASSUME NEW w \in Workspaces, DeleteWorkspace(w) \/ WorkspaceGone(w) PROVE TypeOK'
  <2>1. ws[w] \in Workspace
    BY DEF TypeOK
  <2>2. Absent \in Workspace /\ [ws[w] EXCEPT !.st = "deleting"] \in Workspace
    BY <2>1, WorkspaceTypes, EmptyTypes
  <2>3. ops' \in 0..MaxOps
    BY <1>14, OpTypes DEF DeleteWorkspace, WorkspaceGone
  <2> QED BY <1>14, <2>2, <2>3 DEF DeleteWorkspace, WorkspaceGone, TypeOK
<1>15. ASSUME NEW w \in Workspaces, WorkspaceEvent(w) PROVE TypeOK'
  BY <1>15 DEF WorkspaceEvent, Concerns, TypeOK
<1>16. CASE UNCHANGED vars
  BY <1>16 DEF vars, TypeOK
<1> QED BY <1>1, <1>2, <1>3, <1>4, <1>5, <1>6, <1>7, <1>8, <1>9, <1>10, <1>11, <1>12, <1>13,
           <1>14, <1>15, <1>16 DEF Next

\* Every variable always has its type; above all, a conflict is retried no more often
\* than retry.DefaultRetry allows (reconcileFinalizers).
THEOREM TypeCorrect == Spec => []TypeOK
<1>1. Init => TypeOK
  <2> SUFFICES ASSUME Init PROVE TypeOK
    OBVIOUS
  <2>1. as \in Strategy
    BY DEF Init, Strategy
  <2>2. tries \in 0..Retries /\ ops \in 0..MaxOps /\ faults \in 0..MaxFaults
    BY StrategyAssumption DEF Init
  <2>3. ws \in [Workspaces -> Workspace] /\ req \in [Workspaces -> WorkspaceWrite]
    BY EmptyTypes DEF Init
  <2>4. tm \in Template /\ treq \in [Writers -> TemplateWrite]
    BY EmptyTypes DEF Init
  <2> QED BY <2>1, <2>2, <2>3, <2>4 DEF Init, WorkspaceWrite, TemplateWrite, TypeOK
<1> QED BY <1>1, TypesKept, PTL DEF Spec

-----------------------------------------------------------------------------
(* The inductive invariant of TemplateProtection *)

\* The workspaces, stored and cached, are functions.
TFunctions == ws = [v \in Workspaces |-> ws[v]] /\ wcache = [v \in Workspaces |-> wcache[v]]

\* A copy of the template that counts as current is.
TCacheCurrent == cacheFresh => tcache = template
TCopyCurrent == pc = "list" /\ memFresh => mem = template

\* A pass with an outdated copy is followed by another one.
TOutdatedPassFollowed == pc # "idle" /\ ~memFresh => queued \/ ~cacheFresh

TemplateInv == TFunctions /\ TCacheCurrent /\ TCopyCurrent /\ TOutdatedPassFollowed /\ TP!Attended

-----------------------------------------------------------------------------
(* Two kinds of steps of TemplateProtection *)

\* A write of the template is followed by an event.  All that is left to show is
\* that the pass does not take its copy for current.
LEMMA TWriteKeeps ==
  ASSUME TFunctions', ~cacheFresh', pc' = "list" => ~memFresh'
  PROVE  TemplateInv'
BY DEF TemplateInv, TCacheCurrent, TCopyCurrent, TOutdatedPassFollowed, TP!Attended

\* A step that leaves the template, its copies, the informers and the pass alone.
LEMMA TElsewhereKeeps ==
  ASSUME TemplateInv, TFunctions',
         UNCHANGED <<template, tcache, cacheFresh, wcache, queued, pc, mem, memFresh>>
  PROVE  TemplateInv'
BY DEF TemplateInv, TCacheCurrent, TCopyCurrent, TOutdatedPassFollowed, TP!Attended, TP!Wrong,
       TP!HasActiveWorkspaces, TP!Active

-----------------------------------------------------------------------------
(* The invariant is inductive *)

\* It holds of a new template without workspaces.
LEMMA TInitInv ==
  TP!Init => TemplateInv
BY DEF TP!Init, TemplateInv, TFunctions, TCacheCurrent, TCopyCurrent, TOutdatedPassFollowed,
   TP!Attended

\* Passes of the controller keep it: a pass ends without a successor only when the
\* finalizer agrees with what the informer knows.
LEMMA TPassKeeps ==
  ASSUME TemplateInv, TP!Pass \/ TP!WriteFails
  PROVE  TemplateInv'
<1>1. CASE TP!Reconcile
  <2>1. TFunctions'
    BY <1>1 DEF TP!Reconcile, TP!apiVars, TemplateInv, TFunctions
  <2>2. CASE pc' = "list" /\ mem' = tcache /\ memFresh' = cacheFresh
    BY <1>1, <2>1, <2>2
       DEF TP!Reconcile, TP!apiVars, TemplateInv, TCacheCurrent, TCopyCurrent,
           TOutdatedPassFollowed, TP!Attended
  <2>3. CASE /\ tcache.st = "gone" \/ (tcache.st = "deleting" /\ ~tcache.fin)
             /\ UNCHANGED <<pc, mem, memFresh>>
    <3>1. TP!Attended'
      BY <1>1, <2>3 DEF TP!Reconcile, TP!apiVars, TemplateInv, TCacheCurrent, TP!Attended, TP!Wrong,
                        TP!HasActiveWorkspaces, TP!Active
    <3> QED BY <1>1, <2>1, <2>3, <3>1
               DEF TP!Reconcile, TP!apiVars, TemplateInv, TCacheCurrent, TCopyCurrent,
                   TOutdatedPassFollowed
  <2> QED BY <1>1, <2>2, <2>3 DEF TP!Reconcile
<1>2. CASE TP!ListWorkspaces
  <2>1. TFunctions' /\ TCacheCurrent'
    BY <1>2 DEF TP!ListWorkspaces, TP!apiVars, TemplateInv, TFunctions, TCacheCurrent
  <2>2. pc' # "list" /\ TP!HasActiveWorkspaces' = TP!HasActiveWorkspaces
    BY <1>2 DEF TP!ListWorkspaces, TP!AfterFinalizer, TP!HasActiveWorkspaces, TP!Active
  <2>3. TCopyCurrent' /\ TOutdatedPassFollowed'
    BY <1>2, <2>2 DEF TP!ListWorkspaces, TemplateInv, TCopyCurrent, TOutdatedPassFollowed
  <2>4. CASE mem.fin = TP!HasActiveWorkspaces
    <3>1. memFresh => ~TP!Wrong'
      BY <1>2, <2>2, <2>4 DEF TP!ListWorkspaces, TP!apiVars, TemplateInv, TCopyCurrent, TP!Wrong
    <3>2. TP!Attended'
      BY <1>2, <3>1 DEF TP!ListWorkspaces, TemplateInv, TOutdatedPassFollowed, TP!Attended
    <3> QED BY <2>1, <2>3, <3>2 DEF TemplateInv
  <2>5. CASE pc' = "write"
    BY <2>1, <2>3, <2>5 DEF TemplateInv, TP!Attended
  <2> QED BY <1>2, <2>4, <2>5 DEF TP!ListWorkspaces
<1>3. CASE TP!WriteFinalizer \/ TP!UpdateStatusObservedGeneration \/ TP!WriteFails
  <2>1. TFunctions'
    BY <1>3 DEF TP!WriteFinalizer, TP!UpdateStatusObservedGeneration, TP!WriteFails, TemplateInv,
       TFunctions
  <2>2. CASE cacheFresh' = FALSE /\ pc' # "list"
    BY <2>1, <2>2, TWriteKeeps
  <2>3. CASE TP!FailPass /\ UNCHANGED tcache
    BY <2>1, <2>3 DEF TP!FailPass, TemplateInv, TCacheCurrent, TCopyCurrent,
       TOutdatedPassFollowed, TP!Attended
  <2> QED BY <1>3, <2>2, <2>3
             DEF TP!WriteFinalizer, TP!UpdateStatusObservedGeneration, TP!WriteFails,
                 TP!StoreTemplate,
                 TP!AfterFinalizer
<1> QED BY <1>1, <1>2, <1>3 DEF TP!Pass

\* An event of a workspace wakes the controller when it changes who uses the
\* template, because a workspace that uses it has its label.
LEMMA WorkspaceEventKeeps ==
  ASSUME TemplateInv, NEW w \in Workspaces, TP!WorkspaceEvent(w)
  PROVE  TemplateInv'
<1>1. TFunctions' /\ TCacheCurrent' /\ TCopyCurrent' /\ TOutdatedPassFollowed'
  BY DEF TP!WorkspaceEvent, TP!apiVars, TemplateInv, TFunctions, TCacheCurrent, TCopyCurrent,
         TOutdatedPassFollowed
<1>2. CASE TP!MapsToTemplate(w)
  BY <1>1, <1>2 DEF TP!WorkspaceEvent, TemplateInv, TP!Attended
<1>3. CASE ~TP!MapsToTemplate(w)
  <2>1. \A v \in Workspaces : TP!Active(v)' <=> TP!Active(v)
    <3> TAKE v \in Workspaces
    <3>1. CASE v = w
      BY <1>3, <3>1 DEF TP!WorkspaceEvent, TP!MapsToTemplate, TP!Active, TemplateInv, TFunctions
    <3>2. CASE v # w
      BY <3>2 DEF TP!WorkspaceEvent, TP!Active, TemplateInv, TFunctions
    <3> QED BY <3>1, <3>2
  <2>2. TP!HasActiveWorkspaces' <=> TP!HasActiveWorkspaces
    BY <2>1 DEF TP!HasActiveWorkspaces
  <2>3. TP!HasActiveWorkspaces' = TP!HasActiveWorkspaces
    BY <2>2 DEF TP!HasActiveWorkspaces
  <2>4. TP!Attended'
    BY <2>3 DEF TP!WorkspaceEvent, TP!apiVars, TemplateInv, TP!Attended, TP!Wrong
  <2> QED BY <1>1, <2>4 DEF TemplateInv
<1> QED BY <1>2, <1>3

\* Every step keeps it.
LEMMA TNextInv ==
  ASSUME TemplateInv, [TP!Next]_(TP!vars)
  PROVE  TemplateInv'
<1>1. CASE TP!Pass \/ TP!WriteFails
  BY <1>1, TPassKeeps
<1>2. CASE TP!TemplateEvent
  BY <1>2 DEF TP!TemplateEvent, TP!apiVars, TemplateInv, TFunctions, TCacheCurrent, TCopyCurrent,
              TOutdatedPassFollowed, TP!Attended
<1>3. CASE TP!Restart
  BY <1>3 DEF TP!Restart, TP!apiVars, TemplateInv, TFunctions, TCacheCurrent, TCopyCurrent,
              TOutdatedPassFollowed, TP!Attended
<1>4. CASE TP!DeleteTemplate \/ TP!EditTemplate
  <2>1. TFunctions' /\ ~cacheFresh' /\ ~memFresh'
    BY <1>4 DEF TP!DeleteTemplate, TP!EditTemplate, TP!StoreTemplate, TemplateInv, TFunctions
  <2> QED BY <2>1, TWriteKeeps
<1>5. ASSUME NEW w \in Workspaces, TP!WorkspaceEvent(w) PROVE TemplateInv'
  BY <1>5, WorkspaceEventKeeps
<1>6. ASSUME NEW w \in Workspaces, TP!AddFinalizer(w) PROVE TemplateInv'
  <2>1. TFunctions'
    BY <1>6 DEF TP!AddFinalizer, TemplateInv, TFunctions
  <2>2. CASE ~cacheFresh' /\ ~memFresh'
    BY <2>1, <2>2, TWriteKeeps
  <2>3. CASE UNCHANGED <<template, cacheFresh, memFresh>>
    BY <1>6, <2>1, <2>3, TElsewhereKeeps DEF TP!AddFinalizer
  <2> QED BY <1>6, <2>2, <2>3 DEF TP!AddFinalizer, TP!StoreTemplate
<1>7. ASSUME NEW w \in Workspaces,
             \/ TP!UpdateMetadata(w) \/ TP!StoreWorkspace(w) \/ TP!DeleteWorkspace(w)
             \/ TP!WorkspaceGone(w) \/ \E ref \in Refs \cup {"none"} : TP!WriteWorkspace(w, ref)
      PROVE  TemplateInv'
  <2>1. TFunctions'
    BY <1>7 DEF TP!UpdateMetadata, TP!StoreWorkspace, TP!DeleteWorkspace, TP!WorkspaceGone,
       TP!WriteWorkspace,
                TP!apiVars, TemplateInv, TFunctions
  <2>2. UNCHANGED <<template, tcache, cacheFresh, wcache, queued, pc, mem, memFresh>>
    BY <1>7 DEF TP!UpdateMetadata, TP!StoreWorkspace, TP!DeleteWorkspace, TP!WorkspaceGone,
       TP!WriteWorkspace,
                TP!apiVars, TP!passVars
  <2> QED BY <2>1, <2>2, TElsewhereKeeps
<1>8. CASE UNCHANGED TP!vars
  <2>1. TFunctions'
    BY <1>8 DEF TP!vars, TemplateInv, TFunctions
  <2> QED BY <1>8, <2>1, TElsewhereKeeps DEF TP!vars
<1> QED BY <1>1, <1>2, <1>3, <1>4, <1>5, <1>6, <1>7, <1>8 DEF TP!Next

-----------------------------------------------------------------------------
(* The template controller misses nothing *)

\* However many workspaces there are and whatever users, the webhook, failed calls
\* and restarts do: whenever the finalizer disagrees with the workspaces that the
\* informer knows, the controller (WorkspaceTemplateReconciler) is going to look.
THEOREM TemplateAlwaysAttended == TP!Spec => []TP!Attended
<1>1. TP!Init => TemplateInv
  BY TInitInv
<1>2. TemplateInv /\ [TP!Next]_(TP!vars) => TemplateInv'
  BY TNextInv
<1>3. TemplateInv => TP!Attended
  BY DEF TemplateInv
<1> QED BY <1>1, <1>2, <1>3, PTL DEF TP!Spec

-----------------------------------------------------------------------------
(* Type correctness of TemplateProtection *)

\* Users refer to the template in one of the two ways there are (ProtectionAssumption).
RefsKnown == Refs \subseteq {"own", "shared"}

\* What is not there has its type too.
LEMMA NoRequestType == TP!NoRequest \in TP!Request /\ TP!Absent \in TP!Workspace
BY DEF TP!NoRequest, TP!Absent, TP!Request, TP!Workspace, TP!Namespaces

\* What users and the workspace controller make of a workspace.
LEMMA TWorkspaceTypes ==
  ASSUME NEW v \in TP!Workspace
  PROVE  /\ [v EXCEPT !.label = v.ref, !.fin = TRUE] \in TP!Workspace
         /\ [v EXCEPT !.st = "deleting"] \in TP!Workspace
         /\ \A ref \in TP!Namespaces :
              [v EXCEPT !.st = "active", !.ref = ref,
                        !.label = IF ref = "none" THEN @ ELSE ref] \in TP!Workspace
BY DEF TP!Workspace, TP!Namespaces

\* What the webhook, the controller and users make of a template.
LEMMA TTemplateTypes ==
  ASSUME NEW t \in TP!Template
  PROVE  /\ TP!Released(t) \in TP!Template
         /\ [t EXCEPT !.st = "deleting"] \in TP!Template
         /\ [t EXCEPT !.gen = @ + 1] \in TP!Template
         /\ \A fin \in BOOLEAN : [t EXCEPT !.fin = fin] \in TP!Template
         /\ \A n \in Nat : [t EXCEPT !.obs = n] \in TP!Template
BY DEF TP!Template, TP!Released

\* An admission is one, whether the finalizer has to be added or not.
LEMMA TDefaultTypes ==
  ASSUME TP!TypeOK, NEW w \in Workspaces, NEW to \in TP!Workspace, ws[w].st \in {"absent",
      "active"},
         TP!Default(w, to)
  PROVE  req' \in [Workspaces -> TP!Request]
<1>1. cacheFresh \in BOOLEAN
  BY DEF TP!TypeOK
<1>2. ASSUME NEW at \in {"store", "add"}, NEW fresh \in BOOLEAN
      PROVE  [at |-> at, to |-> to, from |-> ws[w].st, fresh |-> fresh] \in TP!Request
  BY DEF TP!Request
<1>3. req \in [Workspaces -> TP!Request]
  BY DEF TP!TypeOK
<1>4. PICK r \in TP!Request : req' = [req EXCEPT ![w] = r]
  BY <1>1, <1>2 DEF TP!Default
<1> QED BY <1>3, <1>4

\* So it is when its copy of the template becomes old.
LEMMA StaleTypes ==
  ASSUME TP!TypeOK
  PROVE  TP!StaleRequests \in [Workspaces -> TP!Request]
BY DEF TP!TypeOK, TP!StaleRequests, TP!Request

\* Every step keeps the types.
LEMMA TTypesKept ==
  ASSUME RefsKnown, TP!TypeOK, [TP!Next]_(TP!vars)
  PROVE  TP!TypeOK'
<1> USE DEF TP!apiVars, TP!passVars
<1>1. CASE TP!Reconcile
  BY <1>1 DEF TP!Reconcile, TP!TypeOK
<1>2. CASE TP!ListWorkspaces
  <2>1. TP!HasActiveWorkspaces \in BOOLEAN
    BY DEF TP!HasActiveWorkspaces
  <2>2. [mem EXCEPT !.fin = TP!HasActiveWorkspaces] \in TP!Template
    BY <2>1, TTemplateTypes DEF TP!TypeOK
  <2> QED BY <1>2, <2>2 DEF TP!ListWorkspaces, TP!AfterFinalizer, TP!TypeOK
<1>3. CASE TP!WriteFinalizer
  <2>1. mem.fin \in BOOLEAN
    BY DEF TP!TypeOK, TP!Template
  <2>2. TP!Released([template EXCEPT !.fin = mem.fin]) \in TP!Template
    BY <2>1, TTemplateTypes DEF TP!TypeOK
  <2> QED BY <1>3, <2>2, StaleTypes
             DEF TP!WriteFinalizer, TP!AfterFinalizer, TP!StoreTemplate, TP!FailPass, TP!TypeOK
<1>4. CASE TP!UpdateStatusObservedGeneration
  <2>1. mem.gen \in Nat
    BY DEF TP!TypeOK, TP!Template
  <2>2. [template EXCEPT !.obs = mem.gen] \in TP!Template
    BY <2>1, TTemplateTypes DEF TP!TypeOK
  <2> QED BY <1>4, <2>2, StaleTypes
             DEF TP!UpdateStatusObservedGeneration, TP!StoreTemplate, TP!FailPass, TP!TypeOK
<1>5. CASE TP!WriteFails
  BY <1>5 DEF TP!WriteFails, TP!Fault, TP!FailPass, TP!TypeOK
<1>6. CASE TP!TemplateEvent
  BY <1>6 DEF TP!TemplateEvent, TP!TypeOK
<1>7. CASE TP!Restart
  BY <1>7, NoRequestType DEF TP!Restart, TP!Fault, TP!TypeOK
<1>8. CASE TP!DeleteTemplate
  <2>1. TP!Released([template EXCEPT !.st = "deleting"]) \in TP!Template
    BY TTemplateTypes DEF TP!TypeOK
  <2>2. req' \in [Workspaces -> TP!Request]
    BY <1>8, StaleTypes DEF TP!DeleteTemplate
  <2>3. ops' \in Nat
    BY <1>8 DEF TP!DeleteTemplate, TP!Op, TP!TypeOK
  <2> QED BY <1>8, <2>1, <2>2, <2>3 DEF TP!DeleteTemplate, TP!StoreTemplate, TP!TypeOK
<1>9. CASE TP!EditTemplate
  <2>1. [template EXCEPT !.gen = @ + 1] \in TP!Template
    BY TTemplateTypes DEF TP!TypeOK
  <2>2. req' \in [Workspaces -> TP!Request]
    BY <1>9, StaleTypes DEF TP!EditTemplate
  <2>3. ops' \in Nat
    BY <1>9 DEF TP!EditTemplate, TP!Op, TP!TypeOK
  <2> QED BY <1>9, <2>1, <2>2, <2>3 DEF TP!EditTemplate, TP!StoreTemplate, TP!TypeOK
<1>10. ASSUME NEW w \in Workspaces, TP!UpdateMetadata(w) PROVE TP!TypeOK'
  <2>1. [ws[w] EXCEPT !.label = ws[w].ref, !.fin = TRUE] \in TP!Workspace
    BY TWorkspaceTypes DEF TP!TypeOK
  <2>2. req' \in [Workspaces -> TP!Request]
    BY <1>10, <2>1, TDefaultTypes DEF TP!UpdateMetadata
  <2> QED BY <1>10, <2>2 DEF TP!UpdateMetadata, TP!TypeOK
<1>11. ASSUME NEW w \in Workspaces, NEW ref \in Refs \cup {"none"}, TP!WriteWorkspace(w, ref)
       PROVE  TP!TypeOK'
  <2>1. [ws[w] EXCEPT !.st = "active", !.ref = ref,
                      !.label = IF ref = "none" THEN @ ELSE ref] \in TP!Workspace
    BY TWorkspaceTypes DEF TP!TypeOK, TP!Namespaces, RefsKnown
  <2>2. req' \in [Workspaces -> TP!Request]
    BY <1>11, <2>1, TDefaultTypes DEF TP!WriteWorkspace
  <2> QED BY <1>11, <2>2 DEF TP!WriteWorkspace, TP!Op, TP!TypeOK
<1>12. ASSUME NEW w \in Workspaces, TP!AddFinalizer(w) PROVE TP!TypeOK'
  <2>1. TP!NoRequest \in TP!Request
    BY NoRequestType
  <2>2. [TP!StaleRequests EXCEPT ![w].at = "store"] \in [Workspaces -> TP!Request]
    BY StaleTypes DEF TP!Request
  <2>3. [template EXCEPT !.fin = TRUE] \in TP!Template
    BY TTemplateTypes DEF TP!TypeOK
  <2> QED BY <1>12, <2>1, <2>2, <2>3 DEF TP!AddFinalizer, TP!StoreTemplate, TP!TypeOK
<1>13. ASSUME NEW w \in Workspaces, TP!StoreWorkspace(w) PROVE TP!TypeOK'
  <2>1. TP!NoRequest \in TP!Request
    BY NoRequestType
  <2>2. req[w].to \in TP!Workspace
    BY DEF TP!TypeOK, TP!Request
  <2> QED BY <1>13, <2>1, <2>2 DEF TP!StoreWorkspace, TP!TypeOK
<1>14. ASSUME NEW w \in Workspaces, TP!WorkspaceEvent(w) PROVE TP!TypeOK'
  BY <1>14 DEF TP!WorkspaceEvent, TP!MapsToTemplate, TP!TypeOK
<1>15. ASSUME NEW w \in Workspaces, TP!DeleteWorkspace(w) \/ TP!WorkspaceGone(w) PROVE TP!TypeOK'
  <2>1. TP!Absent \in TP!Workspace /\ [ws[w] EXCEPT !.st = "deleting"] \in TP!Workspace
    BY TWorkspaceTypes, NoRequestType DEF TP!TypeOK
  <2> QED BY <1>15, <2>1 DEF TP!DeleteWorkspace, TP!WorkspaceGone, TP!Op, TP!TypeOK
<1>16. CASE UNCHANGED TP!vars
  BY <1>16 DEF TP!vars, TP!TypeOK
<1> QED BY <1>1, <1>2, <1>3, <1>4, <1>5, <1>6, <1>7, <1>8, <1>9, <1>10, <1>11, <1>12, <1>13,
           <1>14, <1>15, <1>16 DEF TP!Next, TP!Pass

\* Every variable always has its type: admissions, the controller (manageFinalizer,
\* handleDeletion) and users store nothing but templates and workspaces.
THEOREM TemplateTypeCorrect == RefsKnown => (TP!Spec => []TP!TypeOK)
<1> SUFFICES ASSUME RefsKnown PROVE TP!Spec => []TP!TypeOK
  OBVIOUS
<1>1. TP!Init => TP!TypeOK
  <2> SUFFICES ASSUME TP!Init PROVE TP!TypeOK
    OBVIOUS
  <2>1. template \in TP!Template
    BY DEF TP!Init, TP!Template
  <2> QED BY <2>1, NoRequestType DEF TP!Init, TP!TypeOK
<1>2. TP!TypeOK /\ [TP!Next]_(TP!vars) => TP!TypeOK'
  BY TTypesKept
<1> QED BY <1>1, <1>2, PTL DEF TP!Spec

\* Whatever users, admissions, failed calls and restarts do, a finalizer that disagrees with the
\* referrers the informers know is going to be looked at: Attended is invariant for access
\* strategies (findAccessStrategiesForWorkspace, findAccessStrategiesForTemplate) and for
\* templates (findTemplatesForWorkspace).
THEOREM AlwaysAttended == (Spec => []Attended) /\ (TP!Spec => []TP!Attended)
BY StrategyAlwaysAttended, TemplateAlwaysAttended
=============================================================================

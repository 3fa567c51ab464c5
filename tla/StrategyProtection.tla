--------------------------- MODULE StrategyProtection ---------------------------
(***************************************************************************)
(* The two finalizers that keep a WorkspaceAccessStrategy alive while      *)
(* workspaces and templates refer to it.  The webhooks add a finalizer     *)
(* when a reference is admitted, the template controller adds the one of   *)
(* templates again, and the strategy controller adds and removes both      *)
(* after what the labels of workspaces and templates say.  Labels follow   *)
(* the references: on templates from the webhook (which a write may        *)
(* bypass) or the template controller, on workspaces from the workspace    *)
(* controller alone.  One strategy, one template, several workspaces.      *)
(***************************************************************************)
EXTENDS Naturals, FiniteSets

CONSTANTS
  Workspaces,
  MaxOps,       \* requests of users
  MaxFaults,    \* restarts of the manager, writes that bypass the template webhook
  Retries       \* retries of a conflicting write (retry.DefaultRetry)

ASSUME StrategyAssumption == MaxOps \in Nat /\ MaxFaults \in Nat /\ Retries \in Nat

VARIABLES
  as, acache, aFresh,          \* the strategy, the informer's copy, and if it is current
  ws, wcache, req,             \* workspaces, the informer's copies, their admission
  tm, tcache, treq, tqueued,   \* the template, likewise, and its controller's queue
  queued, pc, mem, memFresh,   \* the strategy controller: queue, pass, finalizers of the
  want, tries,                 \* working copy, if it is current, those wanted, retries
  ops, faults

asVars == <<as, acache, aFresh>>
wsVars == <<ws, wcache, req>>
tmVars == <<tm, tcache, treq, tqueued>>
passVars == <<queued, pc, mem, memFresh, want, tries>>
vars == <<asVars, wsVars, tmVars, passVars, ops, faults>>

Kinds == {"workspace", "template"}
Writers == {"user", "controller"}
Strategy == [st: {"present", "deleting", "gone"}, fin: SUBSET Kinds]
Workspace == [st: {"absent", "active", "deleting"}, ref: BOOLEAN, label: BOOLEAN, fin: BOOLEAN]
Template == [st: {"gone", "present", "deleting"}, ref: BOOLEAN, label: BOOLEAN]

Absent == [st |-> "absent", ref |-> FALSE, label |-> FALSE, fin |-> FALSE]
NoTemplate == [st |-> "gone", ref |-> FALSE, label |-> FALSE]
NoRequest == [on |-> FALSE, to |-> Absent, from |-> Absent]
NoWrite == [on |-> FALSE, to |-> NoTemplate, from |-> NoTemplate]

Op == ops < MaxOps /\ ops' = ops + 1
Fault == faults < MaxFaults /\ faults' = faults + 1

-----------------------------------------------------------------------------
(* The API server *)

\* A strategy without finalizers goes when it is being deleted.
Released(a) == IF a.st = "deleting" /\ a.fin = {} THEN [a EXCEPT !.st = "gone"] ELSE a

\* No finalizer may be added to an object that is being deleted.
MaySet(fin) == as.st = "present" \/ (as.st = "deleting" /\ fin \subseteq as.fin)

StoreStrategy(a) == as' = a /\ aFresh' = FALSE /\ memFresh' = FALSE /\ UNCHANGED acache

-----------------------------------------------------------------------------
(* Queries, answered by the informers *)

\* Variant: workspaces that are being deleted count.
AnyWorkspaces == \E w \in Workspaces : wcache[w].ref /\ wcache[w].label

HasActiveWorkspaces ==
  \E w \in Workspaces : wcache[w].st = "active" /\ wcache[w].ref /\ wcache[w].label

\* By label alone.
HasActiveTemplates == tcache.st = "present" /\ tcache.label

-----------------------------------------------------------------------------
(* SafelyAddFinalizerToAccessStrategy for one kind of referrer *)

Missing == acache.st = "gone"

\* A conflicting write is an error, unless the informer has the finalizer meanwhile.
AddFails(kind) ==
  ~Missing /\ kind \notin acache.fin /\ ~(aFresh /\ MaySet(as.fin \cup {kind}))

\* The finalizer is there, or the write succeeds.
AddFinalizer(kind) ==
  /\ ~Missing
  /\ \/ kind \in acache.fin /\ UNCHANGED <<asVars, memFresh>>
     \/ /\ kind \notin acache.fin /\ aFresh /\ MaySet(as.fin \cup {kind})
        /\ StoreStrategy([as EXCEPT !.fin = @ \cup {kind}])

-----------------------------------------------------------------------------
(* Workspaces *)

\* The webhook: a reference needs its strategy and the finalizer.
Default(w, from, to) ==
  /\ req' = [req EXCEPT ![w] = [on |-> TRUE, to |-> to, from |-> from]]
  /\ IF to.ref THEN AddFinalizer("workspace") ELSE UNCHANGED <<asVars, memFresh>>

\* A user creates a workspace or changes its reference.
WriteWorkspace(w, ref) ==
  /\ Op /\ ~req[w].on
  /\ ws[w].st = "absent" \/ (ws[w].st = "active" /\ ws[w].ref # ref)
  /\ Default(w, ws[w], [ws[w] EXCEPT !.st = "active", !.ref = ref])
  /\ UNCHANGED <<ws, wcache, tmVars, queued, pc, mem, want, tries, faults>>

\* Variant: the label is only set together with the finalizer.
LabelNewWorkspaces(w) ==
  /\ ~req[w].on /\ wcache[w].st = "active" /\ ~wcache[w].fin
  /\ Default(w, wcache[w], [wcache[w] EXCEPT !.label = wcache[w].ref, !.fin = TRUE])
  /\ UNCHANGED <<ws, wcache, tmVars, queued, pc, mem, want, tries, ops, faults>>

\* The workspace controller sets its finalizer and the label, from the informer's copy.
UpdateMetadata(w) ==
  /\ ~req[w].on /\ wcache[w].st = "active" /\ (~wcache[w].fin \/ wcache[w].label # wcache[w].ref)
  /\ Default(w, wcache[w], [wcache[w] EXCEPT !.label = wcache[w].ref, !.fin = TRUE])
  /\ UNCHANGED <<ws, wcache, tmVars, queued, pc, mem, want, tries, ops, faults>>

\* The workspace is stored unless it has changed meanwhile.
StoreWorkspace(w) ==
  /\ req[w].on /\ req' = [req EXCEPT ![w] = NoRequest]
  /\ ws' = [ws EXCEPT ![w] = IF ws[w] = req[w].from THEN req[w].to ELSE @]
  /\ UNCHANGED <<asVars, wcache, tmVars, passVars, ops, faults>>

DeleteWorkspace(w) ==
  /\ Op /\ ws[w].st = "active"
  /\ ws' = [ws EXCEPT ![w] = IF ws[w].fin THEN [ws[w] EXCEPT !.st = "deleting"] ELSE Absent]
  /\ UNCHANGED <<asVars, wcache, req, tmVars, passVars, faults>>

\* The workspace controller has cleaned up.
WorkspaceGone(w) ==
  /\ ws[w].st = "deleting" /\ ws' = [ws EXCEPT ![w] = Absent]
  /\ UNCHANGED <<asVars, wcache, req, tmVars, passVars, ops, faults>>

-----------------------------------------------------------------------------
(* The template *)

\* ApplyAccessStrategyLabels
Labelled(t) == [t EXCEPT !.label = t.ref]

Pending(by, from, to) == treq' = [treq EXCEPT ![by] = [on |-> TRUE, to |-> to, from |-> from]]

\* The webhook of templates, which a write bypasses when it cannot be reached.
DefaultTemplate(by, from, to) ==
  \/ /\ Pending(by, from, Labelled(to)) /\ UNCHANGED faults
     /\ IF to.ref THEN AddFinalizer("template") ELSE UNCHANGED <<asVars, memFresh>>
  \/ Fault /\ Pending(by, from, to) /\ UNCHANGED <<asVars, memFresh>>

\* A user creates the template or changes its reference.
WriteTemplate(ref) ==
  /\ Op /\ ~treq["user"].on
  /\ tm.st = "gone" \/ (tm.st = "present" /\ tm.ref # ref)
  /\ DefaultTemplate("user", tm, [tm EXCEPT !.st = "present", !.ref = ref])
  /\ UNCHANGED <<wsVars, tm, tcache, tqueued, queued, pc, mem, want, tries>>

\* The template controller sets labels that are behind.  The write goes through the
\* webhook, which refuses it when the finalizer cannot be added.
BackfillLabels ==
  /\ tqueued /\ ~treq["controller"].on
  /\ tcache.st = "present" /\ tcache.label # tcache.ref
  /\ \/ tqueued' = FALSE /\ DefaultTemplate("controller", tcache, Labelled(tcache))
     \/ /\ tcache.ref /\ (Missing \/ AddFails("template"))
        /\ UNCHANGED <<tqueued, treq, asVars, memFresh, faults>>
  /\ UNCHANGED <<wsVars, tm, tcache, queued, pc, mem, want, tries, ops>>

\* ... or else the finalizer.  A strategy that is missing is tolerated.
BackfillFinalizer ==
  /\ tqueued /\ ~treq["controller"].on
  /\ \/ /\ \/ tcache.st # "present" \/ (~tcache.ref /\ ~tcache.label)
           \/ tcache.ref /\ tcache.label /\ Missing
        /\ tqueued' = FALSE /\ UNCHANGED <<asVars, memFresh>>
     \/ /\ tcache.st = "present" /\ tcache.ref /\ tcache.label
        /\ tqueued' = FALSE /\ AddFinalizer("template")
     \/ /\ tcache.st = "present" /\ tcache.ref /\ tcache.label /\ AddFails("template")
        /\ UNCHANGED <<tqueued, asVars, memFresh>>
  /\ UNCHANGED <<wsVars, tm, tcache, treq, queued, pc, mem, want, tries, ops, faults>>

\* The template is stored unless it has changed meanwhile, which fails the pass.
StoreTemplate(by) ==
  /\ treq[by].on /\ treq' = [treq EXCEPT ![by] = NoWrite]
  /\ \/ tm = treq[by].from /\ tm' = treq[by].to /\ UNCHANGED tqueued
     \/ tm # treq[by].from /\ tqueued' = (tqueued \/ by = "controller") /\ UNCHANGED tm
  /\ UNCHANGED <<asVars, wsVars, tcache, passVars, ops, faults>>

\* Workspaces that use the template may keep it (TemplateProtection).
DeleteTemplate ==
  /\ Op /\ tm.st = "present" /\ tm' \in {[tm EXCEPT !.st = "deleting"], NoTemplate}
  /\ UNCHANGED <<asVars, wsVars, tcache, treq, tqueued, passVars, faults>>

TemplateGone ==
  /\ tm.st = "deleting" /\ tm' = NoTemplate
  /\ UNCHANGED <<asVars, wsVars, tcache, treq, tqueued, passVars, ops, faults>>

-----------------------------------------------------------------------------
(* The strategy controller *)

Reconcile ==
  /\ pc = "idle" /\ queued /\ queued' = FALSE
  /\ \/ Missing /\ UNCHANGED <<pc, mem, memFresh>>
     \/ ~Missing /\ pc' = "workspaces" /\ mem' = acache.fin /\ memFresh' = aFresh
  /\ UNCHANGED <<asVars, wsVars, tmVars, want, tries, ops, faults>>

ListWorkspaces ==
  /\ pc = "workspaces" /\ pc' = "templates"
  /\ want' = IF HasActiveWorkspaces THEN {"workspace"} ELSE {}
  /\ UNCHANGED <<asVars, wsVars, tmVars, queued, mem, memFresh, tries, ops, faults>>

ListTemplates ==
  /\ pc = "templates"
  /\ want' = want \cup (IF HasActiveTemplates THEN {"template"} ELSE {})
  /\ pc' = IF mem = want' THEN "idle" ELSE "write"
  /\ UNCHANGED <<asVars, wsVars, tmVars, queued, mem, memFresh, tries, ops, faults>>

\* A pass that returns an error is queued again.
FailPass == pc' = "idle" /\ queued' = TRUE /\ UNCHANGED <<asVars, memFresh, tries>>

SetFinalizers ==
  /\ StoreStrategy(Released([as EXCEPT !.fin = want]))
  /\ pc' = "idle" /\ UNCHANGED <<queued, tries>>

\* reconcileFinalizers, the first write.
UpdateFinalizers ==
  /\ pc = "write"
  /\ \/ memFresh /\ MaySet(want) /\ SetFinalizers
     \/ (memFresh \/ as.st = "gone") /\ ~MaySet(want) /\ FailPass
     \/ /\ ~memFresh /\ as.st # "gone"
        /\ pc' = "retry" /\ tries' = 0 /\ UNCHANGED <<asVars, queued, memFresh>>
  /\ UNCHANGED <<wsVars, tmVars, mem, want, ops, faults>>

\* After a conflict: the informer's copy is brought to the finalizers found before.
RetryFinalizers ==
  /\ pc = "retry"
  /\ \/ Missing /\ FailPass
     \/ ~Missing /\ acache.fin = want /\ pc' = "idle" /\ UNCHANGED <<asVars, queued, memFresh, tries>>
     \/ ~Missing /\ acache.fin # want /\ aFresh /\ MaySet(want) /\ SetFinalizers
     \/ ~Missing /\ acache.fin # want /\ (aFresh \/ as.st = "gone") /\ ~MaySet(want) /\ FailPass
     \/ /\ ~Missing /\ acache.fin # want /\ ~aFresh /\ as.st # "gone" /\ tries < Retries
        /\ tries' = tries + 1 /\ UNCHANGED <<asVars, queued, pc, memFresh>>
     \/ ~Missing /\ acache.fin # want /\ ~aFresh /\ as.st # "gone" /\ tries = Retries /\ FailPass
  /\ UNCHANGED <<wsVars, tmVars, mem, want, ops, faults>>

Pass == Reconcile \/ ListWorkspaces \/ ListTemplates \/ UpdateFinalizers \/ RetryFinalizers

-----------------------------------------------------------------------------
(* Events *)

StrategyEvent ==
  /\ ~aFresh /\ acache' = as /\ aFresh' = TRUE /\ queued' = TRUE
  /\ UNCHANGED <<as, wsVars, tmVars, pc, mem, memFresh, want, tries, ops, faults>>

\* Variant: only the new object counts.
NewConcerns(old, new) == new.label

\* findAccessStrategiesForWorkspace and findAccessStrategiesForTemplate, of the old
\* and of the new object.
Concerns(old, new) == old.label \/ new.label

WorkspaceEvent(w) ==
  /\ wcache[w] # ws[w] /\ wcache' = [wcache EXCEPT ![w] = ws[w]]
  /\ queued' = (queued \/ Concerns(wcache[w], ws[w]))
  /\ UNCHANGED <<asVars, ws, req, tmVars, pc, mem, memFresh, want, tries, ops, faults>>

TemplateEvent ==
  /\ tcache # tm /\ tcache' = tm /\ tqueued' = TRUE
  /\ queued' = (queued \/ Concerns(tcache, tm))
  /\ UNCHANGED <<asVars, wsVars, tm, treq, pc, mem, memFresh, want, tries, ops, faults>>

\* The manager restarts: informers are read anew, every object is queued, and
\* admissions that were in progress fail.
Restart ==
  /\ Fault
  /\ acache' = as /\ aFresh' = TRUE /\ wcache' = ws /\ tcache' = tm
  /\ queued' = TRUE /\ tqueued' = TRUE /\ pc' = "idle"
  /\ req' = [w \in Workspaces |-> NoRequest] /\ treq' = [by \in Writers |-> NoWrite]
  /\ UNCHANGED <<as, ws, tm, mem, memFresh, want, tries, ops>>

-----------------------------------------------------------------------------
(* Users of the strategy *)

DeleteStrategy ==
  /\ Op /\ as.st = "present" /\ StoreStrategy(Released([as EXCEPT !.st = "deleting"]))
  /\ UNCHANGED <<wsVars, tmVars, queued, pc, mem, want, tries, faults>>

CreateStrategy ==
  /\ Op /\ as.st = "gone" /\ StoreStrategy([st |-> "present", fin |-> {}])
  /\ UNCHANGED <<wsVars, tmVars, queued, pc, mem, want, tries, faults>>

EditStrategy ==
  /\ Op /\ as.st = "present" /\ StoreStrategy(as)
  /\ UNCHANGED <<wsVars, tmVars, queued, pc, mem, want, tries, faults>>

-----------------------------------------------------------------------------

\* A strategy without references.
Init ==
  /\ as = [st |-> "present", fin |-> {}] /\ acache = as /\ aFresh = TRUE
  /\ ws = [w \in Workspaces |-> Absent] /\ wcache = ws
  /\ req = [w \in Workspaces |-> NoRequest]
  /\ tm = NoTemplate /\ tcache = tm /\ treq = [by \in Writers |-> NoWrite] /\ tqueued = FALSE
  /\ queued = TRUE /\ pc = "idle" /\ mem = {} /\ memFresh = FALSE /\ want = {} /\ tries = 0
  /\ ops = 0 /\ faults = 0

Next ==
  \/ Pass \/ BackfillLabels \/ BackfillFinalizer
  \/ StrategyEvent \/ TemplateEvent \/ Restart
  \/ DeleteStrategy \/ CreateStrategy \/ EditStrategy
  \/ DeleteTemplate \/ TemplateGone
  \/ \E by \in Writers : StoreTemplate(by)
  \/ \E ref \in BOOLEAN : WriteTemplate(ref)
  \/ \E w \in Workspaces :
       \/ UpdateMetadata(w) \/ StoreWorkspace(w) \/ DeleteWorkspace(w) \/ WorkspaceGone(w)
       \/ WorkspaceEvent(w)
       \/ \E ref \in BOOLEAN : WriteWorkspace(w, ref)

Spec == Init /\ [][Next]_vars

\* The controllers run while they have work, informers catch up, the API server
\* finishes the requests it has begun.
FairSpec ==
  /\ Spec /\ WF_vars(Pass) /\ WF_vars(BackfillLabels \/ BackfillFinalizer)
  /\ WF_vars(StrategyEvent) /\ WF_vars(TemplateEvent)
  /\ \A by \in Writers : WF_vars(StoreTemplate(by))
  /\ \A w \in Workspaces :
       WF_vars(UpdateMetadata(w)) /\ WF_vars(StoreWorkspace(w)) /\ WF_vars(WorkspaceEvent(w))

-----------------------------------------------------------------------------
(* Properties *)

\* Every variable has its type.
TypeOK ==
  /\ {as, acache} \subseteq Strategy /\ {tm, tcache} \subseteq Template
  /\ ws \in [Workspaces -> Workspace] /\ wcache \in [Workspaces -> Workspace]
  /\ req \in [Workspaces -> [on: BOOLEAN, to: Workspace, from: Workspace]]
  /\ treq \in [Writers -> [on: BOOLEAN, to: Template, from: Template]]
  /\ {aFresh, memFresh, queued, tqueued} \subseteq BOOLEAN
  /\ pc \in {"idle", "workspaces", "templates", "write", "retry"}
  /\ {mem, want} \subseteq SUBSET Kinds /\ tries \in 0..Retries
  /\ ops \in 0..MaxOps /\ faults \in 0..MaxFaults

\* The kinds of referrers the informers know.
Referrers ==
  (IF HasActiveWorkspaces THEN {"workspace"} ELSE {})
    \cup (IF HasActiveTemplates THEN {"template"} ELSE {})

\* No wakeup is lost: when the strategy has a finalizer without referrers, or lacks
\* one, its controller is about to look (findAccessStrategiesForWorkspace and
\* findAccessStrategiesForTemplate), although a conflict is retried with what was
\* found before it (reconcileFinalizers).
Attended ==
  as.st # "gone" /\ as.fin # Referrers => queued \/ ~aFresh \/ pc # "idle"

\* A workspace that keeps referring to a strategy that stays has its finalizer in the
\* end, although the controller removes what the webhook has added as long as the
\* workspace has no label.  So has a template, even when it was written while the
\* webhook was away (reconcileAccessStrategyLabels, ensureAccessStrategyFinalizer).
ReferrersProtected ==
  /\ <>[](as.st = "present" /\ \E w \in Workspaces : ws[w].st = "active" /\ ws[w].ref)
       => <>[]("workspace" \in as.fin)
  /\ <>[](as.st = "present" /\ tm.st = "present" /\ tm.ref) => <>[]("template" \in as.fin)

\* Without referrers, finalizers are removed and a deletion completes.
DeletionConverges ==
  <>[](/\ \A w \in Workspaces : ws[w].st # "active" \/ ~ws[w].ref
       /\ tm.st # "present" \/ ~tm.ref)
    => <>[](as.st = "gone" \/ (as.st = "present" /\ as.fin = {}))
=============================================================================

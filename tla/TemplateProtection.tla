-------------------------- MODULE TemplateProtection --------------------------
(***************************************************************************)
(* The finalizer that keeps a WorkspaceTemplate from being deleted while   *)
(* workspaces use it.  The workspace webhook adds it while it admits a     *)
(* workspace, the template controller adds and removes it, and the         *)
(* controller hears of workspaces through their labels.                    *)
(*                                                                         *)
(* The template is in the shared namespace.  A workspace refers to it by   *)
(* that namespace, or by its own ("own": the reference names no namespace  *)
(* and the resolver falls back to the shared one).  The controllers and    *)
(* the webhook read informers, which lag behind the API server.            *)
(***************************************************************************)
EXTENDS Naturals

CONSTANTS
  Workspaces,
  Refs,        \* how users refer to the template: a subset of {"own", "shared"}
  MaxOps,      \* bound on requests of users
  MaxFaults    \* bound on failed calls and restarts

ASSUME ProtectionAssumption ==
  Refs \subseteq {"own", "shared"} /\ MaxOps \in Nat /\ MaxFaults \in Nat

VARIABLES
  template,               \* the stored template
  ws,                     \* the stored workspaces
  tcache, cacheFresh,     \* the informer's copy of the template, and if it is current
  wcache,                 \* the informer's copies of the workspaces
  queued, pc, mem, memFresh,   \* the template controller: queue, pass, working copy
  req,                    \* the admission of every workspace that is being written
  ops, faults

apiVars == <<template, ws>>
passVars == <<queued, pc, mem, memFresh>>
vars == <<template, ws, tcache, cacheFresh, wcache, queued, pc, mem, memFresh, req, ops, faults>>

Namespaces == {"none", "own", "shared"}
Template == [st: {"present", "deleting", "gone"}, fin: BOOLEAN, gen: Nat, obs: Nat]
Workspace == [st: {"absent", "active", "deleting"}, ref: Namespaces, label: Namespaces,
              fin: BOOLEAN]
Absent == [st |-> "absent", ref |-> "none", label |-> "none", fin |-> FALSE]
NoRequest ==
  [at |-> "none", to |-> Absent, from |-> "absent", fresh |-> FALSE]

-----------------------------------------------------------------------------
(* Queries *)

\* Variant: workspaces that are being deleted count.
AnyWorkspace(v) ==
  wcache[v].st # "absent" /\ wcache[v].ref = "shared" /\ wcache[v].label = "shared"

\* HasActiveWorkspacesWithTemplate: labelled with the template and its namespace,
\* not being deleted, and referring to it.
Active(v) ==
  wcache[v].st = "active" /\ wcache[v].ref = "shared" /\ wcache[v].label = "shared"

HasActiveWorkspaces == \E v \in Workspaces : Active(v)

\* ListActiveWorkspacesByTemplate(ns, limit = 1): what is left of the one labelled
\* workspace the informer hands out.
FirstIsActive(ns) ==
  \E v \in Workspaces :
    /\ wcache[v].st # "absent" /\ wcache[v].label = ns
    /\ wcache[v].st = "active" /\ wcache[v].ref = ns

FirstIsNotActive(ns) ==
  \/ \A v \in Workspaces : wcache[v].st = "absent" \/ wcache[v].label # ns
  \/ \E v \in Workspaces :
       /\ wcache[v].st # "absent" /\ wcache[v].label = ns
       /\ wcache[v].st = "deleting" \/ wcache[v].ref # ns

-----------------------------------------------------------------------------
(* The API server *)

\* A write of the template leaves every copy behind, but for that of the writer.
StoreTemplate(t) ==
  /\ template' = t
  /\ cacheFresh' = FALSE

StaleRequests == [v \in Workspaces |-> [req[v] EXCEPT !.fresh = FALSE]]

Op == ops < MaxOps /\ ops' = ops + 1
Fault == faults < MaxFaults /\ faults' = faults + 1

-----------------------------------------------------------------------------
(* The admission of a workspace *)

\* ResolveTemplate: found in the namespace of the reference, or in the shared one.
ResolveTemplate(ref) == ref \in {"own", "shared"} /\ tcache.st # "gone"

\* ensureTemplateFinalizer: looked up in the namespace of the reference, without the
\* resolver's fallback.
SkipsFinalizer(ref) == ref # "shared" \/ FirstIsNotActive(ref) \/ tcache.fin
WantsFinalizer(ref) == ref = "shared" /\ FirstIsActive(ref) /\ ~tcache.fin

\* Default: the template has to be found, labels are stamped, and the finalizer is
\* added when it is missing and an active workspace uses the template already.
Default(w, to) ==
  \/ /\ to.ref = "none" \/ (ResolveTemplate(to.ref) /\ SkipsFinalizer(to.ref))
     /\ req' = [req EXCEPT ![w] =
                  [at |-> "store", to |-> to, from |-> ws[w].st, fresh |-> FALSE]]
  \/ /\ ResolveTemplate(to.ref) /\ WantsFinalizer(to.ref)
     /\ req' = [req EXCEPT ![w] =
                  [at |-> "add", to |-> to, from |-> ws[w].st, fresh |-> cacheFresh]]

\* A user creates a workspace or changes its reference.  The label of a reference
\* that is taken away stays for the controller.
WriteWorkspace(w, ref) ==
  /\ Op /\ req[w].at = "none"
  /\ ws[w].st = "absent" \/ (ws[w].st = "active" /\ ws[w].ref # ref)
  /\ Default(w, [ws[w] EXCEPT !.st = "active", !.ref = ref,
                              !.label = IF ref = "none" THEN @ ELSE ref])
  /\ UNCHANGED <<apiVars, tcache, cacheFresh, wcache, passVars, faults>>

\* The workspace controller sets its finalizer and the labels, through the webhook.
UpdateMetadata(w) ==
  /\ req[w].at = "none" /\ wcache[w] = ws[w]
  /\ ws[w].st = "active" /\ (~ws[w].fin \/ ws[w].label # ws[w].ref)
  /\ Default(w, [ws[w] EXCEPT !.label = ws[w].ref, !.fin = TRUE])
  /\ UNCHANGED <<apiVars, tcache, cacheFresh, wcache, passVars, ops, faults>>

\* The webhook's update of the template.  A conflict, or a template that is being
\* deleted, rejects the workspace.
AddFinalizer(w) ==
  /\ req[w].at = "add"
  /\ \/ /\ req[w].fresh /\ template.st = "present"
        /\ StoreTemplate([template EXCEPT !.fin = TRUE])
        /\ req' = [StaleRequests EXCEPT ![w].at = "store"]
        /\ memFresh' = FALSE
     \/ /\ ~req[w].fresh \/ template.st # "present"
        /\ req' = [req EXCEPT ![w] = NoRequest]
        /\ UNCHANGED <<template, cacheFresh, memFresh>>
  /\ UNCHANGED <<ws, tcache, wcache, queued, pc, mem, ops, faults>>

\* The validating webhook looks the template up once more, then the workspace is
\* stored, unless it was deleted or stored meanwhile.
StoreWorkspace(w) ==
  /\ req[w].at = "store"
  /\ req' = [req EXCEPT ![w] = NoRequest]
  /\ \/ /\ req[w].to.ref = "none" \/ ResolveTemplate(req[w].to.ref)
        /\ ws[w].st = req[w].from
        /\ ws' = [ws EXCEPT ![w] = req[w].to]
     \/ /\ \/ req[w].to.ref # "none" /\ ~ResolveTemplate(req[w].to.ref)
           \/ ws[w].st # req[w].from
        /\ UNCHANGED ws
  /\ UNCHANGED <<template, tcache, cacheFresh, wcache, passVars, ops, faults>>

-----------------------------------------------------------------------------
(* The template controller *)

\* A pass reads the template from the informer.
Reconcile ==
  /\ pc = "idle" /\ queued /\ queued' = FALSE
  /\ \/ /\ tcache.st = "present" \/ (tcache.st = "deleting" /\ tcache.fin)
        /\ pc' = "list" /\ mem' = tcache /\ memFresh' = cacheFresh
     \/ /\ tcache.st = "gone" \/ (tcache.st = "deleting" /\ ~tcache.fin)
        /\ UNCHANGED <<pc, mem, memFresh>>
  /\ UNCHANGED <<apiVars, tcache, cacheFresh, wcache, req, ops, faults>>

\* Variant: the generation is observed once.
ObservedOnCreation == IF mem.st = "present" /\ mem.obs = 0 THEN "status" ELSE "idle"

\* What follows the finalizer: status.observedGeneration when it is behind.
AfterFinalizer == IF mem.st = "present" /\ mem.obs < mem.gen THEN "status" ELSE "idle"

\* Variant: the finalizer is only ever removed.
ListToRemove ==
  /\ pc = "list"
  /\ \/ /\ ~mem.fin \/ HasActiveWorkspaces
        /\ pc' = AfterFinalizer /\ UNCHANGED mem
     \/ /\ mem.fin /\ ~HasActiveWorkspaces
        /\ pc' = "write" /\ mem' = [mem EXCEPT !.fin = FALSE]
  /\ UNCHANGED <<apiVars, tcache, cacheFresh, wcache, queued, memFresh, req, ops, faults>>

\* manageFinalizer and handleDeletion: compare the finalizer with the use.
ListWorkspaces ==
  /\ pc = "list"
  /\ \/ /\ mem.fin = HasActiveWorkspaces
        /\ pc' = AfterFinalizer /\ UNCHANGED mem
     \/ /\ mem.fin # HasActiveWorkspaces
        /\ pc' = "write" /\ mem' = [mem EXCEPT !.fin = HasActiveWorkspaces]
  /\ UNCHANGED <<apiVars, tcache, cacheFresh, wcache, queued, memFresh, req, ops, faults>>

\* A template without finalizers goes when it is being deleted.
Released(t) == IF t.st = "deleting" /\ ~t.fin THEN [t EXCEPT !.st = "gone"] ELSE t

\* A pass that returns an error is queued again.
FailPass ==
  /\ pc' = "idle" /\ queued' = TRUE
  /\ UNCHANGED <<template, cacheFresh, memFresh, mem, req>>

WriteFinalizer ==
  /\ pc = "write"
  /\ \/ /\ memFresh
        /\ StoreTemplate(Released([template EXCEPT !.fin = mem.fin]))
        /\ req' = StaleRequests
        /\ pc' = AfterFinalizer /\ UNCHANGED <<queued, mem, memFresh>>
     \/ ~memFresh /\ FailPass
  /\ UNCHANGED <<ws, tcache, wcache, ops, faults>>

UpdateStatusObservedGeneration ==
  /\ pc = "status"
  /\ \/ /\ memFresh
        /\ StoreTemplate([template EXCEPT !.obs = mem.gen])
        /\ req' = StaleRequests
        /\ pc' = "idle" /\ UNCHANGED <<queued, mem, memFresh>>
     \/ ~memFresh /\ FailPass
  /\ UNCHANGED <<ws, tcache, wcache, ops, faults>>

\* A write that is refused for another reason than a conflict.
WriteFails ==
  /\ Fault /\ pc \in {"write", "status"} /\ FailPass
  /\ UNCHANGED <<ws, tcache, wcache, ops>>

Pass == Reconcile \/ ListWorkspaces \/ WriteFinalizer \/ UpdateStatusObservedGeneration

-----------------------------------------------------------------------------
(* Events *)

TemplateEvent ==
  /\ ~cacheFresh
  /\ tcache' = template /\ cacheFresh' = TRUE /\ queued' = TRUE
  /\ UNCHANGED <<apiVars, wcache, pc, mem, memFresh, req, ops, faults>>

\* Variant: an event concerns the template its new object names.
MappedFromNew(w) == ws[w].st # "absent" /\ ws[w].label = "shared"

\* findTemplatesForWorkspace: an event concerns the templates that the labels of the
\* old and of the new object name.
MapsToTemplate(w) == wcache[w].label = "shared" \/ ws[w].label = "shared"

WorkspaceEvent(w) ==
  /\ wcache[w] # ws[w] /\ wcache' = [wcache EXCEPT ![w] = ws[w]]
  /\ queued' = (queued \/ MapsToTemplate(w))
  /\ UNCHANGED <<apiVars, tcache, cacheFresh, pc, mem, memFresh, req, ops, faults>>

\* The manager restarts: informers are read anew, every template is queued, and
\* admissions that were in progress fail.
Restart ==
  /\ Fault
  /\ tcache' = template /\ cacheFresh' = TRUE /\ wcache' = ws
  /\ queued' = TRUE /\ pc' = "idle" /\ UNCHANGED <<mem, memFresh>>
  /\ req' = [w \in Workspaces |-> NoRequest]
  /\ UNCHANGED <<apiVars, ops>>

-----------------------------------------------------------------------------
(* Users *)

DeleteWorkspace(w) ==
  /\ Op /\ ws[w].st = "active"
  /\ ws' = [ws EXCEPT ![w] = IF ws[w].fin THEN [ws[w] EXCEPT !.st = "deleting"] ELSE Absent]
  /\ UNCHANGED <<template, tcache, cacheFresh, wcache, passVars, req, faults>>

\* The workspace controller has cleaned up.
WorkspaceGone(w) ==
  /\ ws[w].st = "deleting" /\ ws' = [ws EXCEPT ![w] = Absent]
  /\ UNCHANGED <<template, tcache, cacheFresh, wcache, passVars, req, ops, faults>>

DeleteTemplate ==
  /\ Op /\ template.st = "present"
  /\ StoreTemplate(Released([template EXCEPT !.st = "deleting"]))
  /\ req' = StaleRequests /\ memFresh' = FALSE
  /\ UNCHANGED <<ws, tcache, wcache, queued, pc, mem, faults>>

EditTemplate ==
  /\ Op /\ template.st = "present"
  /\ StoreTemplate([template EXCEPT !.gen = @ + 1])
  /\ req' = StaleRequests /\ memFresh' = FALSE
  /\ UNCHANGED <<ws, tcache, wcache, queued, pc, mem, faults>>

-----------------------------------------------------------------------------

\* A template that was just created, and no workspace.
Init ==
  /\ template = [st |-> "present", fin |-> FALSE, gen |-> 1, obs |-> 0]
  /\ ws = [w \in Workspaces |-> Absent]
  /\ tcache = template /\ cacheFresh = TRUE /\ wcache = ws
  /\ queued = TRUE /\ pc = "idle" /\ mem = template /\ memFresh = FALSE
  /\ req = [w \in Workspaces |-> NoRequest]
  /\ ops = 0 /\ faults = 0

Next ==
  \/ Pass \/ WriteFails \/ TemplateEvent \/ Restart
  \/ DeleteTemplate \/ EditTemplate
  \/ \E w \in Workspaces :
       \/ UpdateMetadata(w) \/ AddFinalizer(w) \/ StoreWorkspace(w)
       \/ WorkspaceEvent(w) \/ DeleteWorkspace(w) \/ WorkspaceGone(w)
       \/ \E ref \in Refs \cup {"none"} : WriteWorkspace(w, ref)

Spec == Init /\ [][Next]_vars

\* The controllers run while they have work, informers catch up, the API server
\* finishes the requests it has begun.
FairSpec ==
  /\ Spec /\ WF_vars(Pass) /\ WF_vars(TemplateEvent)
  /\ \A w \in Workspaces :
       /\ WF_vars(WorkspaceEvent(w)) /\ WF_vars(UpdateMetadata(w))
       /\ WF_vars(AddFinalizer(w)) /\ WF_vars(StoreWorkspace(w))
-----------------------------------------------------------------------------
(* Properties *)

Request == [at: {"none", "add", "store"}, to: Workspace, from: {"absent", "active"}, fresh: BOOLEAN]

\* Every variable has its type.
TypeOK ==
  /\ {template, tcache, mem} \subseteq Template
  /\ ws \in [Workspaces -> Workspace] /\ wcache \in [Workspaces -> Workspace]
  /\ req \in [Workspaces -> Request]
  /\ {cacheFresh, memFresh, queued} \subseteq BOOLEAN
  /\ pc \in {"idle", "list", "write", "status"}
  /\ ops \in Nat /\ faults \in Nat

\* The finalizer disagrees with the workspaces the informer knows.
Wrong ==
  \/ template.st = "present" /\ template.fin # HasActiveWorkspaces
  \/ template.st = "deleting" /\ template.fin /\ ~HasActiveWorkspaces

\* No wakeup is lost: whenever the finalizer disagrees with the workspaces the
\* informer knows, the template is queued, an event of it is on its way, or a pass
\* is still to look or to write.  Conflicts, the webhook's own updates of the
\* template and labels that change hands (findTemplatesForWorkspace) included.
Attended == Wrong => queued \/ ~cacheFresh \/ pc \in {"list", "write"}

Uses(w) == ws[w].st = "active" /\ ws[w].ref = "shared"

\* A template that stays in use gets its finalizer and keeps it (manageFinalizer),
\* whatever happened before.
ProtectionConverges ==
  \A w \in Workspaces :
    <>[](template.st = "present" /\ Uses(w)) => <>[](template.fin)

\* A deletion is held up by nothing but workspaces that use the template
\* (handleDeletion).
DeletionConverges ==
  <>[](\A w \in Workspaces : ~Uses(w)) => <>[](template.st # "deleting")

\* The status catches up with the spec (updateStatusObservedGeneration).
GenerationObserved == <>[](template.st = "present") => <>[](template.obs = template.gen)
=============================================================================

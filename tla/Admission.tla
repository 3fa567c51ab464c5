------------------------------ MODULE Admission ------------------------------
(***************************************************************************)
(* The admission webhooks of Workspaces and WorkspaceTemplates             *)
(* (internal/webhook/v1alpha1).  A write of a Workspace goes through the   *)
(* mutating webhook (WorkspaceCustomDefaulter), then the validating one    *)
(* (WorkspaceCustomValidator), then the API server's store, which refuses  *)
(* a write made from an older version.  Between the three steps other      *)
(* writes, edits of templates and service accounts, and the controller's   *)
(* work on the volume claim may happen.  The controller works from the     *)
(* version of the workspace that it has read.                              *)
(*                                                                         *)
(* An object is a record.  None is an absent or empty field.  A request    *)
(* and an edit are partial records put over the object.  A regular         *)
(* expression is the set of values it matches.  Volumes, init containers,  *)
(* scheduling, probes and the like are opaque values, for which absent and *)
(* empty are one.  The app type, the storage class and the mount path,     *)
(* which no rule looks at, are left out.  What keeps a template from being *)
(* deleted, and when, is the subject of TemplateProtection: here a         *)
(* template may go at any time.  Strategies stay (StrategyProtection).     *)
(* Integration references are checked in Integrations.                     *)
(***************************************************************************)
EXTENDS Naturals, FiniteSets

CONSTANTS
  None,
  Users,            \* people without a privileged group
  Privileged,       \* the controller's service account and the admins
  Home,             \* the namespace of the workspace
  Shared,           \* the shared namespace (--default-template-namespace)
  Keys,             \* the templates: [name, namespace]
  Bare,             \* what a template holds with every optional field left out
  Contents,         \* what each template holds at first, None if it does not exist
  Strategies,       \* the namespaces in which the access strategy exists
  Accounts,         \* the service accounts; "default" is one of them
  DefaultSize,      \* what the claim requests for storage without a size
  Reserved,         \* unknown label keys with the reserved prefix
  Changes,          \* what each client changes in a workspace
  Patches,          \* what an admin changes in each template
  Grants,           \* what an admin makes of an account: [users, labelled]
  MaxRequests,
  MaxEdits

Clients == Users \cup Privileged
Namespaces == {Home, Shared}

ASSUME AdmissionAssumption ==
  /\ Users \cap Privileged = {}
  /\ "default" \in Accounts
  /\ \A k \in Keys : /\ k = [name |-> k.name, namespace |-> k.namespace]
                     /\ k.namespace \in Namespaces
  /\ Grants \subseteq [users : SUBSET Users, labelled : BOOLEAN]
  /\ DefaultSize \in Nat \ {0}
  /\ MaxRequests \in Nat /\ MaxEdits \in Nat
  /\ None \notin Nat \cup Keys \cup Namespaces

VARIABLES
  ws,        \* the stored workspace, or None
  templates, \* what each template holds
  accounts,  \* who may use an account, and whether it is labelled as default
  claim,     \* the size the volume claim requests, 0 before it exists
  copy,      \* the storage of the version the controller has read, None if it has none
  pending,   \* the write each client has under way, or None
  vetted,    \* the template content the stored spec was last checked against
  exempt,    \* a write skipped the shrink check, or a claim came too late for it
  requests, edits

vars == <<ws, templates, accounts, claim, copy, pending, vetted, exempt, requests, edits>>

(***************************************************************************)
(* A workspace as a client submits it with nothing filled in.              *)
(***************************************************************************)
Blank ==
  [owner |-> None, updatedBy |-> None, deleting |-> FALSE, labels |-> << >>,
   desired |-> None, templateRef |-> None, image |-> None, ownership |-> None,
   access |-> None, container |-> None, resources |-> None, storage |-> None,
   volumes |-> None, scheduling |-> None, strategy |-> None, lifecycle |-> None,
   idle |-> None, readiness |-> None, security |-> None, env |-> << >>,
   initContainers |-> None, account |-> None]

(* What clients and admins send: the deletion timestamp is the API         *)
(* server's, a size is a number, and a field of an enumerated type is      *)
(* empty or one of the values that the schema of the resource lists.       *)
Size == Nat \cup {None}
Statuses == {"Running", "Stopped"}
Sharing == {"Public", "OwnerOnly"}
Sized(t) == "storage" \in DOMAIN t /\ (t.storage # None => t.storage.size \in Nat)
SharingSet(t) == \A f \in {"ownership", "access"} \cap DOMAIN t : t[f] \in Sharing \cup {None}
WellTyped(t) == Sized(t) /\ {"ownership", "access"} \subseteq DOMAIN t /\ SharingSet(t)

ASSUME ChangesAssumption ==
  \A c \in Clients : \A change \in Changes[c] :
    /\ DOMAIN change \subseteq DOMAIN Blank \ {"deleting"}
    /\ "storage" \in DOMAIN change => change.storage \in Size
    /\ "desired" \in DOMAIN change => change.desired \in Statuses \cup {None}
    /\ SharingSet(change)
    /\ \A f \in {"owner", "updatedBy"} \cap DOMAIN change : change[f] \in Clients \cup {None}

ASSUME TemplatesAssumption ==
  /\ Contents = [k \in Keys |-> Contents[k]]
  /\ WellTyped(Bare) /\ \A k \in Keys : Contents[k] # None => WellTyped(Contents[k])
  /\ \A k \in Keys : \A patch \in Patches[k] :
       ("storage" \in DOMAIN patch => Sized(patch)) /\ SharingSet(patch)

(* A partial record, put over a record.                                    *)
Over(f, g) ==
  [x \in DOMAIN f \cup DOMAIN g |-> IF x \in DOMAIN f THEN f[x] ELSE g[x]]

Metadata == {"owner", "updatedBy", "deleting", "labels"}
SpecOf(w) == [f \in DOMAIN w \ Metadata |-> w[f]]

-----------------------------------------------------------------------------
(***************************************************************************)
(* Which template a reference means.                                       *)
(***************************************************************************)
Exists(k) == k \in Keys /\ templates[k] # None
Key(name, namespace) == [name |-> name, namespace |-> namespace]

RefNamespace(ref) == IF ref.namespace = None THEN Home ELSE ref.namespace

ResolveTemplate(ref) ==
  LET first == Key(ref.name, RefNamespace(ref))
      second == Key(ref.name, Shared)
  IN  CASE Exists(first) -> first
        [] ~Exists(first) /\ Exists(second) -> second
        [] OTHER -> None

FindDefaultTemplates(namespace) ==
  {k \in Keys : k.namespace = namespace /\ Exists(k) /\ templates[k].labelled}

Candidates ==
  IF FindDefaultTemplates(Home) # {} THEN FindDefaultTemplates(Home)
                                     ELSE FindDefaultTemplates(Shared)

ApplyTemplateName(w) ==
  IF w.templateRef # None \/ Candidates = {} THEN w
  ELSE [w EXCEPT !.templateRef = CHOOSE k \in Candidates : TRUE]

-----------------------------------------------------------------------------
(***************************************************************************)
(* The default applicators: w is the workspace, t the template's content.  *)
(***************************************************************************)
Fill(w, field, value) == IF w[field] = None THEN [w EXCEPT ![field] = value] ELSE w

ApplyCoreDefaults(w, t) ==
  Fill(Fill(Fill(Fill(w, "image", t.image), "ownership", t.ownership),
            "container", t.container), "access", t.access)

ApplyResourceDefaults(w, t) == Fill(w, "resources", t.resources)

ApplyStorageDefaults(w, t) ==
  IF t.storage # None /\ w.storage \in {None, 0}
  THEN IF t.storage.size # 0 THEN [w EXCEPT !.storage = t.storage.size] ELSE w
  ELSE w

ApplyVolumeDefaults(w, t) == Fill(w, "volumes", t.volumes)
ApplySchedulingDefaults(w, t) == Fill(w, "scheduling", t.scheduling)
ApplyMetadataDefaults(w, t) == [w EXCEPT !.labels = Over(@, t.baseLabels)]
ApplyAccessStrategyDefaults(w, t) == Fill(w, "strategy", t.strategy)

ApplyLifecycleDefaults(w, t) ==
  Fill(Fill(w, "lifecycle", t.lifecycle), "idle", t.idle)

ApplyReadinessProbeDefaults(w, t) == Fill(w, "readiness", t.readiness)
ApplySecurityDefaults(w, t) == Fill(w, "security", t.security)
ApplyEnvDefaults(w, t) == [w EXCEPT !.env = Over(@, t.baseEnv)]
ApplyInitContainerDefaults(w, t) == Fill(w, "initContainers", t.initContainers)

Applicators(w, t) ==
  LET core == ApplyResourceDefaults(ApplyCoreDefaults(w, t), t)
      disks == ApplyVolumeDefaults(ApplyStorageDefaults(core, t), t)
      meta == ApplyMetadataDefaults(ApplySchedulingDefaults(disks, t), t)
      life == ApplyLifecycleDefaults(ApplyAccessStrategyDefaults(meta, t), t)
      safe == ApplySecurityDefaults(ApplyReadinessProbeDefaults(life, t), t)
  IN  ApplyInitContainerDefaults(ApplyEnvDefaults(safe, t), t)

ApplyTemplateDefaults(w) ==
  LET key == IF w.templateRef = None THEN None ELSE ResolveTemplate(w.templateRef)
  IN  IF key = None THEN w ELSE Applicators(w, templates[key])

-----------------------------------------------------------------------------
(***************************************************************************)
(* Service accounts and sharing.                                           *)
(***************************************************************************)
LabelledAccounts == {s \in Accounts : accounts[s].labelled}

GetDefaultServiceAccount ==
  CASE LabelledAccounts = {} -> "default"
    [] Cardinality(LabelledAccounts) = 1 -> CHOOSE s \in LabelledAccounts : TRUE
    [] OTHER -> None

ApplyServiceAccountDefaults(w) == Fill(w, "account", GetDefaultServiceAccount)

SwappedSharingDefaults(w) ==
  LET shared == Fill(w, "access", w.ownership)
  IN  Fill(shared, "ownership", "Public")

SetWorkspaceSharingDefaults(w) ==
  LET owned == Fill(w, "ownership", "Public")
  IN  Fill(owned, "access", owned.ownership)

-----------------------------------------------------------------------------
(***************************************************************************)
(* Namespace scope, and whether the strategy a workspace names is there.   *)
(***************************************************************************)
InScope(namespace, referrer) == namespace \in {None, referrer, Shared}

ValidateTemplateNamespace(w) ==
  w.templateRef # None => InScope(w.templateRef.namespace, Home)

ValidateAccessStrategyNamespace(w) ==
  w.strategy # None => InScope(w.strategy.namespace, Home)

StrategyFound(w) == w.strategy # None => RefNamespace(w.strategy) \in Strategies

(***************************************************************************)
(* The mutating webhook: whether it lets the write on, and what it makes   *)
(* of it.                                                                  *)
(***************************************************************************)
UnsetDesired(w, client, old) ==
  [w EXCEPT !.owner = IF old = None THEN client ELSE @, !.updatedBy = client]

Stamped(w, client, old) ==
  [Fill(w, "desired", "Running") EXCEPT
     !.owner = IF old = None THEN client ELSE @, !.updatedBy = client]

Defaulted(w, client, old) ==
  IF w.deleting THEN w
  ELSE SetWorkspaceSharingDefaults(
         ApplyServiceAccountDefaults(
           ApplyTemplateDefaults(ApplyTemplateName(Stamped(w, client, old)))))

DefaultRefuses(w) ==
  /\ ~w.deleting
  /\ LET full == ApplyTemplateDefaults(ApplyTemplateName(w)) IN
     \/ w.templateRef = None /\ Cardinality(Candidates) > 1
     \/ full.templateRef # None /\ ResolveTemplate(full.templateRef) = None
     \/ w.account = None /\ GetDefaultServiceAccount = None
     \/ ~ValidateTemplateNamespace(full)
     \/ ~ValidateAccessStrategyNamespace(full)
     \/ ~StrategyFound(full)

-----------------------------------------------------------------------------
(***************************************************************************)
(* The template's constraints on a workspace.                              *)
(***************************************************************************)
Within(n, min, max) == (min # None => n >= min) /\ (max # None => n <= max)

ValidateImageAllowed(w, t) ==
  \/ w.image = None \/ t.customImages
  \/ w.image \in (IF t.allowedImages = {} THEN {t.image} ELSE t.allowedImages)

ValidateResourceBounds(w, t) ==
  w.resources # None =>
    /\ {"requests", "limits"} \subseteq DOMAIN w.resources
         => w.resources.limits >= w.resources.requests
    /\ t.bounds # None =>
         \A part \in DOMAIN w.resources :
           Within(w.resources[part], t.bounds.min, t.bounds.max)

ValidateStorageSize(w, t) ==
  w.storage \notin {None, 0} /\ t.storage # None
    => Within(w.storage, t.storage.min, t.storage.max)

ValidateSecondaryStorages(w, t) == w.volumes # None => t.secondaryStorages

ValidateInitContainers(w, t) ==
  w.initContainers # None => t.customInit \/ w.initContainers = t.initContainers

Meets(have, rules) ==
  \A name \in DOMAIN rules :
    IF name \in DOMAIN have THEN have[name] \in rules[name].matches
                            ELSE ~rules[name].required

ValidateLabelRequirements(w, t) == Meets(w.labels, t.labelRules)
ValidateEnvRequirements(w, t) == Meets(w.env, t.envRules)

ValidateIdleTimeoutBounds(idle, t) ==
  LET locked == ~t.overrides.allow /\ t.idle # None
      Bound(b) == IF b = None /\ locked THEN t.idle.timeout ELSE b
  IN  Within(idle.timeout, Bound(t.overrides.min), Bound(t.overrides.max))

ValidateIdleShutdownOverrides(w, t) ==
  t.overrides # None =>
    /\ ~t.overrides.allow /\ t.idle # None =>
         w.idle # None /\ [w.idle EXCEPT !.timeout = 0] = [t.idle EXCEPT !.timeout = 0]
    /\ w.idle # None => (w.idle.enabled => ValidateIdleTimeoutBounds(w.idle, t))

SpecComplies(w, t) ==
  /\ ValidateImageAllowed(w, t) /\ ValidateResourceBounds(w, t)
  /\ ValidateStorageSize(w, t) /\ ValidateSecondaryStorages(w, t)
  /\ ValidateInitContainers(w, t) /\ ValidateEnvRequirements(w, t)
  /\ ValidateIdleShutdownOverrides(w, t)

(***************************************************************************)
(* TemplateValidator: the whole check, and when an update goes through it. *)
(***************************************************************************)
ContentOf(w) ==
  IF w.templateRef = None \/ ResolveTemplate(w.templateRef) = None THEN None
  ELSE templates[ResolveTemplate(w.templateRef)]

ValidateTemplate(w) ==
  w.templateRef # None =>
    /\ ValidateTemplateNamespace(w)
    /\ ContentOf(w) # None
    /\ SpecComplies(w, ContentOf(w)) /\ ValidateLabelRequirements(w, ContentOf(w))

AnyStop(old, new) == old.desired # new.desired

OnlyDesiredStatusChanged(old, new) ==
  /\ old.desired # new.desired
  /\ SpecOf([old EXCEPT !.desired = new.desired]) = SpecOf(new)

TemplateRefMoves(old, new) ==
  \/ old.templateRef = None
  \/ old.templateRef # None /\ old.templateRef.name # new.templateRef.name

NeedsTemplateCheck(old, new) ==
  /\ new.templateRef # None
  /\ \/ TemplateRefMoves(old, new)
     \/ /\ SpecOf(old) # SpecOf(new)
        /\ ~ /\ new.desired = "Stopped" /\ old.desired # "Stopped"
             /\ OnlyDesiredStatusChanged(old, new)

ValidateUpdateWorkspace(old, new) ==
  NeedsTemplateCheck(old, new) => ValidateTemplate(new)

-----------------------------------------------------------------------------
(***************************************************************************)
(* The other checks of the validating webhook.                             *)
(***************************************************************************)
IsControllerOrAdminUser(client) == client \in Privileged

ValidateServiceAccountAccess(w, client) ==
  w.account # None =>
    /\ w.account \in Accounts
    /\ w.account = GetDefaultServiceAccount \/ client \in accounts[w.account].users

ValidateReservedPrefix(w) == DOMAIN w.labels \cap Reserved = {}

ValidateReservedPrefixOnUpdate(old, new) ==
  /\ ValidateReservedPrefix(new)
  /\ old.owner # None => new.owner = old.owner
  /\ DOMAIN old.labels \cap Reserved \subseteq DOMAIN new.labels

ValidateOwnershipPermission(w, client) == w.owner = client

NewOwnership(old, new, client) ==
  new.ownership = "OwnerOnly" => ValidateOwnershipPermission(old, client)

ValidateOwnership(old, new, client) ==
  "OwnerOnly" \in {old.ownership, new.ownership}
    => ValidateOwnershipPermission(old, client)

StoppedMayShrink(w) ==
  w.storage \notin {None, 0} /\ w.desired = "Running" => w.storage >= claim

ValidateStorageSizeNotShrinking(w) ==
  w.storage \notin {None, 0} => w.storage >= claim

ValidateVolumeOwnership(w) == w.volumes # "foreign"

ValidateCreate(w, client) ==
  /\ ValidateTemplate(w)
  /\ ValidateAccessStrategyNamespace(w)
  /\ ValidateVolumeOwnership(w)
  /\ ~IsControllerOrAdminUser(client) =>
       ValidateReservedPrefix(w) /\ ValidateServiceAccountAccess(w, client)

LateBypass(old, new, client) ==
  \/ new.deleting
  \/ /\ ValidateUpdateWorkspace(old, new)
     /\ ~IsControllerOrAdminUser(client) =>
          /\ ValidateReservedPrefixOnUpdate(old, new)
          /\ ValidateServiceAccountAccess(new, client)
          /\ ValidateOwnership(old, new, client)
          /\ ValidateStorageSizeNotShrinking(new)
          /\ ValidateAccessStrategyNamespace(new)
          /\ ValidateVolumeOwnership(new)

EarlyStop(old, new, client) ==
  \/ new.deleting
  \/ IsControllerOrAdminUser(client)
  \/ new.desired = "Stopped" /\ OnlyDesiredStatusChanged(old, new)
  \/ /\ ValidateReservedPrefixOnUpdate(old, new)
     /\ ValidateServiceAccountAccess(new, client)
     /\ ValidateOwnership(old, new, client)
     /\ ValidateUpdateWorkspace(old, new)
     /\ ValidateStorageSizeNotShrinking(new)
     /\ ValidateAccessStrategyNamespace(new)
     /\ ValidateVolumeOwnership(new)

ValidateUpdate(old, new, client) ==
  \/ new.deleting
  \/ IsControllerOrAdminUser(client)
  \/ /\ ValidateReservedPrefixOnUpdate(old, new)
     /\ ValidateServiceAccountAccess(new, client)
     /\ ValidateOwnership(old, new, client)
     /\ ValidateUpdateWorkspace(old, new)
     /\ ValidateStorageSizeNotShrinking(new)
     /\ ValidateAccessStrategyNamespace(new)
     /\ ValidateVolumeOwnership(new)

ValidateDelete(w, client) ==
  IsControllerOrAdminUser(client) \/ (w.ownership = "OwnerOnly"
                                        => ValidateOwnershipPermission(w, client))

-----------------------------------------------------------------------------
(***************************************************************************)
(* The webhooks of templates.                                              *)
(***************************************************************************)
ValidateTemplateImageConsistency(t) ==
  t.customImages \/ t.allowedImages = {} \/ t.image \in t.allowedImages

Ordered(range) ==
  range.min # None /\ range.max # None => range.min <= range.max

ValidateTemplateStorageConsistency(t) == t.storage # None => Ordered(t.storage)
ValidateTemplateResourceBoundsConsistency(t) == t.bounds # None => Ordered(t.bounds)

ValidateIdleShutdownPolicyConsistency(t) ==
  t.overrides # None =>
    /\ Ordered(t.overrides)
    /\ ~t.overrides.allow => t.idle # None
    /\ t.idle # None =>
         (t.idle.enabled => Within(t.idle.timeout, t.overrides.min, t.overrides.max))

ValidateTemplateConsistency(t) ==
  /\ ValidateTemplateImageConsistency(t)
  /\ ValidateTemplateStorageConsistency(t)
  /\ ValidateTemplateResourceBoundsConsistency(t)
  /\ ValidateIdleShutdownPolicyConsistency(t)

TemplateStrategyAllowed(t, namespace) ==
  t.strategy # None =>
    /\ InScope(t.strategy.namespace, namespace)
    /\ (IF t.strategy.namespace = None THEN namespace ELSE t.strategy.namespace)
         \in Strategies

\* The templates that are there at first have passed these checks.
ASSUME AdmittedAssumption ==
  \A k \in Keys : Contents[k] # None =>
    /\ ValidateTemplateConsistency(Contents[k])
    /\ TemplateStrategyAllowed(Contents[k], k.namespace)

-----------------------------------------------------------------------------
Init ==
  /\ ws = None
  /\ templates = Contents
  /\ accounts = [s \in Accounts |-> [users |-> {}, labelled |-> FALSE]]
  /\ claim = 0 /\ copy = None
  /\ pending = [c \in Clients |-> None]
  /\ vetted = None
  /\ exempt = FALSE
  /\ requests = 0 /\ edits = 0

Answer(client) == pending' = [pending EXCEPT ![client] = None]

(* A client sends a whole object: a new one, or the stored one changed.    *)
Submit(client, change) ==
  /\ pending[client] = None
  /\ requests < MaxRequests
  /\ requests' = requests + 1
  /\ pending' = [pending EXCEPT ![client] =
       [stage |-> "default", old |-> ws, seen |-> None,
        new |-> Over(change, IF ws = None THEN Blank ELSE ws)]]
  /\ UNCHANGED <<ws, templates, accounts, claim, copy, vetted, exempt, edits>>

Default(client) ==
  /\ pending[client] # None /\ pending[client].stage = "default"
  /\ LET p == pending[client] IN
     IF DefaultRefuses(p.new) THEN Answer(client)
     ELSE pending' = [pending EXCEPT ![client] =
            [p EXCEPT !.stage = "validate",
                      !.new = Defaulted(p.new, client, p.old)]]
  /\ UNCHANGED <<ws, templates, accounts, claim, copy, vetted, exempt, requests, edits>>

Checked(p, client) ==
  p.old = None \/ (~IsControllerOrAdminUser(client) /\ NeedsTemplateCheck(p.old, p.new))

Validate(client) ==
  /\ pending[client] # None /\ pending[client].stage = "validate"
  /\ LET p == pending[client] IN
     IF IF p.old = None THEN ValidateCreate(p.new, client)
                        ELSE ValidateUpdate(p.old, p.new, client)
     THEN pending' = [pending EXCEPT ![client] =
            [p EXCEPT !.stage = "store",
                      !.seen = IF Checked(p, client) THEN ContentOf(p.new) ELSE None]]
     ELSE Answer(client)
  /\ UNCHANGED <<ws, templates, accounts, claim, copy, vetted, exempt, requests, edits>>

(* A webhook cannot be reached, or a call that it makes fails: a list of   *)
(* templates, a read, the write of a finalizer.  The write is refused.     *)
WebhookFails(client) ==
  /\ pending[client] # None /\ pending[client].stage \in {"default", "validate"}
  /\ Answer(client)
  /\ UNCHANGED <<ws, templates, accounts, claim, copy, vetted, exempt, requests, edits>>

(* The API server stores what was validated against the stored version.    *)
Store(client) ==
  /\ pending[client] # None /\ pending[client].stage = "store"
  /\ LET p == pending[client] IN
     IF p.old = ws
     THEN /\ ws' = p.new
          /\ vetted' = IF p.new.templateRef = None \/ p.new.deleting THEN None
                       ELSE IF p.seen # None THEN p.seen
                       ELSE IF IsControllerOrAdminUser(client) /\ SpecOf(p.old) # SpecOf(p.new)
                       THEN None ELSE vetted
          /\ exempt' = (exempt \/ /\ IsControllerOrAdminUser(client)
                                  /\ p.old # None
                                  /\ p.new.storage # p.old.storage)
     ELSE UNCHANGED <<ws, vetted, exempt>>
  /\ Answer(client)
  /\ UNCHANGED <<templates, accounts, claim, copy, requests, edits>>

Delete(client) ==
  /\ ws # None /\ ~ws.deleting
  /\ requests < MaxRequests
  /\ requests' = requests + 1
  /\ ValidateDelete(ws, client)
  /\ ws' = [ws EXCEPT !.deleting = TRUE]
  /\ vetted' = None
  /\ UNCHANGED <<templates, accounts, claim, copy, pending, exempt, edits>>

(* The controller has cleaned up and removes its finalizer.                *)
Finalize ==
  /\ ws # None /\ ws.deleting
  /\ ws' = None
  /\ claim' = 0 /\ copy' = None
  /\ exempt' = FALSE
  /\ UNCHANGED <<templates, accounts, pending, vetted, requests, edits>>

(* What a claim requests for the storage of a workspace.                   *)
ResolveStorageSize(storage) == IF storage = 0 THEN DefaultSize ELSE storage

(* A pass begins: the controller reads a version of the workspace.  Of a   *)
(* workspace that is to run it keeps the storage, where the claim has less.*)
ReadWorkspace ==
  /\ ws # None
  /\ copy' = IF /\ ~ws.deleting /\ ws.desired = "Running" /\ ws.storage # None
                /\ ResolveStorageSize(ws.storage) > claim
             THEN ws.storage ELSE None
  /\ copy' # copy
  /\ UNCHANGED <<ws, templates, accounts, claim, pending, vetted, exempt, requests, edits>>

(* The pass creates the claim, or lets the claim of an available workspace *)
(* grow, from what it has read.  The API server shrinks no claim.  The     *)
(* webhooks' client learns of the claim in this step.                      *)
EnsurePVCExists ==
  /\ copy # None
  /\ ResolveStorageSize(copy) > claim
  /\ claim' = ResolveStorageSize(copy)
  /\ copy' = None
  /\ exempt' = (exempt \/ ws = None \/ ws.storage # copy
                       \/ \E c \in Clients : pending[c] # None /\ pending[c].stage = "store")
  /\ UNCHANGED <<ws, templates, accounts, pending, vetted, requests, edits>>

EditTemplate(k, patch) ==
  /\ edits < MaxEdits
  /\ edits' = edits + 1
  /\ LET t == Over(patch, IF templates[k] = None THEN Bare ELSE templates[k]) IN
     /\ t # templates[k]
     /\ ValidateTemplateConsistency(t)
     /\ TemplateStrategyAllowed(t, k.namespace)
     /\ templates' = [templates EXCEPT ![k] = t]
  /\ UNCHANGED <<ws, accounts, claim, copy, pending, vetted, exempt, requests>>

(* An admin deletes a template, its finalizer being absent or taken off.   *)
RemoveTemplate(k) ==
  /\ edits < MaxEdits
  /\ edits' = edits + 1
  /\ Exists(k)
  /\ templates' = [templates EXCEPT ![k] = None]
  /\ UNCHANGED <<ws, accounts, claim, copy, pending, vetted, exempt, requests>>

EditAccount(s, grant) ==
  /\ edits < MaxEdits
  /\ edits' = edits + 1
  /\ accounts' = [accounts EXCEPT ![s] = grant]
  /\ accounts' # accounts
  /\ UNCHANGED <<ws, templates, claim, copy, pending, vetted, exempt, requests>>

Next ==
  \/ \E c \in Clients : \/ \E change \in Changes[c] : Submit(c, change)
                       \/ Default(c) \/ Validate(c) \/ WebhookFails(c)
                       \/ Store(c) \/ Delete(c)
  \/ Finalize
  \/ ReadWorkspace \/ EnsurePVCExists
  \/ \E k \in Keys : \/ \E patch \in Patches[k] : EditTemplate(k, patch)
                     \/ RemoveTemplate(k)
  \/ \E s \in Accounts, grant \in Grants : EditAccount(s, grant)

Spec == Init /\ [][Next]_vars

-----------------------------------------------------------------------------
(***************************************************************************)
(* Properties.                                                             *)
(***************************************************************************)

(* The shape of the state.  A stored workspace that is not being deleted   *)
(* has every default filled in that the webhook always fills, and the      *)
(* account it runs under exists if it was a user who wrote it last; a      *)
(* write under way is at one of the three steps of admission               *)
(* (workspace_webhook.go, Default and the bypasses of ValidateUpdate).     *)
TypeOK ==
  /\ ws # None =>
       /\ DOMAIN ws = DOMAIN Blank
       /\ {ws.owner, ws.updatedBy} \subseteq Clients \cup {None}
       /\ ws.deleting \in BOOLEAN /\ ws.storage \in Size
       /\ ~ws.deleting =>
            /\ ws.updatedBy \in Clients
            /\ ws.desired \in Statuses
            /\ ws.ownership \in Sharing /\ ws.access \in Sharing
            /\ ws.account # None
            /\ ws.updatedBy \in Users => ws.account \in Accounts
  /\ DOMAIN templates = Keys
  /\ \A s \in Accounts :
       accounts[s].users \subseteq Users /\ accounts[s].labelled \in BOOLEAN
  /\ claim \in Nat /\ copy \in Size /\ exempt \in BOOLEAN
  /\ \A c \in Clients : pending[c] # None =>
       pending[c].stage \in {"default", "validate", "store"}
  /\ requests \in 0..MaxRequests /\ edits \in 0..MaxEdits

(* A live OwnerOnly workspace is changed by its creator or by a privileged *)
(* client only, and only a privileged client ever changes the recorded     *)
(* creator, however the writes of several clients interleave               *)
(* (workspace_webhook.go, ValidateUpdate).                                 *)
OwnershipHolds ==
  [][ws # None /\ ws' # None /\ ws # ws' =>
       (/\ (~ws.deleting /\ ~ws'.deleting /\ ws.ownership = "OwnerOnly"
              => ws'.updatedBy \in Privileged \cup {ws.owner})
        /\ (~ws.deleting /\ ws.owner \notin {None, ws'.owner} => ws'.updatedBy \in Privileged))]_vars

(* The stored spec obeys the template content it was last checked against: *)
(* no chain of stops, label edits and refused or overtaken requests gets a *)
(* spec past the template that no check has seen.  A spec that a           *)
(* privileged client changes, or fills with new defaults, counts as        *)
(* unchecked (template_validator.go, ValidateUpdateWorkspace).             *)
CheckedSpecKept == ws # None /\ vetted # None => SpecComplies(ws, vetted)

(* The template that a workspace refers to can be found.                   *)
TemplateFound(w) == w.templateRef # None => ResolveTemplate(w.templateRef) # None

(* The controller's own write of a live workspace whose template is there  *)
(* is admitted: no edit of a template or of an account locks the operator  *)
(* out (workspace_webhook.go, the bypass of ValidateUpdate; the template   *)
(* webhook's check of the default access strategy).                        *)
NeverWedged ==
  ws # None /\ ~ws.deleting /\ TemplateFound(ws) =>
    \A c \in Privileged :
      ~DefaultRefuses(ws) /\ ValidateUpdate(ws, Defaulted(ws, c, ws), c)

(* Templates that admit one reading only: no more than one default in any  *)
(* namespace, and every default access strategy named with its namespace.  *)
Unambiguous ==
  /\ ~\E n \in Namespaces : Cardinality(FindDefaultTemplates(n)) > 1
  /\ \A k \in Keys : Exists(k) =>
       (templates[k].strategy # None => templates[k].strategy.namespace # None)

(* While the templates are unambiguous and the one referred to is there,   *)
(* no template edit that the template webhook accepts, no removal of       *)
(* another template, no change of an account and no write of a user locks  *)
(* the operator out of a live workspace (workspace_webhook.go, Default and *)
(* ValidateUpdate; template_resolver.go, the fallback to the shared        *)
(* namespace).                                                             *)
OperatorAdmitted == Unambiguous => NeverWedged

(* The spec of a live workspace asks for no less storage than its claim    *)
(* already requests, unless a privileged client shrank it, or the claim    *)
(* was made or grew between the check of a write and its store, or from a  *)
(* version of the spec that had another size (storage_validator.go,        *)
(* ValidateStorageSizeNotShrinking).                                       *)
NoShrink ==
  ws # None /\ ~exempt =>
    (~ws.deleting /\ ws.storage \notin {None, 0} => ws.storage >= claim)

(* Defaulting an object twice is the same as defaulting it once, so a      *)
(* write that changes nothing leaves the spec alone and is not checked     *)
(* again (template_defaulter.go, workspace_webhook.go, Default).           *)
DefaultingSettles ==
  \A c \in Clients :
    (pending[c] # None /\ pending[c].stage = "default" /\ ~DefaultRefuses(pending[c].new)) =>
      LET once == Defaulted(pending[c].new, c, pending[c].new)
      IN  ~DefaultRefuses(once) /\ Defaulted(once, c, once) = once

(* Three steps of admission with writes of others, edits of templates and  *)
(* deletions between them amount to one: each change of the stored object  *)
(* is one that its author may make of the version it replaces, and a       *)
(* deleted workspace does not come back (workspace_webhook.go, Default,    *)
(* ValidateCreate, ValidateUpdate).                                        *)
Contract == INSTANCE AdmissionContract WITH Complies <- SpecComplies
AdmitsAtomically == Contract!Spec
=============================================================================

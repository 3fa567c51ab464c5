# A verification of jupyter-k8s

TLA+ models of the jupyter-k8s operator, the TLC instances that check them, and proofs
that TLAPS checks. Every definition is translated from the Go code under `src/`;
`PROJECT.json` maps each one to its lines.

- Check a model: `tlc -config LifecycleSafety.cfg WorkspaceLifecycle`
  (`PROJECT.json` lists which module goes with which configuration).
- Check the proofs: `tlapm WorkspaceLifecycle_proofs.tla`, and likewise for every module
  whose name ends in `_proofs`.

## 1. The system

jupyter-k8s runs notebook servers on Kubernetes. Its parts, what they keep and do:

| Part | State | Operations | What is hard about it |
| --- | --- | --- | --- |
| Workspace controller (`internal/controller`: `workspace_controller`, `state_machine*`, `resource_manager*`, `status_manager`) | the Workspace (spec, finalizer, labels, conditions, `status.accessResources`), its Deployment, Service, PVC and access resources | reconcile pass: metadata, run, stop, delete, idle stop | reads from informers that lag, each write may conflict, fail or be the last before a crash |
| Access startup probe (`state_machine_access`, `access_startup_prober`) | failure count, deadline, success, observed strategy version, all in the status | probe, back off, give up, reset | status writes get lost or conflict after the request was made; restarts lose the delayed requeue |
| Template controller, strategy controller (`workspacetemplate_controller`, `workspaceaccessstrategy_controller`), references (`internal/workspace`) | finalizers on templates and strategies, labels on their referrers | add and remove finalizers, backfill labels | five writers (two webhooks, three controllers) keep finalizers, labels and references in step without a transaction |
| Admission webhooks (`internal/webhook`) | none of their own | defaults, validation against the template, finalizers on what a Workspace refers to | what is checked, and against what, may have changed when it is stored; side effects before that |
| Signing keys (`internal/rotator`, `cmd/rotator`, `internal/jwt`) | keys in a Secret, keys seen by each replica | rotate, prune, watch, sign, validate | replicas see a key at different times; jobs are late, repeated |
| Auth middleware (`internal/authmiddleware`), extension API (`internal/extensionapi`) | sessions in signed cookies | login, bearer exchange, verify, re-authorise, refresh; connection and access reviews | authorisation cached in a token |
| Integrations (`integration_*`, `resource_manager_integration`, `deployment_builder_integration`) | values frozen in `status.resolvedIntegrations`, the pod's further containers, `status.integrationStatuses` | resolve, capture, replay, prune, probe | template, resource and record change independently, and neither templates nor resources are watched |
| Pod events (`pod_event_handler`, `awsadapter`), idle detection (`idle_checker`) | a state file on the pod's volume, remote-access nodes in the cloud | set up, repeat after restarts, clean up, preemption; measuring idleness | several external calls per event on an old copy of the pod, no retry |

The parts meet in the API server: the controllers write with optimistic concurrency
(a `resourceVersion` that is not current is a conflict), read from informers, and are woken
by events of the objects they watch.

## 2. The modules

| Module | Models |
| --- | --- |
| `WorkspaceLifecycle` | the workspace controller, one Workspace with its objects |
| `WorkspaceContract` | what that controller promises to the owner of a Workspace; abstract |
| `WorkspaceLifecycle_proofs` | its inductive invariant; that it implements the contract |
| `AccessProbe`, `AccessProbe_proofs` | the startup probe and the status it keeps, with time |
| `KeyRotation`, `KeyRotation_proofs` | rotator job, Secret, signing replicas, with time |
| `TemplateProtection` | the finalizer of a WorkspaceTemplate |
| `StrategyProtection` | the two finalizers of a WorkspaceAccessStrategy |
| `Protection_proofs` | what is proved of these two; it extends the second and instantiates the first as `TP` |
| `Session`, `MCSession`, `Session_proofs` | sessions of the auth middleware and the reviews of the extension API, with time; `MCSession` adds the symmetry of requests |
| `Admission`, `MCAdmission`, `Admission_proofs` | the webhooks of Workspaces and templates: every defaulter and validator, with writes of several clients under way; `MCAdmission` has the templates and changes of the instance |
| `AdmissionContract` | what the webhooks promise, with a write in one step; abstract |
| `Integrations`, `MCIntegrations`, `Integrations_proofs` | an integration template attached to a Workspace, from resolution to the probe's verdict; `MCIntegrations` has the templates, references and resources |
| `PodEvents`, `PodEvents_proofs` | the pod event handler and the adapter that registers pods for remote access |

### Conventions

- **Passes.** A reconcile pass is a program counter `pc` and a working copy `mem`; every call
  of the API server is a step, so that anything may happen between two calls.
- **Informers.** A copy (`cache`, `cdep`, `acache`, ...) and an event action that brings it up
  to date. Several changes may be seen as one.
- **Resource versions.** Only what they decide is modelled: `memFresh` (`cacheFresh`, `aFresh`)
  says that the working copy (the informer's copy) is the stored object. A write of another
  copy is a conflict.
- **Queue.** `queued` says that the key is in the work queue; a key that is added while its
  pass runs is taken up after the pass. One object, one worker. Returned errors and
  `RequeueAfter` queue again; their delays are left out where no property is about time.
- **Budgets.** Requests of users and faults are counted against `MaxOps` and `MaxFaults`.
  That is why deadlock is not checked: a system whose users are silent may rest.
- **Variants.** A definition whose comment starts with "Variant" is a plausible error of the
  definition after it. It is used nowhere; substituting it must violate the property that
  `PROJECT.json` lists it for.

### WorkspaceLifecycle

`ws` is the Workspace (existence, deletion, finalizer, labels, desired status, reference to a
strategy, version of the spec, True conditions, `status.accessResources` as `tracked`). `dep`,
`svc`, `pvc`, `res` are its objects and `cdep`, `csvc`, `cpvc` the informers' copies; access
resources are unstructured and read live, as in the code. `Reconcile` picks the first step of a
pass from the copy it reads (deletion, metadata, stopped, running), and the steps follow the
code: `EnsurePVCExists`, `EnsureDeploymentExists`, `EnsureServiceExists`,
`EnsureAccessResource`, `DeleteAccessResource`, `ProbeAccessStartup`, the status writes,
`CheckWorkspaceIdle`, `StopWorkspaceDueToIdle`, `EnsureDeploymentDeleted`,
`EnsureServiceDeleted`, `EnsurePVCDeleted`, `CheckAllResourcesDeleted`, `RemoveFinalizer`.
Users change the desired status, the reference, the spec, the strategy, or delete;
`HandlePreemption` is the pod event handler's write. Kubernetes makes Deployments ready and
removes what is deleted, at once or later (`Lingering`). Faults: a failed call, a crash, a failed
probe, a Deployment that becomes unready, a lost access resource.

`WorkspaceContract` knows none of this: users' requests, reports, idle stop, storage. The
mapping keeps the visible fields of the Workspace and the state of its PVC.

### AccessProbe

Looks at the same pass only around the probe. Deadlines are kept as the time left until
them, `Tick` passes time and counts them down in every copy. A tick is a part of a second (`Second` of them make one):
`earliestNextProbeTime` is serialised in whole seconds, so that the deadline that is stored may come up to a second sooner than the one
that the pass set (`WholeSeconds`). `strat` is the version of the strategy with a
probe (an edit happens when its informer sees it), `Plain` one without. History variables record
which versions answered, failed requests per version, and when the last request was made, so
that properties can compare the status with what really happened. The Deployment and the Service are ready
whenever the probe is reached. `MaxCounted` saturates the history's counter.

### KeyRotation

A key is the time it was made. `Rotate` adds a key and prunes the oldest beyond the number that
`deriveNumberOfKeys` computes; a lost answer makes the job run again. A replica records when it
saw each key, signs with the newest one it has seen for at least `NewKeyUseDelay`, and forgets
this when it restarts. `Lag` bounds the delivery of a change, `Jitter` the lateness of a job. A
behaviour follows one token at a time; since it may be any token, what holds for it holds for all.

### TemplateProtection

One template of the shared namespace and several workspaces that refer to it, by name and namespace
(`"shared"`) or by name alone (`"own"`, which the resolver finds by its fallback). An admission
is a request of its own: `Default` resolves the template and may add the finalizer
(`AddFinalizer`), `StoreWorkspace` stores. `UpdateMetadata` is the workspace controller's
write of finalizer and labels, which goes through the webhook too. The pass of the template controller:
`Reconcile`, `ListWorkspaces`, `WriteFinalizer`, `UpdateStatusObservedGeneration`. The
template has no default access strategy.

### StrategyProtection

One strategy, one template, several workspaces, a reference being a Boolean. Here a workspace's
label comes from the workspace controller alone; a template's comes from its webhook (which a
write may bypass, `failurePolicy: Ignore`) or from `BackfillLabels`. `AddFinalizer` is
`SafelyAddFinalizerToAccessStrategy`: reading the informer, writing and reading again after a
conflict are one step, because a write that another one precedes conflicts wherever the
reading is placed. The strategy controller's pass keeps the kinds of referrers it has found in
`want`, and `RetryFinalizers` applies them again after a conflict, as the code does. No
finalizer can be added to an object that is being deleted (`MaySet`).

### Session

One user, one workspace, one browser with a session cookie and a bearer URL. A request (`/auth`,
a WorkspaceConnection, `/bearer-auth`, `/verify`) is a record with a step for each call it waits
for: the RBAC review, the look-up of the Workspace in an informer at most `Lag` behind, the
review of a bearer token, signing, and the delivery of the answer. Requests overlap and their answers
overwrite each other's cookie. `Limit` is the servers' `WriteTimeout`: the handler may go on, but what it
answers after that does not arrive, so `Tick` ends such requests. `Finish` ends a request without effect for
the reasons the model does not tell apart (no signing key, Workspace not available, horizon passed). A
verification that needs no refresh changes nothing; `Accepted(cookie)` is its answer. Each token
carries the time of its login as history.

### Admission

A write of the Workspace is a record in `pending`, and goes through `Submit` (a change put over the object
the client has read), `Default` (the mutating webhook), `Validate` and `Store`; between them other clients
write, an admin edits templates (through the template webhook's own check), removes them, and edits service accounts, and the
controller makes or grows the claim: `ReadWorkspace` takes a version of the storage, `EnsurePVCExists` makes the claim from it, however old it is by then,
with the default size where the spec has none. A template may go at any time, which allows more than the code: its finalizer holds it back while it is
there, and `TemplateProtection` tells when it is. Service accounts stay. `WebhookFails` is a webhook, or a call it makes, that fails. `Store` refuses a write whose old object is not the
stored one. It compares contents where the API server compares `resourceVersion`, which lets some more
writes through (those after a change and its reversal) and none fewer. Each applicator and validator of the code is an operator of
its name, and `Default`, `ValidateCreate`, `ValidateUpdate` call them in the code's order with its early
returns: the bypass of privileged clients, the update that changes nothing, the stop that changes nothing
else, the deletion. Values are as coarse as the rules can see: a regular expression is the set of values it matches,
one resource stands for all, sizes are numbers. `vetted` remembers the content of the template a spec was last
checked against, `exempt` that a privileged write, a claim made between check and store, or one made from an outdated version has put the size beyond the check.
The model takes it that cached reads of webhooks are current, and that templates are edited through the
webhook. Writes of an object that is being deleted are not validated, as in the code.

`AdmissionContract` has no webhooks and nothing under way: the stored Workspace, `vetted` and the claim change in one step,
and each change says what its author may do to the version it replaces (`Create`, `UserUpdate`, `PrivilegedUpdate`, `Delete`,
`WriteDeleted`, `Vanish`), while the claim only follows a version of a running workspace that the controller has read (`Read`, `Grow`). The author of a write is known from `updatedBy`; who asked for a deletion is not recorded, so
that the contract does not say it. The mapping is the identity on these variables; whether a spec obeys a template is a
parameter, for which `Admission` gives `SpecComplies`.

### Integrations

`ws` has the reference, the record (`rec`: hash of the reference, version of the template, frozen values) and the
verdict. A pass: `LoadTemplate` or `PruneIntegration`, `Capture` when reference or template changed since the
record (or `CaptureFails`, which keeps the old record), the Deployment (created, updated, kept or failed), the
Service, the access probe, the integration's probe in the pod, the status. Integrations are probed only behind the access probe: its outcome for the strategy's version is
`access` in `ws`, and once it is over the threshold a pass ends (`GiveUp`) without looking at the integration, and asks for no other. A template is its revision and its `shape`: what the pod and the
probe command take from the resource and from parameters, and whether its names clash with the pod's. The
resource is read live, Workspace, Deployment and templates from informers. The environment edits references,
templates and resources, stops and starts, makes either probe fail, edits the access strategy, fails calls, restarts the controller.
`kept` and `frozen` are histories: the record is stored and known to all copies, and it answers the current
reference and template. API defaults that the comparison of Deployments ignores are not modelled.

### PodEvents

`queue` has the copies of pods that the informer still has to deliver, in order, an update being the copy before
and the copy after it. `HandleWorkspacePodEvents` takes one; `pc` and `job` are the event in work, each command in a
container and each call of the plugin a step: reading and writing the state file, registering the node,
starting agent and server, deregistering. Containers restart, the pod is deleted and replaced, the volume's
file is lost or corrupted, the operator crashes and resyncs, the Workspace's reference and the strategy's
handler change in between. `spoiled` and `missed` are histories of pods for which a call failed, an event was ignored, or the operator stopped during their event.
The informer shows a pod with its deletion timestamp before it is gone (`HandleWorkspacePodEvents` does nothing for a last copy without one).
The phase of a pod is Running once all containers have started; pods of a Workspace follow each other (strategy `Recreate`).

## 3. What is checked

| Run | Asks |
| --- | --- |
| `lifecycle_safety` | With one request and one fault of any kind in the middle of passes, and objects that linger while they terminate: are the copies a pass works on sound (`CopiesAreSound`)? Is the contract kept (`KeepsContract`)? Is anything created for a Workspace that is gone? |
| `lifecycle_converges` | Stopped and started again over objects that are still terminating: is what the user goes on wanting reached (`DesiredStateReached`): Stopped (`StopConverges`), Available (`RunConverges`), with the access resources of the strategy (`RoutesConverge`)? |
| `lifecycle_recovers` | After a request, an edit of the strategy included, and a failed call or a crash: is it reached (`DesiredStateReached`), with the current spec and the current version of the access resources, does a deletion complete and leave nothing behind (`DeletionCompletes`)? |
| `probe` | Do success and failures belong to the recorded version and start (`StatusIsEarned`)? Does Available wait for an answer (`GateHolds`)? Do requests keep their distance, up to the second that the stored deadline loses (`Spaced`)? Does every probe conclude, and a Workspace that was given up recover after a fix of its strategy? |
| `rotation` | Does every replica know the key of a token another one signed? Is a key kept for the life of its tokens? Is there always one to sign with? |
| `template`, `strategy` | Is a wakeup lost, so that a wrong finalizer stays (`Attended`)? Are finalizers right once requests end (`ProtectionConverges`, `ReferrersProtected`), do deletions complete (`DeletionConverges`), are generations observed (`GenerationObserved`)? |
| `session` | How long after losing RBAC or the Workspace is a cookie still accepted (`RevokedAccessEnds`)? How long after the login (`SessionsEnd`)? Is a cookie cleared only for lack of access (`ClearedOnlyWithoutAccess`)? |
| `admission` | With writes of two users and the operator under way at once, edits of templates and accounts and a claim that is made in between: does a stored spec obey the template it was checked against (`CheckedSpecKept`)? Do the three steps of a write amount to the one of the contract (`AdmitsAtomically`)? Who changes an OwnerOnly workspace (`OwnershipHolds`)? Can a spec ask for less than its claim (`NoShrink`)? Is defaulting idempotent (`DefaultingSettles`)? Is the operator ever locked out while templates are unambiguous and the one referred to is there (`OperatorAdmitted`)? |
| `integrations` | Is a pod built from one version of the resource, with a value for each expression (`NoPartialOverlay`)? Does a recorded integration keep its sidecar whatever breaks (`SidecarKept`), and its overlay whatever drifts (`DriftNeverRolls`)? Are edits followed in the end although neither templates nor resources are watched (`Settles`), and does the status come to tell what the probe says (`VerdictSettles`)? Both are asked of Workspaces whose access probe has passed, or is under way with a route that answers (`Accessible`): see section 4. |
| `pods` | Does a pod that is gone leave a node behind (`NoNodeLeft`), has one two of them (`OneNode`)? Does the state file tell the truth (`StateTrue`)? Is every restart of a container made good (`SetUpInTheEnd`)? |
| `admission_shared` | The same system without the restriction to unambiguous templates, still with the template that is referred to (`NeverWedged`). This run ends with a counterexample: section 4. |

All but the last pass. `admission` also checks the types of the variables, which are proved for every module.
The bounds of `session` are exact, the informer's lag in
`ClearedOnlyWithoutAccess` included: with one unit less of each TLC finds a counterexample. With a login by
`/auth` or a bearer URL, access that is lost ends after at most
`BootTTL + 2 TTL + 3 Limit + 2 Leeway - 2`, and `Lag` more if it is the Workspace that changed; the latter bound is not reached within the time of the run, and rests on its proof. `KeyOutlivesToken` is exact: a key may be missing in the last
`Shortfall` of a token's life (replicas go on signing with the old key while the new one cools
off), which is zero for the settings of the chart (5m, 15m); with one unit less TLC finds a
counterexample. It is stated of jobs that do not rotate twice: see section 4.

### Bounds

- One Workspace is enough for the workspace controller: passes of different Workspaces share no
  state. One access resource shows creation, tracking, pruning and loss; two of them only add
  orders of independent calls.
- One request and one fault, each at any point, cover the repetition of each call; two requests
  of the desired status put the second in the middle of the consequences of the first. What these
  runs check of safety is proved for any number of requests and faults (section 5); of liveness
  nothing is claimed beyond the bounds.
- Probe: two versions tell apart what belongs to the current one; a threshold of 2 with
  backoff 1 has a retry with and without backoff. Two ticks to a second let a deadline lose half of one.
- Keys: two replicas, one early and one late; times are small multiples that keep the order of
  the real durations (delivery < cool-off < rotation interval), with tokens that live for
  more than one rotation and less than two, so that the number of keys is rounded up. The
  run ends after the first pruning that a late token can meet.
- Templates and strategies: two workspaces for "the last one leaves" (with three requests for
  templates; for strategies two, where a template takes the part of the second referrer), one fault.
- Sessions: two requests at a time and three in all are what the longest chain needs (connection, exchange,
  a verification whose review fails); two changes lose the right and give it back. Durations are 1 or 2, so
  that every deadline can be met, missed by one and hit within the leeway; time runs until past every
  bound but the Workspace's in `RevokedAccessEnds`, which is proved. Of the Workspace only "own" and "other" are run; the two other values are answered alike.
  What the run shows is proved without these bounds.
- Admission: three requests and one edit are what it takes to check a spec, change what it was checked
  against, and store another write in between. Every client's changes touch one thing (one of them two), so that each
  refusal has one reason; one template uses every kind of rule, one has the label of a default and a strategy to
  gain, one may appear in the workspace's own namespace and take the place of the shared one. The
  safety properties, and idempotence, are proved for any templates and changes.
- Integrations: one event (edit, drift, fault, restart), at any moment of a Workspace that starts with or without an
  integration, and two revisions of templates; a template with a probe and one without, shapes that need a later value, a
  parameter, an undeclared parameter, or clash. The safety properties are proved for any number of events.
- Pods: one pod with three events of any kind, since what is kept for a pod is kept for it alone; with
  two pods and one event (575,828 states) TLC finds no error either. Of safety, what the run shows is proved for any number of both.

### Fairness

Weak fairness of: passes while the key is queued (a worker takes it, no call hangs for ever), every
informer's events (a watch is re-established), Kubernetes making a Deployment ready and
removing deleted objects, requests the API server has begun, the pod event handler while an event is in work or
waits, the operator's restart after a crash, and time. Nothing is assumed
of users and faults. Liveness under faults holds because faults are finite in number, not rare.

## 4. What the code does otherwise than it says

`admission_shared` checks a sentence of the documentation and ends with the counterexample; `PROJECT.json`
quotes the sentence. A template of the shared namespace with a `defaultAccessStrategy` that has no namespace, as in the example of
`docs/source/concepts/templates/shared-namespace.md`, is accepted, because the template webhook looks for the strategy in the
template's namespace. The workspace's defaulter copies the reference as it is, and then looks for it in the
workspace's namespace: every write of such a workspace is refused, the controller's included.

The following were found with the models and leave the statements above as they are; their histories are described so that
a reader can follow them in the code.

Workspace controller and probe:

- An access resource is created before `status.accessResources` is written (`resource_manager_access.go:249`). When that
  write conflicts and then the reference is removed, or the template is dropped from the strategy, the resource is neither listed nor deleted
  while the Workspace lives. `docs/source/concepts/access-strategies/access-resources.md:45` says the status "lists all resources created from
  these templates". `DeletionCompletes` shows that the garbage collector removes it with the Workspace.
- `resource_manager_access.go:205` updates a tracked access resource whose template changed with an object
  that has no owner reference, while `access-resources.md:41` says that the
  controller "sets the workspace as their `owner.reference`". The model keeps this as `owned`; such a
  resource, once lost, is not recreated, since the watch finds the Workspace by the owner reference.
- A start that overtakes the status write of a stop keeps the probe's success for new resources
  (`state_machine_access.go:79`), while `docs/source/dive-deeper/workspace-lifecycle/access-probes.md:51` says that the state resets when "The workspace is
  stopped and restarted."

Templates and strategies:

- A shared template that is referred to by name alone is not protected: the finalizer's query
  (`queries.go:23`) looks for references with the template's namespace, while the resolver falls back to the shared one.
- The label of a template whose strategy is missing is written by the template controller (`workspacetemplate_controller.go:172`)
  through the template's own webhook, which refuses it; the pass fails for ever, although the comment at line 201 says that
  "the controller must not wedge on it". While a strategy is terminating, the same failure keeps the template's own finalizer from being managed.

Admission:

- A template that gains a default and a tighter rule has a user's stop refused: the stop is defaulted first and is then no
  longer a change of `desiredStatus` alone (`template_validator.go:197`). The same happens to updates of metadata alone, and to users whose service
  account has lost its label.
- An update of metadata alone is not validated against the template, so that a required label can be removed afterwards.
- The template webhook (`template_webhook.go:123`) checks some defaults against the template's rules, and not `defaultResources`
  against the bounds, the default size against its limits, default volumes against `allowSecondaryStorages`, or base labels
  and environment against their rules. Such a template refuses the workspaces it has filled in.
- Two templates with the default label refuse every write of a workspace without a template, the controller's included;
  a template that is newly labelled is attached by the controller's next write without validation.
- A label with the reserved prefix that an administrator sets blocks later updates of users.
- `docs/source/dive-deeper/webhooks/workspace-validation.md` lists template constraints (line 9) and the check against shrinking storage (line 10) as "Always
  enforced"; updates of privileged clients skip both. `vetted` and `exempt` mark these writes. `ValidateStorageSizeNotShrinking` also reads the claim while it may
  be in the making, or while a pass is about to make it from an older version of the spec.
- Without the template it refers to, every write of a live workspace is refused, a stop by the controller included. The finalizer that keeps templates covers only references
  that name the template's namespace, and is added lazily (see above), so `OperatorAdmitted` has the template's presence as a hypothesis.
- The default service account comes from a label on the account, in the documentation from the template.

Integrations:

- When the status write after a capture is lost, the next pass captures again, and with a resource that drifted in between
  it rolls the pod (`workspace_types.go:253`: "so drift never rolls the running pod"); if the template was deleted or the capture fails in
  between, it strips the sidecar (`integration_helpers.go:20`). `kept` and `frozen` therefore begin when the record is known to all copies.
- A start with a stored record and a missing template fails. An edit of parameters whose capture fails is rendered
  with the old values. An edited template without a status probe is noticed only with the next event.
- When the access probe exceeds its threshold the pass returns without a requeue (`state_machine.go:304`): edits of integration templates and changes of
  health go unnoticed until another event of the Workspace or its strategy.
  `integrationStatuses` are not cleared while the Workspace is stopped.

Pod events:

- A setup that was interrupted by a crash leaves `setupInProgress` on the volume, and no later event sets the pod up
  (`ssm_pod_event_adapter.go:109`; the comment at line 62 says "Handles both first-time setup and recovery from container restarts."). A setup
  that failed is marked complete and not repeated before the next restart.
- A `cat` of the state file that fails counts as a file that is missing, and a second node is registered.
- The strategy decides on deletion whether to clean up: if it was deleted or edited since the setup, or the pod goes
  while the operator is down, the node stays.
- The preemption handler acts on pods whose name starts with "jupyter-" (`pod_event_handler.go:138`), while pods are named after Deployments
  "workspace-...". The model has the handler's effect as if it matched. Its annotation is never removed.

Smaller differences that explain the shape of the models, without a run of their own:

- `state_machine.go:205` says of a branch of the stop "This should not happen". Deletes return the objects
  as they were read before, so that the first pass of every ordinary stop ends there.
- `status_manager.go:411` takes it that "all workspace resources have been deleted" when Stopped is
  reported. Informers that are behind, and objects that are still terminating, count as deleted;
  `StopConverges`, a part of `DesiredStateReached`, says what remains true.
- `state_machine_access.go:170` enforces "minimum spacing between probes". The deadline is read from the
  informer's copy, so a pass on an old one repeats a request at once; `Spaced` is about passes on current copies. The deadline is stored
  in whole seconds (`workspace_types.go:374`, a `metav1.Time`): with a period of one second two requests may follow each other at once.
- `docs/source/dive-deeper/authmiddleware/jwt-cookies.md` calls the refresh horizon the maximum duration of a session.
  A token that is refreshed just before it lives for its whole life, and one more follows if a review fails
  (`SessionsEnd`). `handler.go:94` speaks of "one final refresh" beyond the horizon; `handleVerify` keeps the old token.
- The default of `failureThreshold` is 20 in `access_startup_prober.go` and 30 in its documentation.
- A rotation whose answer is lost is repeated and prunes one key more than the schedule accounts for.
- The first workspace of a template is admitted without a finalizer on it; the strategy controller
  removes a finalizer that admission set for a referrer it cannot see yet. Both come (back) later
  (`ProtectionConverges`, `ReferrersProtected`), and a deletion in between succeeds.

## 5. What is proved

For all constants that meet the named assumptions, hence for any number of replicas, workspaces,
access resources, requests and faults:

- **`CopiesAlwaysSound`, `TypeCorrect`** (`WorkspaceLifecycle_proofs`). `CopiesAreSound` is
  inductive. Its parts: a copy that counts as current differs from the stored Workspace only
  in what the pass has tracked; an old copy with a finalizer and no deletion still means that
  the Workspace exists with its finalizer; a pass knows on which branch it is. The second
  part is what makes it inductive: only a pass that saw the deletion removes the finalizer, and
  the informer cannot be behind that pass. Steps are sorted into those that leave the
  Workspace alone (`Quiet`), status writes, updates, users' writes and copying.
- **`NothingEverCreatedForGone`**. Objects are created only in a running pass, which by the
  invariant implies that the Workspace exists.
- **`ImplementsContract`** (same module). Every step maps to a step of
  `WorkspaceContract` or to a stutter, using the invariant for status writes (a current copy has
  the desired status that is reported on) and for the removal of the finalizer.
- **`StatusAlwaysEarned`, `GateAlwaysHolds`** (`AccessProbe_proofs`). Under
  `Threshold <= MaxCounted` (the history must be able to count that far). The invariant adds
  that a current copy equals the stored status and that what a pass is about to write fits its
  result; of outdated copies it need say nothing, because their writes conflict.
- **`RequestsKeepTheirDistance`** (same module). `Spaced`, an action property, under `Threshold <= MaxCounted` and
  `ProbeBackoffThreshold <= 10` (`constants.go:101` has 10). The invariant `SInv`: a failure count below the threshold, stored or about to be
  stored, comes with a deadline that, added to the time since the request, is longer than the period or the cap less a second; of a deadline that is still to
  be stored, the fraction it is about to lose is subtracted. Time leaves this sum as it is, and a failed request makes it anew. That a doubled delay is no shorter than the period is
  shown for each of the at most nine doublings, since a fact about all powers needs induction.
- **`TokensAlwaysKnown`** (`KeyRotation_proofs`). Under `Lag < NewKeyUseDelay`. The
  invariant: every key older than `Lag` has been delivered everywhere, a replica has not seen a key
  before it was made, no key is made twice.
- **`KeysOutliveTokens`, `SigningAlwaysAvailable`** (same module). The first under `NewKeyUseDelay >= 1`, the second under
  `Lag + NewKeyUseDelay + Jitter <= (Intervals - MaxLost) * RotationInterval`: delivery, cool-off and lateness fit into the
  intervals of the schedule that are left when every lost answer costs a key. The invariant counts (`KeysApart`): a key that
  is followed by n others, less the jobs that ran twice, was made n intervals ago but for the jitter, so that what pruning leaves
  reaches back as far as the schedule promises (`OldKept`, and `OldKnown` for what each replica has). A replica that signs with an old key
  does so because the newer ones are on their way or in their cool-off, hence recent (`NewerIsRecent`); `TokenSpan` keeps this for the token.
- **`AlwaysAttended`** (`Protection_proofs`), of `StrategyAlwaysAttended` and `TemplateAlwaysAttended`. The invariant adds
  that a current copy is equal to the stored object, and that a pass whose copy or whose
  lists are outdated is followed by another one. An event that does not wake the
  controller changes no answer of the queries, because a referrer counts only with its label.
- **`AccessLost`, `SessionBound`, `ClearedRightly`** (`Session_proofs`). From `SessionAssumption` (window <= life <=
  horizon, as the configuration is validated). The invariant says of every token, in the browser
  or under way, how long before its end a review was right at the latest, and of every request what its review
  has shown since it began. It needs that the histories only grow, that a request is not older than `Limit`, and
  that an informer's copy which differs from the Workspace was right at most `Lag` ago.

- **`SpecObeysItsTemplate`, `OwnersOnly`, `VolumesDoNotShrink`, `DefaultingIsIdempotent`** (`Admission_proofs`). From `AdmissionAssumption`,
  `ChangesAssumption` and `TemplatesAssumption` (requests have the fields of a Workspace, sizes are numbers, enumerated fields have one of the schema's values). The invariant
  says of every write under way what its checks have shown of the object it was made from: the client may change it, the new spec obeys the content
  `seen`, or differs from the old one in nothing the rules can see (`SameToRules`), and its size fits the claim. A claim grows from the size the controller has
  read; where that is no longer the stored one, or a checked write is still to be stored, `exempt` is set. Since `Store` demands
  that the old object is still the stored one, this carries over to what is stored. The last part is why stops and writes of metadata may skip the
  check. `VolumesDoNotShrink` and `DefaultingIsIdempotent` have the hypothesis `NoneApart`, that `None` is not itself a record, which
  TLA+ does not decide. Idempotence goes field by field: `Partly` says which fields the applicators have
  treated so far and how, `Settled` that a template has nothing to add.
- **`TypeCorrect`, `OperatorIsAdmitted`** (same module), without `NoneApart`. Two invariants, proved together as `AInv`. `Types`: an enumerated
  field keeps one of its values, what the mutating webhook always fills is filled in every live workspace and every write that is past it, and a
  user's write that passed validation names an account that exists. Writes of an object that is being deleted, and privileged ones,
  skip these steps, so that the types say less of them. `Anchors`: what a live workspace, or a defaulted write,
  refers to is in a namespace in scope, its strategy is there, and every stored
  template has passed the template webhook, the initial ones by `AdmittedAssumption`. While templates are unambiguous, defaulting
  therefore refuses no live workspace whose template can be resolved, be it by the fallback to the shared namespace, and validation lets privileged clients pass.
- **`AdmissionIsAtomic`** (same module). `Admission` implements `AdmissionContract`, under `NoneApart`. What the checks of a write say of its old and its new object
  does not depend on anything that may change before it is stored (`Lawful`: owner, reserved labels, volumes, whether the template
  was asked); that its strategy is there is in `Anchors`, that it obeys what the template held is `CheckedSpecKept`. `Store` demands that the old object is the
  stored one, so that all this holds of the version that is replaced. Only the template's content and the claim's size may be those of an earlier moment, and the contract
  does not promise more.
- **`TypeCorrect`, `BuiltWhollyFromOneVersion`, `SidecarStays`, `DriftIsHarmless`** (`Integrations_proofs`). From `IntegrationsAssumption`, for any
  number of events. The invariant: a record's values, in every copy of the Workspace, were read from one version of the resource;
  while `kept`, all copies have the record under the name of the reference; while `frozen`, all copies agree on
  reference and record, the informer knows the template, and the Deployment is what they render to. The histories
  begin between passes, when the informer knows the stored Workspace, so that no pass on another copy is under way.
- **`TypeCorrect`, `NoNodeIsLeft`, `NeverTwoNodes`, `StateIsTrue`** (`PodEvents_proofs`). From `PodAssumption` and `MarksAssumption` (the marks of
  what is missing are no pods and no states), for any number of pods, events and any backlog. The event in work, the
  queued ones and the pod itself are ever later copies of one pod (`Follows`), whose restart counts only grow; the events that are left bound them (`Budget`).
  A pod that is gone is settled, or its deleting copy is still to be delivered, or its deregistration is in work (`Ending`).
  A node is known to the file except while a setup is at work on it (`Single`), which deregisters before it registers.
  The file counts no restart that a copy still to be seen lacks (`FilesOld`), so that a setup of an old copy does not write over a
  newer one's state; `Progress` says what a setup has done so far.
- **`TypeCorrect`** in the other modules (`TemplateTypeCorrect` for templates). Types are inductive by themselves
  for templates and strategies, and follow from the invariants above for sessions and keys. For the probe they follow
  together with the types of the variables its invariant leaves out, up to the sign of deadlines: that `2 ^ k` is positive needs induction.

Only model-checked: everything under fairness (`DesiredStateReached`, `DeletionCompletes`, `ProbeConcludes`, `HealsAfterFix`,
`ProtectionConverges`, `ReferrersProtected`, `DeletionConverges`, `GenerationObserved`, `Settles`, `VerdictSettles`, `SetUpInTheEnd`), because
liveness is beyond the proof system. Every invariant and every action property that a passing run checks is proved.

## 6. Not modelled

- **Object builders, image resolution**: they build Kubernetes objects from a spec and keep no state. `WorkspaceLifecycle` tells only the version
  a Deployment was built from, `Integrations` what a template adds to it.
- **Pod exec webhook**: one stateless decision. **Routes, discovery, health, configuration, start-up, generated
  code**: nothing that steps interleave on.
- **Measuring idleness** (`idle_checker`, `idle_detectors`): `WorkspaceLifecycle` takes the measurement as an answer. What it computes is a
  comparison of two clocks; what matters, the stop on an old copy, is modelled.
- **OIDC verification, signatures, claims**: taken as answers in `Session`; which key verifies is `KeyRotation`'s subject.
- **Plugins, scripts and cloud calls**: answers of the environment in `PodEvents`.
- **Fields no rule looks at**: app type, storage class and mount path of a Workspace; a scheduling default that is present but empty is not told from
  an absent one (`scheduling_defaulter.go:17`).
- **Wording**: events, messages, logs, warnings of webhooks; the text of templates and JSON paths, which
  appear as the values they yield; the encoding of names in labels.
- **Compositions**: the template controller's pass is split between `TemplateProtection` (without a default strategy) and
  `StrategyProtection` (labels and the strategy's finalizer), `AccessProbe` refines one step of `WorkspaceLifecycle` without a proof of it, and
  `Admission` takes strategies and service accounts as lasting, and templates as free to go. Their products are beyond what TLC can explore; each module
  allows its environment all that the others may do.

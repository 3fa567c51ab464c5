------------------------------ MODULE PodEvents ------------------------------
(***************************************************************************)
(* Remote access to the pods of a Workspace: PodEventHandler dispatches    *)
(* the events of pods to the adapter that the access strategy names, and   *)
(* AwsSsmPodEventAdapter registers the pod as a managed node, starts the   *)
(* agent in the sidecar and the server in the main container, repeats this *)
(* for containers that restarted, and deregisters the node in the end.     *)
(* It remembers what it did in a file on a volume of the pod.              *)
(*                                                                         *)
(* The informer delivers events one at a time and in order, an update as   *)
(* the pod before it and the pod after it.  The handler works on these     *)
(* copies while containers restart and pods come and go; each command it   *)
(* executes in a container and each call of the plugin is a step.          *)
(***************************************************************************)
EXTENDS Integers, Sequences, Functions

CONSTANTS
  None, Corrupted,
  Handlers,     \* values of podEventsHandler of the access strategy
  Adapters,     \* those with an adapter and a context that can be resolved
  MaxPods,      \* bound on pods
  MaxBacklog,   \* bound on events that the informer has not delivered
  Kinds,        \* what happens besides: see AllKinds
  MaxEvents     \* bound on how often it does

AllKinds == {"container", "call", "crash", "resync", "volume", "user", "admin"}

ASSUME PodAssumption ==
  /\ Adapters \subseteq Handlers /\ None \notin Handlers /\ Kinds \subseteq AllKinds
  /\ MaxPods \in Nat \ {0} /\ MaxBacklog \in Nat /\ MaxEvents \in Nat

VARIABLES
  pods,       \* the pods of the Workspace that exist
  file,       \* the registration state on the volume of a pod
  agent,      \* whether the agent of a pod is registered
  server,     \* whether the remote access server of a pod runs
  nodes,      \* how many managed nodes the cloud has for a pod
  workspace,  \* "absent", "plain" or with a reference to the strategy: "refers"
  strategy,   \* the handler of the access strategy, or None when there is none
  queue,      \* pods that the informer still has to deliver
  up,         \* whether the operator runs
  pc, job,    \* the event in work
  spoiled,    \* history: pods for which an event was ignored, a call failed, or the
              \* operator stopped during their event
  missed,     \* history: pods whose last deregistration failed or was left out
  made,       \* how many pods there have been
  events

setup == <<workspace, strategy>>
history == <<spoiled, missed>>
vars == <<pods, file, agent, server, nodes, setup, queue, up, pc, job, history, made, events>>

Uids == 1..MaxPods
Counts == 0..MaxEvents
States == [sidecar : Counts, workspace : Counts, inProgress : BOOLEAN]

-----------------------------------------------------------------------------
(* Pods *)

Containers == [state : {"absent", "waiting", "running", "dead"}, restarts : Counts]

Pod == [uid : Uids, labelled : BOOLEAN, deleting : BOOLEAN,
        sidecar : Containers, workspace : Containers]

\* No pod and no registration state is mistaken for the marks of what is missing.
ASSUME MarksAssumption ==
  /\ None # Corrupted /\ None \notin Pod
  /\ None \notin States /\ Corrupted \notin States

\* The phase is Running from when all containers started once: the pod's containers are
\* restarted for ever.
PodRunning(p) == "waiting" \notin {p.sidecar.state, p.workspace.state}

IsContainerRunning(c) == c.state = "running"

Exists(u) == pods[u] # None

\* A command can be executed in container c of pod u.
Reachable(u, c) == Exists(u) /\ IsContainerRunning(pods[u][c])

Event(kind) == kind \in Kinds /\ events < MaxEvents /\ events' = events + 1

\* A call ends well only when it is possible, and fails otherwise or by a fault.
Call(ok, possible) ==
  /\ ok => possible
  /\ IF possible /\ ~ok THEN Event("call") ELSE UNCHANGED events

\* What the informer has to deliver of a change, while the operator runs.
Notify(seq) ==
  IF up
  THEN Len(queue) + Len(seq) <= MaxBacklog /\ queue' = queue \o seq
  ELSE UNCHANGED queue

SetPod(u, p) ==
  /\ pods' = [pods EXCEPT ![u] = p]
  /\ Notify(<<pods[u], p>>)

NewPod(u) ==
  LET waiting == [state |-> "waiting", restarts |-> 0]
  IN [uid |-> u, labelled |-> workspace = "refers", deleting |-> FALSE,
      sidecar |-> IF workspace = "refers" THEN waiting ELSE [waiting EXCEPT !.state = "absent"],
      workspace |-> waiting]

\* The Deployment replaces a pod that terminates.
CreatePod ==
  LET u == made + 1
  IN /\ workspace # "absent" /\ made < MaxPods
     /\ \A v \in Uids : Exists(v) => pods[v].deleting
     /\ pods' = [pods EXCEPT ![u] = NewPod(u)]
     /\ Notify(<<NewPod(u)>>)
     /\ made' = u
     /\ UNCHANGED <<file, agent, server, nodes, setup, up, pc, job, history, events>>

StartContainer(u, c) ==
  /\ Exists(u) /\ ~pods[u].deleting
  /\ \/ /\ pods[u][c].state = "waiting"
        /\ SetPod(u, [pods[u] EXCEPT ![c].state = "running"])
     \/ /\ pods[u][c].state = "dead"
        /\ SetPod(u, [pods[u] EXCEPT ![c] = [state |-> "running", restarts |-> @.restarts + 1]])
  /\ UNCHANGED <<file, agent, server, nodes, setup, up, pc, job, history, made, events>>

\* What a container ran is lost with it.
ContainerDies(u, c) ==
  /\ Reachable(u, c)
  /\ IF pods[u].deleting THEN UNCHANGED events ELSE Event("container")
  /\ SetPod(u, [pods[u] EXCEPT ![c].state = "dead"])
  /\ agent' = IF c = "sidecar" THEN [agent EXCEPT ![u] = FALSE] ELSE agent
  /\ server' = IF c = "workspace" THEN [server EXCEPT ![u] = FALSE] ELSE server
  /\ UNCHANGED <<file, nodes, setup, up, pc, job, history, made>>

\* Deployments, users and nodes delete pods at any time.
DeletePod(u) ==
  /\ Exists(u) /\ ~pods[u].deleting
  /\ SetPod(u, [pods[u] EXCEPT !.deleting = TRUE])
  /\ UNCHANGED <<file, agent, server, nodes, setup, up, pc, job, history, made, events>>

\* The pod goes, its volume with it.
PodGone(u) ==
  /\ Exists(u) /\ pods[u].deleting
  /\ pods' = [pods EXCEPT ![u] = None]
  /\ Notify(<<pods[u]>>)
  /\ file' = [file EXCEPT ![u] = None]
  /\ agent' = [agent EXCEPT ![u] = FALSE]
  /\ server' = [server EXCEPT ![u] = FALSE]
  /\ missed' = IF up THEN missed ELSE missed \cup {u}
  /\ UNCHANGED <<nodes, setup, up, pc, job, spoiled, made, events>>

\* A resync of the informer delivers a pod again.
Resync(u) ==
  /\ Exists(u) /\ up /\ Event("resync")
  /\ Notify(<<pods[u], pods[u]>>)
  /\ UNCHANGED <<pods, file, agent, server, nodes, setup, up, pc, job, history, made>>

\* The volume belongs to the pod: what is on it may be destroyed.
CorruptFile(u) ==
  /\ Exists(u) /\ file[u] # None /\ Event("volume")
  /\ file' = [file EXCEPT ![u] = Corrupted]
  /\ UNCHANGED <<pods, agent, server, nodes, setup, queue, up, pc, job, history, made>>

-----------------------------------------------------------------------------
(* Users and admins *)

EditWorkspace ==
  /\ workspace # "absent" /\ Event("user")
  /\ \E w \in {"absent", "plain", "refers"} \ {workspace} :
       /\ w = "refers" => strategy # None
       /\ workspace' = w
  /\ UNCHANGED <<pods, file, agent, server, nodes, strategy, queue, up, pc, job, history, made>>

\* A strategy is deleted once no Workspace refers to it.
EditStrategy ==
  /\ strategy # None /\ Event("admin")
  /\ \E s \in (Handlers \cup {None}) \ {strategy} :
       /\ s = None => workspace # "refers"
       /\ strategy' = s
  /\ UNCHANGED <<pods, file, agent, server, nodes, workspace, queue, up, pc, job, history, made>>

-----------------------------------------------------------------------------
(* The handler *)

NoJob == [pod |-> None, sidecar |-> FALSE, workspace |-> FALSE, cleanup |-> FALSE]

Idle == pc' = "idle" /\ job' = NoJob

Dispatched == strategy \in Adapters

\* handlePodRunning takes the strategy that the Workspace refers to.
HandlePodRunning(p) ==
  IF workspace = "refers" /\ Dispatched /\ IsContainerRunning(p.sidecar)
  THEN /\ pc' = "read" /\ job' = [NoJob EXCEPT !.pod = p]
       /\ UNCHANGED history
  ELSE /\ Idle
       /\ spoiled' = IF IsContainerRunning(p.sidecar) THEN spoiled \cup {p.uid} ELSE spoiled
       /\ UNCHANGED missed

\* handlePodDeleted takes the strategy that the labels of the pod name.
HandlePodDeleted(p) ==
  IF p.labelled /\ Dispatched
  THEN /\ pc' = "deregister" /\ job' = [NoJob EXCEPT !.pod = p]
       /\ UNCHANGED history
  ELSE /\ Idle
       /\ missed' = IF p.labelled THEN missed \cup {p.uid} ELSE missed
       /\ UNCHANGED spoiled

\* Variant: a pod that terminates still counts as running.
SetupBeforeCleanup ==
  /\ up /\ pc = "idle" /\ queue # <<>>
  /\ queue' = Tail(queue)
  /\ LET p == Head(queue)
     IN IF PodRunning(p) THEN HandlePodRunning(p)
        ELSE IF p.deleting THEN HandlePodDeleted(p)
        ELSE Idle /\ UNCHANGED history
  /\ UNCHANGED <<pods, file, agent, server, nodes, setup, up, made, events>>

HandleWorkspacePodEvents ==
  /\ up /\ pc = "idle" /\ queue # <<>>
  /\ queue' = Tail(queue)
  /\ LET p == Head(queue)
     IN IF p.deleting THEN HandlePodDeleted(p)
        ELSE IF PodRunning(p) THEN HandlePodRunning(p)
        ELSE Idle /\ UNCHANGED history
  /\ UNCHANGED <<pods, file, agent, server, nodes, setup, up, made, events>>

-----------------------------------------------------------------------------
(* AwsSsmPodEventAdapter *)

Uid == job.pod.uid
Spoil(cond) == spoiled' = IF cond THEN spoiled \cup {Uid} ELSE spoiled

\* Variant: the old node is left when the sidecar restarted.
NoCleanup(state, p) ==
  IF state \in {None, Corrupted}
  THEN [pod |-> p, sidecar |-> TRUE, workspace |-> TRUE, cleanup |-> state = Corrupted]
  ELSE [pod |-> p, sidecar |-> p.sidecar.restarts > state.sidecar,
        workspace |-> p.workspace.restarts > state.workspace, cleanup |-> FALSE]

\* Variant: only the sidecar is watched for restarts.
SidecarOnly(state, p) ==
  IF state \in {None, Corrupted}
  THEN [pod |-> p, sidecar |-> TRUE, workspace |-> TRUE, cleanup |-> state = Corrupted]
  ELSE LET restarted == p.sidecar.restarts > state.sidecar
       IN [pod |-> p, sidecar |-> restarted, workspace |-> restarted, cleanup |-> restarted]

\* What of the pod to set up, given the state that was read and the counts of the event.
NeedSetup(state, p) ==
  IF state \in {None, Corrupted}
  THEN [pod |-> p, sidecar |-> TRUE, workspace |-> TRUE, cleanup |-> state = Corrupted]
  ELSE LET sidecarRestarted == p.sidecar.restarts > state.sidecar
           workspaceRestarted == p.workspace.restarts > state.workspace
       IN [pod |-> p, sidecar |-> sidecarRestarted, workspace |-> workspaceRestarted,
           cleanup |-> sidecarRestarted]

SetupInProgress(state) == state \in States /\ state.inProgress

\* A read that fails counts as a file that does not exist.
ReadRegistrationState ==
  /\ pc = "read"
  /\ \E ok \in BOOLEAN :
       /\ Call(ok, Reachable(Uid, "sidecar"))
       /\ LET state == IF ok THEN file[Uid] ELSE None
              need == NeedSetup(state, job.pod)
          IN /\ IF ~SetupInProgress(state) /\ (need.sidecar \/ need.workspace)
                THEN pc' = "mark" /\ job' = need
                ELSE Idle
             /\ Spoil(~ok /\ (Exists(Uid) => file[Uid] # None))
  /\ UNCHANGED <<pods, file, agent, server, nodes, setup, queue, up, missed, made>>

\* Variant: the counts of the next restart.
\* Variant: the counts are read when the state is written.
CurrentCounts(inProgress) ==
  LET p == IF Exists(Uid) THEN pods[Uid] ELSE job.pod
  IN [sidecar |-> p.sidecar.restarts, workspace |-> p.workspace.restarts,
      inProgress |-> inProgress]

RegistrationState(inProgress) ==
  [sidecar |-> job.pod.sidecar.restarts, workspace |-> job.pod.workspace.restarts,
   inProgress |-> inProgress]

WriteRegistrationState(ok, inProgress) ==
  /\ Call(ok, Reachable(Uid, "sidecar"))
  /\ file' = IF ok THEN [file EXCEPT ![Uid] = RegistrationState(inProgress)] ELSE file

\* An error is logged, and the setup continues.
MarkInProgress ==
  /\ pc = "mark"
  /\ \E ok \in BOOLEAN : WriteRegistrationState(ok, TRUE)
  /\ pc' = IF ~job.sidecar THEN "server" ELSE IF job.cleanup THEN "cleanup" ELSE "register"
  /\ UNCHANGED <<pods, agent, server, nodes, setup, queue, up, job, history, made>>

\* Deregisters all nodes of the pod.
DeregisterNodeAgent ==
  /\ nodes' = [nodes EXCEPT ![Uid] = 0]
  /\ agent' = [agent EXCEPT ![Uid] = FALSE]

CleanUp ==
  /\ pc = "cleanup" /\ pc' = "register"
  /\ \E ok \in BOOLEAN :
       /\ Call(ok, TRUE)
       /\ IF ok THEN DeregisterNodeAgent ELSE UNCHANGED <<nodes, agent>>
       /\ Spoil(~ok)
  /\ UNCHANGED <<pods, file, server, setup, queue, up, job, missed, made>>

RegisterNodeAgent ==
  /\ pc = "register"
  /\ \E ok \in BOOLEAN :
       /\ Call(ok, TRUE)
       /\ nodes' = IF ok THEN [nodes EXCEPT ![Uid] = @ + 1] ELSE nodes
       /\ pc' = IF ok THEN "script" ELSE "final"
       /\ Spoil(~ok)
  /\ UNCHANGED <<pods, file, agent, server, setup, queue, up, job, missed, made>>

RunRegistrationScript ==
  /\ pc = "script"
  /\ \E ok \in BOOLEAN :
       /\ Call(ok, Reachable(Uid, "sidecar"))
       /\ agent' = IF ok THEN [agent EXCEPT ![Uid] = TRUE] ELSE agent
       /\ pc' = IF ok THEN "marker" ELSE "final"
       /\ Spoil(~ok)
  /\ UNCHANGED <<pods, file, server, nodes, setup, queue, up, job, missed, made>>

TouchMarkerFile ==
  /\ pc = "marker"
  /\ \E ok \in BOOLEAN :
       /\ Call(ok, Reachable(Uid, "sidecar"))
       /\ pc' = IF ok /\ job.workspace THEN "server" ELSE "final"
       /\ Spoil(~ok)
  /\ UNCHANGED <<pods, file, agent, server, nodes, setup, queue, up, job, missed, made>>

\* A main container that did not run when the event was made is left out.
SetupWorkspaceContainer ==
  /\ pc = "server" /\ pc' = "final"
  /\ IF IsContainerRunning(job.pod.workspace)
     THEN \E ok \in BOOLEAN :
            /\ Call(ok, Reachable(Uid, "workspace"))
            /\ server' = IF ok THEN [server EXCEPT ![Uid] = TRUE] ELSE server
            /\ Spoil(~ok)
     ELSE UNCHANGED <<server, spoiled, events>>
  /\ UNCHANGED <<pods, file, agent, nodes, setup, queue, up, job, missed, made>>

\* The setup is marked as complete, also when it failed.
MarkComplete ==
  /\ pc = "final" /\ Idle
  /\ \E ok \in BOOLEAN :
       /\ WriteRegistrationState(ok, FALSE)
       /\ Spoil(~ok)
  /\ UNCHANGED <<pods, agent, server, nodes, setup, queue, up, missed, made>>

DeregisterDeleted ==
  /\ pc = "deregister" /\ Idle
  /\ \E ok \in BOOLEAN :
       /\ Call(ok, TRUE)
       /\ IF ok THEN DeregisterNodeAgent ELSE UNCHANGED <<nodes, agent>>
       /\ missed' = IF ok THEN missed \ {Uid} ELSE missed \cup {Uid}
  /\ UNCHANGED <<pods, file, server, setup, queue, up, spoiled, made>>

-----------------------------------------------------------------------------
(* The operator stops: events are lost, a setup in work is left where it is. *)
Crash ==
  /\ up /\ Event("crash")
  /\ up' = FALSE /\ queue' = <<>> /\ Idle
  /\ spoiled' = IF pc = "idle" THEN spoiled ELSE spoiled \cup {Uid}
  /\ missed' = missed \cup {u \in 1..made : ~Exists(u) /\
                   ((pc # "idle" /\ u = Uid) \/ \E p \in Range(queue) : p.uid = u)}
  /\ UNCHANGED <<pods, file, agent, server, nodes, setup, made>>

\* The next one lists the pods that exist.
Restart ==
  /\ ~up /\ up' = TRUE
  /\ LET found == {pods[u] : u \in {v \in Uids : Exists(v)}}
     IN \E n \in 0..MaxPods : \E seq \in [1..n -> found] :
          IsInjective(seq) /\ Range(seq) = found /\ queue' = seq
  /\ UNCHANGED <<pods, file, agent, server, nodes, setup, pc, job, history, made, events>>

Init ==
  /\ pods = [u \in Uids |-> None] /\ file = [u \in Uids |-> None]
  /\ agent = [u \in Uids |-> FALSE] /\ server = [u \in Uids |-> FALSE]
  /\ nodes = [u \in Uids |-> 0]
  /\ workspace \in {"plain", "refers"} /\ strategy \in Handlers
  /\ queue = <<>> /\ up = TRUE /\ pc = "idle" /\ job = NoJob
  /\ spoiled = {} /\ missed = {} /\ made = 0 /\ events = 0

Kubelet ==
  \E u \in Uids :
    \/ \E c \in {"sidecar", "workspace"} : StartContainer(u, c) \/ ContainerDies(u, c)
    \/ DeletePod(u) \/ PodGone(u) \/ Resync(u) \/ CorruptFile(u)

Handle ==
  \/ HandleWorkspacePodEvents \/ DeregisterDeleted
  \/ ReadRegistrationState \/ MarkInProgress \/ CleanUp \/ RegisterNodeAgent
  \/ RunRegistrationScript \/ TouchMarkerFile \/ SetupWorkspaceContainer \/ MarkComplete

Next ==
  \/ CreatePod \/ Kubelet \/ EditWorkspace \/ EditStrategy
  \/ Handle \/ Crash \/ Restart

Spec == Init /\ [][Next]_vars

\* The handler goes on, and Kubernetes restarts what stopped.
FairSpec ==
  /\ Spec /\ WF_vars(Handle) /\ WF_vars(Restart)
  /\ \A u \in Uids : \A c \in {"sidecar", "workspace"} : WF_vars(StartContainer(u, c))

-----------------------------------------------------------------------------
\* Every piece of state has its type; an event is in work only while the operator runs,
\* and no state that it stores counts more restarts than there can have been.
TypeOK ==
  /\ \A u \in Uids : pods[u] # None => pods[u] \in Pod /\ pods[u].uid = u
  /\ file \in [Uids -> States \cup {None, Corrupted}]
  /\ agent \in [Uids -> BOOLEAN] /\ server \in [Uids -> BOOLEAN] /\ nodes \in [Uids -> Nat]
  /\ workspace \in {"absent", "plain", "refers"} /\ strategy \in Handlers \cup {None}
  /\ \A p \in Range(queue) : p \in Pod
  /\ up \in BOOLEAN /\ (pc # "idle" => up /\ job.pod \in Pod)
  /\ spoiled \subseteq Uids /\ missed \subseteq Uids /\ made \in 0..MaxPods

\* No event of the pod is in work or still to be delivered.
Quiet(u) == (pc # "idle" => Uid # u) /\ \A p \in Range(queue) : p.uid # u

\* A pod that is gone leaves no managed node, unless its last deregistration failed or
\* was left out: none is registered after it (HandlePodDeleted deregisters all of them).
\* The informer has shown the pod with its deletion timestamp before it is gone.
NoNodeLeft == \A u \in 1..made : ~Exists(u) /\ Quiet(u) /\ u \notin missed => nodes[u] = 0

\* A pod has at most one managed node, unless its setup was cut short by a failed call or
\* a stop of the operator: whatever restarts, the old one is deregistered before the next
\* is registered (setupSidecarContainer, ssm_pod_event_adapter.go).
OneNode == \A u \in Uids \ spoiled : nodes[u] <= 1

\* The state on the volume tells the truth: with the counts of the containers that run
\* and no setup in progress, these are set up, unless a call failed, the operator stopped
\* in the middle of an event or an event was ignored (HandlePodRunning).
StateTrue ==
  \A u \in Uids \ spoiled :
    Exists(u) /\ ~pods[u].deleting /\ file[u] \in States /\ ~file[u].inProgress =>
      /\ pods[u].sidecar.restarts = file[u].sidecar /\ Reachable(u, "sidecar") => agent[u]
      /\ pods[u].workspace.restarts = file[u].workspace /\ Reachable(u, "workspace")
           => server[u]

Ready(u) ==
  /\ Exists(u) /\ ~pods[u].deleting /\ up
  /\ Reachable(u, "sidecar") /\ Reachable(u, "workspace")
  /\ workspace = "refers" /\ Dispatched

\* Every restart is made good: a pod whose containers stay up is set up in the end,
\* whenever they restarted before, unless a call failed, the operator stopped in the middle
\* of an event or an event was ignored (HandlePodRunning).
SetUpInTheEnd ==
  \A u \in Uids : <>[](Ready(u) /\ u \notin spoiled) => <>[](agent[u] /\ server[u])
=============================================================================

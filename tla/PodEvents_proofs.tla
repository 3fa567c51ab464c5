-------------------------- MODULE PodEvents_proofs --------------------------
(***************************************************************************)
(* Proofs about PodEvents, for any number of pods, of events to deliver    *)
(* and of faults: managed nodes are neither left behind nor doubled, and   *)
(* the state on the volume of a pod tells the truth.                       *)
(*                                                                         *)
(* All of it rests on the order of the copies that the handler sees.  The  *)
(* event in work, the events to deliver and the pod itself are ever later  *)
(* copies of one pod, so what an old copy says is still true of the pod in *)
(* the direction that counts: containers only restart more often, and a    *)
(* pod that terminates never comes back.                                   *)
(***************************************************************************)
EXTENDS PodEvents, TLAPS

Parts == {"sidecar", "workspace"}
Setting == {"mark", "cleanup", "register", "script", "marker", "server", "final"}
Steps == Setting \cup {"idle", "read", "deregister"}
Jobs == [pod : Pod \cup {None}, sidecar : BOOLEAN, workspace : BOOLEAN, cleanup : BOOLEAN]

\* The states that a container can be in later, before it restarts.
StatesAfter(s) ==
  CASE s = "absent" -> {"absent"}
    [] s = "waiting" -> {"waiting", "running", "dead"}
    [] s = "running" -> {"running", "dead"}
    [] s = "dead" -> {"dead"}

\* d is the container c, or what became of it.
Later(c, d) ==
  \/ c.restarts < d.restarts /\ c.state # "absent" /\ d.state \notin {"absent", "waiting"}
  \/ c.restarts = d.restarts /\ d.state \in StatesAfter(c.state)

\* Of two copies of one pod, q is not the older one.
Follows(p, q) ==
  p.uid = q.uid =>
    /\ p.labelled = q.labelled /\ (p.deleting => q.deleting)
    /\ Later(p.sidecar, q.sidecar) /\ Later(p.workspace, q.workspace)

InSetup(u) == pc \in Setting /\ Uid = u
InWork(u) == pc # "idle" /\ Uid = u

\* The types, and what goes with them: nothing is in work or to be delivered while the
\* operator is down.
Shape ==
  /\ pods \in [Uids -> Pod \cup {None}] /\ \A u \in Uids : Exists(u) => pods[u].uid = u
  /\ file \in [Uids -> States \cup {None, Corrupted}]
  /\ agent \in [Uids -> BOOLEAN] /\ server \in [Uids -> BOOLEAN] /\ nodes \in [Uids -> Nat]
  /\ workspace \in {"absent", "plain", "refers"} /\ strategy \in Handlers \cup {None}
  /\ queue \in Seq(Pod) /\ up \in BOOLEAN
  /\ pc \in Steps /\ job \in Jobs /\ (pc # "idle" => job.pod \in Pod)
  /\ ~up => pc = "idle" /\ queue = <<>>
  /\ spoiled \subseteq Uids /\ missed \subseteq Uids
  /\ made \in 0..MaxPods /\ events \in 0..MaxEvents

\* Every restart of a container, also one to come, was paid for by an event.
Budget ==
  \A u \in Uids : Exists(u) /\ ~pods[u].deleting =>
    \A c \in Parts :
      pods[u][c].restarts + (IF pods[u][c].state = "dead" THEN 1 ELSE 0) <= events

\* Nothing is known of a pod before it is made.
Known ==
  /\ \A u \in Uids : u > made => ~Exists(u) /\ nodes[u] = 0
  /\ \A i \in 1..Len(queue) : queue[i].uid <= made
  /\ pc # "idle" => Uid <= made

\* The event in work, those to deliver and the pod itself are ever later copies.
InOrder ==
  /\ \A i, j \in 1..Len(queue) : i < j => Follows(queue[i], queue[j])
  /\ \A i \in 1..Len(queue) : Exists(queue[i].uid) => Follows(queue[i], pods[queue[i].uid])
  /\ pc # "idle" => \A i \in 1..Len(queue) : Follows(job.pod, queue[i])
  /\ pc # "idle" /\ Exists(Uid) => Follows(job.pod, pods[Uid])

\* A pod that is made for a Workspace without a strategy has no sidecar.
Plain(p) == ~p.labelled => p.sidecar.state = "absent"

PlainCopies ==
  /\ \A u \in Uids : Exists(u) => Plain(pods[u])
  /\ \A i \in 1..Len(queue) : Plain(queue[i])
  /\ pc # "idle" => Plain(job.pod)

\* What is in work fits the copy that it is for.
JobFits ==
  /\ pc = "deregister" => job.pod.deleting
  /\ pc \in Setting \cup {"read"} =>
       ~job.pod.deleting /\ IsContainerRunning(job.pod.sidecar) /\ PodRunning(job.pod)

\* Every copy of a pod with a node says by its labels who deregisters it.
NodesLabelled ==
  \A u \in Uids : nodes[u] # 0 =>
    /\ Exists(u) => pods[u].labelled
    /\ \A i \in 1..Len(queue) : queue[i].uid = u => queue[i].labelled
    /\ InWork(u) => job.pod.labelled

\* The end of a pod that is gone is settled, or still to be delivered, or in work.
Ending ==
  \A u \in 1..made : ~Exists(u) /\ u \notin missed =>
    \/ Quiet(u) /\ nodes[u] = 0
    \/ \E i \in 1..Len(queue) : queue[i].uid = u /\ queue[i].deleting
    \/ pc = "deregister" /\ Uid = u

\* A node is known by the file on the volume, except while a setup is at work, and no
\* setup comes to register one while there is another.
Single ==
  \A u \in Uids \ spoiled :
    /\ nodes[u] <= 1
    /\ Exists(u) /\ nodes[u] # 0 /\ ~InSetup(u) => file[u] # None
    /\ pc = "register" /\ Uid = u => nodes[u] = 0
    /\ pc = "mark" /\ Uid = u /\ job.sidecar /\ ~job.cleanup => nodes[u] = 0

\* Container c restarted n times, and started after it did.
Reached(n, c) == n <= c.restarts /\ (n = c.restarts => c.state # "waiting")

Covers(s, p) == Reached(s.sidecar, p.sidecar) /\ Reached(s.workspace, p.workspace)

\* A file counts no restart that one of the copies still to be seen lacks.
FilesOld ==
  \A u \in Uids :
    /\ ~Exists(u) => file[u] = None
    /\ file[u] \in States =>
         /\ Covers(file[u], pods[u])
         /\ \A i \in 1..Len(queue) : queue[i].uid = u => Covers(file[u], queue[i])
         /\ InWork(u) => Covers(file[u], job.pod)

\* Container c of pod p runs, with the count n.
Runs(p, c, n) == p[c].restarts = n /\ IsContainerRunning(p[c])

\* What the state s says of pod p is true of its agent a and its server b.
TrueOf(p, s, a, b) ==
  p # None /\ ~p.deleting /\ s \in States /\ ~s.inProgress =>
    /\ Runs(p, "sidecar", s.sidecar) => a
    /\ Runs(p, "workspace", s.workspace) => b

\* What setup j has done of pod p at step st, or found done, while the containers that it
\* is for still run; and what makes it undo a registration.
DoneOf(p, s, a, b, st, j) ==
  p # None /\ ~p.deleting =>
    /\ ~j.sidecar \/ st \in {"marker", "server", "final"} =>
         (Runs(p, "sidecar", j.pod.sidecar.restarts) => a)
    /\ ~j.workspace \/ st = "final" =>
         (Runs(p, "workspace", j.pod.workspace.restarts) => b)
    /\ s \in States /\ ~s.inProgress /\ j.sidecar => s.sidecar < j.pod.sidecar.restarts

Progress ==
  /\ pc = "cleanup" => job.sidecar
  /\ pc \in Setting /\ Uid \notin spoiled =>
       DoneOf(pods[Uid], file[Uid], agent[Uid], server[Uid], pc, job)

-----------------------------------------------------------------------------
(* Containers and pods *)

\* The fields of a pod and of its containers have their types.
LEMMA PodFields ==
  ASSUME NEW p \in Pod
  PROVE  /\ p.uid \in Uids /\ p.labelled \in BOOLEAN /\ p.deleting \in BOOLEAN
         /\ p.sidecar \in Containers /\ p.workspace \in Containers
BY Zenon DEF Pod

\* Restart counts are numbers.
LEMMA CountFields ==
  ASSUME NEW c \in Containers
  PROVE  c.restarts \in Nat /\ c.restarts \in Counts
         /\ c.state \in {"absent", "waiting", "running", "dead"}
BY PodAssumption DEF Containers, Counts

\* A container is its own latest copy.
LEMMA LaterSelf ==
  ASSUME NEW c \in Containers
  PROVE  Later(c, c)
BY Zenon, CountFields DEF Later, StatesAfter

\* What became of what became of a container became of it.
LEMMA LaterTrans ==
  ASSUME NEW c \in Containers, NEW d \in Containers, NEW e \in Containers,
         Later(c, d), Later(d, e)
  PROVE  Later(c, e)
BY CountFields DEF Later, StatesAfter

\* A restart that was seen stays seen.
LEMMA ReachedLater ==
  ASSUME NEW n \in Nat, NEW c \in Containers, NEW d \in Containers, Reached(n, c), Later(c, d)
  PROVE  Reached(n, d)
BY CountFields DEF Later, StatesAfter, Reached

\* A container that started has reached its own count.
LEMMA ReachedStarted ==
  ASSUME NEW c \in Containers, NEW d \in Containers, Later(c, d), c.state # "waiting"
  PROVE  Reached(c.restarts, d)
BY CountFields DEF Later, StatesAfter, Reached

\* A container that runs with the count of an earlier copy ran then.
LEMMA SameCount ==
  ASSUME NEW n \in Nat, NEW c \in Containers, NEW d \in Containers, Reached(n, c), Later(c, d),
         d.restarts = n, d.state = "running"
  PROVE  c.restarts = n /\ c.state = "running"
BY CountFields DEF Later, StatesAfter, Reached

\* A container that did not run does not run with the same count later.
LEMMA NotRunning ==
  ASSUME NEW c \in Containers, NEW d \in Containers, Later(c, d),
         c.state \notin {"waiting", "running"}, d.restarts = c.restarts
  PROVE  d.state # "running"
BY CountFields DEF Later, StatesAfter

\* A pod is its own latest copy.
LEMMA FollowsSelf ==
  ASSUME NEW p \in Pod
  PROVE  Follows(p, p)
BY Zenon, PodFields, LaterSelf DEF Follows

\* Copies are ordered.
LEMMA FollowsTrans ==
  ASSUME NEW p \in Pod, NEW q \in Pod, NEW r \in Pod, q.uid = r.uid, Follows(p, q), Follows(q, r)
  PROVE  Follows(p, r)
<1> SUFFICES ASSUME p.uid = r.uid
             PROVE  /\ p.labelled = r.labelled /\ (p.deleting => r.deleting)
                    /\ Later(p.sidecar, r.sidecar) /\ Later(p.workspace, r.workspace)
  BY Zenon DEF Follows
<1>1. p.labelled = r.labelled /\ (p.deleting => r.deleting)
  BY Zenon DEF Follows
<1>2. Later(p.sidecar, r.sidecar) /\ Later(p.workspace, r.workspace)
  BY Zenon, PodFields, LaterTrans DEF Follows
<1> QED
  BY Zenon, <1>1, <1>2

\* A later copy has a sidecar only when the earlier one has.
LEMMA PlainFollows ==
  ASSUME NEW p \in Pod, NEW q \in Pod, p.uid = q.uid, Follows(p, q), Plain(p)
  PROVE  Plain(q)
BY Zenon, PodFields, CountFields DEF Follows, Plain, Later, StatesAfter

\* What a file covers of a pod it covers of its later copies.
LEMMA CoversFollows ==
  ASSUME NEW s \in States, NEW p \in Pod, NEW q \in Pod, p.uid = q.uid, Follows(p, q),
         Covers(s, p)
  PROVE  Covers(s, q)
<1>1. s.sidecar \in Nat /\ s.workspace \in Nat
  BY PodAssumption DEF States, Counts
<1> QED
  BY Zenon, <1>1, PodFields, ReachedLater DEF Follows, Covers

-----------------------------------------------------------------------------
(* What happens to a pod that exists *)

\* A change of pod u to p: the informer has both copies to deliver, and what ran in a
\* container that does not die goes on.
PodStep(u, p) ==
  /\ Exists(u) /\ p \in Pod /\ p.uid = u /\ Follows(pods[u], p)
  /\ pods' = [pods EXCEPT ![u] = p]
  /\ queue' = queue \/ (up /\ queue' = queue \o <<pods[u], p>>)
  /\ agent' = agent \/ (~IsContainerRunning(p.sidecar) /\ agent' = [agent EXCEPT ![u] = FALSE])
  /\ server' = server \/ (~IsContainerRunning(p.workspace) /\ server' = [server EXCEPT ![u] = FALSE])
  /\ UNCHANGED <<file, nodes, setup, up, pc, job, history, made>>

\* A container that starts for the first time, restarts or dies makes a later copy.
LEMMA ContainerChange ==
  ASSUME NEW p \in Pod, NEW c \in Parts, NEW d \in Containers, Later(p[c], d)
  PROVE  LET q == [p EXCEPT ![c] = d]
         IN q \in Pod /\ q.uid = p.uid /\ Follows(p, q) /\ q[c] = d
            /\ q.deleting = p.deleting /\ \A e \in Parts \ {c} : q[e] = p[e]
<1>1. CASE c = "sidecar"
  <2>1. [p EXCEPT !.sidecar = d] \in Pod
    BY Zenon DEF Pod
  <2>2. Follows(p, [p EXCEPT !.sidecar = d])
    BY Zenon, <1>1, PodFields, LaterSelf DEF Follows, Pod
  <2> QED
    BY Zenon, <1>1, <2>1, <2>2 DEF Pod, Parts
<1>2. CASE c = "workspace"
  <2>1. [p EXCEPT !.workspace = d] \in Pod
    BY Zenon DEF Pod
  <2>2. Follows(p, [p EXCEPT !.workspace = d])
    BY Zenon, <1>2, PodFields, LaterSelf DEF Follows, Pod
  <2> QED
    BY Zenon, <1>2, <2>1, <2>2 DEF Pod, Parts
<1> QED
  BY Zenon, <1>1, <1>2 DEF Parts

\* The first start of a container.
LEMMA FirstStart ==
  ASSUME NEW p \in Pod, NEW c \in Parts, p[c].state = "waiting"
  PROVE  LET q == [p EXCEPT ![c].state = "running"]
         IN /\ q \in Pod /\ q.uid = p.uid /\ Follows(p, q)
            /\ q.deleting = p.deleting /\ \A e \in Parts \ {c} : q[e] = p[e]
            /\ q[c] = [state |-> "running", restarts |-> p[c].restarts]
<1>1. p[c] \in Containers
  BY Zenon, PodFields DEF Parts
<1> DEFINE d == [state |-> "running", restarts |-> p[c].restarts]
<1>2. d \in Containers /\ Later(p[c], d)
  BY Zenon, <1>1, CountFields DEF Later, StatesAfter, Containers
<1>3. [p[c] EXCEPT !.state = "running"] = d
  BY <1>1 DEF Containers
<1>4. [p EXCEPT ![c].state = "running"] = [p EXCEPT ![c] = d]
  BY Zenon, <1>3
<1> QED
  BY <1>2, <1>4, ContainerChange

\* A restart counts.
LEMMA NextStart ==
  ASSUME NEW p \in Pod, NEW c \in Parts, p[c].state = "dead", p[c].restarts + 1 <= MaxEvents
  PROVE  LET q == [p EXCEPT ![c] = [state |-> "running", restarts |-> @.restarts + 1]]
         IN /\ q \in Pod /\ q.uid = p.uid /\ Follows(p, q)
            /\ q.deleting = p.deleting /\ \A e \in Parts \ {c} : q[e] = p[e]
            /\ q[c] = [state |-> "running", restarts |-> p[c].restarts + 1]
<1>1. p[c] \in Containers
  BY Zenon, PodFields DEF Parts
<1> DEFINE d == [state |-> "running", restarts |-> p[c].restarts + 1]
<1>2. d.restarts \in Counts
  BY <1>1, CountFields, PodAssumption DEF Counts
<1>3. d \in Containers
  BY Zenon, <1>2 DEF Containers
<1>4. Later(p[c], d)
  BY <1>1, CountFields DEF Later
<1>5. [p EXCEPT ![c] = [state |-> "running", restarts |-> @.restarts + 1]] = [p EXCEPT ![c] = d]
  BY Zenon, <1>1 DEF Pod, Parts
<1> QED
  BY <1>3, <1>4, <1>5, ContainerChange

\* A death does not count.
LEMMA Death ==
  ASSUME NEW p \in Pod, NEW c \in Parts, p[c].state = "running"
  PROVE  LET q == [p EXCEPT ![c].state = "dead"]
         IN /\ q \in Pod /\ q.uid = p.uid /\ Follows(p, q)
            /\ q.deleting = p.deleting /\ \A e \in Parts \ {c} : q[e] = p[e]
            /\ q[c] = [state |-> "dead", restarts |-> p[c].restarts]
<1>1. p[c] \in Containers
  BY Zenon, PodFields DEF Parts
<1> DEFINE d == [state |-> "dead", restarts |-> p[c].restarts]
<1>2. d \in Containers /\ Later(p[c], d)
  BY Zenon, <1>1, CountFields DEF Later, StatesAfter, Containers
<1>3. [p[c] EXCEPT !.state = "dead"] = d
  BY <1>1 DEF Containers
<1>4. [p EXCEPT ![c].state = "dead"] = [p EXCEPT ![c] = d]
  BY Zenon, <1>3
<1> QED
  BY <1>2, <1>4, ContainerChange

\* The deletionTimestamp is set once.
LEMMA Deletion ==
  ASSUME NEW p \in Pod
  PROVE  LET q == [p EXCEPT !.deleting = TRUE]
         IN q \in Pod /\ q.uid = p.uid /\ Follows(p, q) /\ q.deleting
<1>1. [p EXCEPT !.deleting = TRUE] \in Pod
  BY Zenon DEF Pod
<1>2. Follows(p, [p EXCEPT !.deleting = TRUE])
  BY Zenon, PodFields, LaterSelf DEF Follows, Pod
<1> QED
  BY Zenon, <1>1, <1>2 DEF Pod

\* A pod that exists is a pod.
LEMMA ExistingPod ==
  ASSUME Shape, NEW u \in Uids, Exists(u)
  PROVE  pods[u] \in Pod /\ pods[u].uid = u
BY Zenon DEF Shape, Exists

\* Setting a pod is a step of the pod.
LEMMA SettingPod ==
  ASSUME Shape, NEW u \in Uids, Exists(u), NEW p \in Pod, p.uid = u, Follows(pods[u], p),
         SetPod(u, p)
  PROVE  /\ pods' = [pods EXCEPT ![u] = p]
         /\ queue' = queue \/ (up /\ queue' = queue \o <<pods[u], p>>)
BY Zenon DEF SetPod, Notify

\* Starting a container is a step of the pod, within the budget of restarts.
LEMMA StartStep ==
  ASSUME Shape, Budget, NEW u \in Uids, NEW c \in Parts, StartContainer(u, c)
  PROVE  \E p \in Pod :
           /\ PodStep(u, p) /\ ~p.deleting /\ events' = events
           /\ \A e \in Parts \ {c} : p[e] = pods[u][e]
           /\ p[c].state = "running" /\ p[c].restarts <= events
<1>1. Exists(u) /\ ~pods[u].deleting /\ pods[u] \in Pod /\ pods[u].uid = u
  BY Zenon, ExistingPod DEF StartContainer
<1>2. UNCHANGED <<file, agent, server, nodes, setup, up, pc, job, history, made, events>>
  BY Zenon DEF StartContainer
<1>3. events \in Nat /\ events <= MaxEvents
  BY PodAssumption DEF Shape
<1>4. pods[u][c] \in Containers /\ pods[u][c].restarts \in Nat
  BY Zenon, <1>1, PodFields, CountFields DEF Parts
<1>5. pods[u][c].restarts + (IF pods[u][c].state = "dead" THEN 1 ELSE 0) <= events
  BY Zenon, <1>1 DEF Budget
<1>6. CASE pods[u][c].state = "waiting" /\ SetPod(u, [pods[u] EXCEPT ![c].state = "running"])
  <2> DEFINE p == [pods[u] EXCEPT ![c].state = "running"]
  <2>1. /\ p \in Pod /\ p.uid = pods[u].uid /\ Follows(pods[u], p)
        /\ p.deleting = pods[u].deleting /\ \A e \in Parts \ {c} : p[e] = pods[u][e]
        /\ p[c] = [state |-> "running", restarts |-> pods[u][c].restarts]
    BY Zenon, <1>1, <1>6, FirstStart
  <2> HIDE DEF p
  <2>2. SetPod(u, p)
    BY Zenon, <1>6 DEF p
  <2>3. PodStep(u, p)
    BY Zenon, <1>1, <1>2, <2>1, <2>2, SettingPod DEF PodStep
  <2>4. p[c].state = "running" /\ p[c].restarts <= events
    BY <1>3, <1>4, <1>5, <1>6, <2>1
  <2> QED
    BY Zenon, <1>1, <1>2, <2>1, <2>3, <2>4
<1>7. CASE /\ pods[u][c].state = "dead"
           /\ SetPod(u, [pods[u] EXCEPT ![c] = [state |-> "running", restarts |-> @.restarts + 1]])
  <2> DEFINE p == [pods[u] EXCEPT ![c] = [state |-> "running", restarts |-> @.restarts + 1]]
  <2>0. pods[u][c].restarts + 1 <= events /\ pods[u][c].restarts + 1 <= MaxEvents
    BY <1>3, <1>4, <1>5, <1>7, PodAssumption
  <2>1. /\ p \in Pod /\ p.uid = pods[u].uid /\ Follows(pods[u], p)
        /\ p.deleting = pods[u].deleting /\ \A e \in Parts \ {c} : p[e] = pods[u][e]
        /\ p[c] = [state |-> "running", restarts |-> pods[u][c].restarts + 1]
    BY Zenon, <1>1, <1>7, <2>0, NextStart
  <2> HIDE DEF p
  <2>2. SetPod(u, p)
    BY Zenon, <1>7 DEF p
  <2>3. PodStep(u, p)
    BY Zenon, <1>1, <1>2, <2>1, <2>2, SettingPod DEF PodStep
  <2>4. p[c].state = "running" /\ p[c].restarts <= events
    BY <2>0, <2>1
  <2> QED
    BY Zenon, <1>1, <1>2, <2>1, <2>3, <2>4
<1> QED
  BY Zenon, <1>6, <1>7 DEF StartContainer

\* The death of a container is a step of the pod, and what ran in it ends.
LEMMA DeathStep ==
  ASSUME Shape, NEW u \in Uids, NEW c \in Parts, ContainerDies(u, c)
  PROVE  \E p \in Pod :
           /\ PodStep(u, p) /\ p.deleting = pods[u].deleting
           /\ \A e \in Parts \ {c} : p[e] = pods[u][e]
           /\ p[c].state = "dead" /\ p[c].restarts = pods[u][c].restarts
           /\ pods[u][c].state = "running"
           /\ IF p.deleting THEN UNCHANGED events ELSE Event("container")
<1>1. Exists(u) /\ pods[u] \in Pod /\ pods[u].uid = u /\ pods[u][c].state = "running"
  BY Zenon, ExistingPod DEF ContainerDies, Reachable, IsContainerRunning
<1> DEFINE p == [pods[u] EXCEPT ![c].state = "dead"]
<1>2. /\ p \in Pod /\ p.uid = pods[u].uid /\ Follows(pods[u], p)
      /\ p.deleting = pods[u].deleting /\ \A e \in Parts \ {c} : p[e] = pods[u][e]
      /\ p[c] = [state |-> "dead", restarts |-> pods[u][c].restarts]
  BY Zenon, <1>1, Death
<1>3. SetPod(u, p) /\ (IF pods[u].deleting THEN UNCHANGED events ELSE Event("container"))
  BY Zenon DEF ContainerDies
<1> HIDE DEF p
<1>4. agent' = agent \/ (~IsContainerRunning(p.sidecar) /\ agent' = [agent EXCEPT ![u] = FALSE])
  <2>1. CASE c = "sidecar"
    BY <1>2, <2>1 DEF ContainerDies, IsContainerRunning
  <2>2. CASE c = "workspace"
    BY Zenon, <2>2 DEF ContainerDies
  <2> QED
    BY Zenon, <2>1, <2>2 DEF Parts
<1>5. server' = server \/ (~IsContainerRunning(p.workspace) /\ server' = [server EXCEPT ![u] = FALSE])
  <2>1. CASE c = "workspace"
    BY <1>2, <2>1 DEF ContainerDies, IsContainerRunning
  <2>2. CASE c = "sidecar"
    BY Zenon, <2>2 DEF ContainerDies
  <2> QED
    BY Zenon, <2>1, <2>2 DEF Parts
<1>6. PodStep(u, p)
  <2>1. UNCHANGED <<file, nodes, setup, up, pc, job, history, made>>
    BY Zenon DEF ContainerDies
  <2> QED
    BY Zenon, <1>1, <1>2, <1>3, <1>4, <1>5, <2>1, SettingPod DEF PodStep
<1> QED
  BY <1>1, <1>2, <1>3, <1>6

\* So is the deletion.
LEMMA DeletionStep ==
  ASSUME Shape, NEW u \in Uids, DeletePod(u)
  PROVE  \E p \in Pod : PodStep(u, p) /\ p.deleting /\ events' = events
<1>1. Exists(u) /\ pods[u] \in Pod /\ pods[u].uid = u
  BY Zenon, ExistingPod DEF DeletePod
<1> DEFINE p == [pods[u] EXCEPT !.deleting = TRUE]
<1>2. p \in Pod /\ p.uid = pods[u].uid /\ Follows(pods[u], p) /\ p.deleting
  BY Zenon, <1>1, Deletion
<1>3. SetPod(u, p) /\ UNCHANGED <<file, agent, server, nodes, setup, up, pc, job, history, made, events>>
  BY Zenon DEF DeletePod
<1> HIDE DEF p
<1>4. PodStep(u, p)
  BY Zenon, <1>1, <1>2, <1>3, SettingPod DEF PodStep
<1> QED
  BY Zenon, <1>2, <1>3, <1>4

\* And a resync, which changes nothing of the pod.
LEMMA ResyncStep ==
  ASSUME Shape, NEW u \in Uids, Resync(u)
  PROVE  PodStep(u, pods[u]) /\ Event("resync")
<1>1. Exists(u) /\ pods[u] \in Pod /\ pods[u].uid = u /\ Follows(pods[u], pods[u])
  BY Zenon, ExistingPod, FollowsSelf DEF Resync
<1>2. pods' = [pods EXCEPT ![u] = pods[u]]
  BY Zenon DEF Resync, Shape
<1>3. queue' = queue \o <<pods[u], pods[u]>> /\ up
  BY Zenon DEF Resync, Notify
<1> QED
  BY Zenon, <1>1, <1>2, <1>3 DEF Resync, PodStep

-----------------------------------------------------------------------------
(* Types *)

\* Uids and counts are numbers.
LEMMA Numbers == Uids \subseteq Nat /\ MaxPods \in Nat /\ MaxEvents \in Nat /\ 0 \in Counts
BY PodAssumption DEF Uids, Counts

\* A new pod is a pod; without a strategy it has no sidecar.
LEMMA NewPodType ==
  ASSUME NEW u \in Uids
  PROVE  /\ NewPod(u) \in Pod /\ NewPod(u).uid = u /\ Plain(NewPod(u)) /\ ~NewPod(u).deleting
         /\ \A c \in Parts : NewPod(u)[c].restarts = 0 /\ NewPod(u)[c].state # "dead"
<1>1. [state |-> "waiting", restarts |-> 0] \in Containers
      /\ [[state |-> "waiting", restarts |-> 0] EXCEPT !.state = "absent"]
           = [state |-> "absent", restarts |-> 0]
      /\ [state |-> "absent", restarts |-> 0] \in Containers
  BY Numbers DEF Containers
<1> DEFINE w == [state |-> "waiting", restarts |-> 0]
<1>2. CASE workspace = "refers"
  <2>1. NewPod(u) = [uid |-> u, labelled |-> TRUE, deleting |-> FALSE, sidecar |-> w, workspace |-> w]
    BY Zenon, <1>2 DEF NewPod
  <2> QED
    BY <1>1, <2>1 DEF Pod, Plain, Parts
<1>3. CASE workspace # "refers"
  BY <1>1, <1>3 DEF NewPod, Pod, Plain, Parts
<1> QED
  BY Zenon, <1>2, <1>3

\* An event stays within the budget.
LEMMA EventGrows ==
  ASSUME Shape, NEW kind, Event(kind)
  PROVE  events' = events + 1 /\ events' \in 0..MaxEvents
BY Numbers DEF Shape, Event

\* So does a call.
LEMMA CallGrows ==
  ASSUME Shape, NEW ok \in BOOLEAN, NEW possible \in BOOLEAN, Call(ok, possible)
  PROVE  events' \in 0..MaxEvents /\ events' >= events /\ (ok => possible)
<1>1. events \in 0..MaxEvents
  BY Zenon DEF Shape
<1>2. CASE possible /\ ~ok
  BY <1>1, <1>2, EventGrows, Numbers DEF Call
<1>3. CASE ~(possible /\ ~ok)
  BY <1>1, <1>3, Numbers DEF Call
<1> QED
  BY Zenon, <1>2, <1>3 DEF Call

\* Two copies more to deliver.
LEMMA Appending ==
  ASSUME queue \in Seq(Pod), NEW a \in Pod, NEW b \in Pod, queue' = queue \o <<a, b>>
  PROVE  /\ queue' \in Seq(Pod) /\ Len(queue) \in Nat /\ Len(queue') = Len(queue) + 2
         /\ \A i \in 1..Len(queue) : queue'[i] = queue[i]
         /\ queue'[Len(queue) + 1] = a /\ queue'[Len(queue) + 2] = b
OBVIOUS

\* One copy more to deliver.
LEMMA AppendingOne ==
  ASSUME queue \in Seq(Pod), NEW a \in Pod, queue' = queue \o <<a>>
  PROVE  /\ queue' \in Seq(Pod) /\ Len(queue) \in Nat /\ Len(queue') = Len(queue) + 1
         /\ \A i \in 1..Len(queue) : queue'[i] = queue[i]
         /\ queue'[Len(queue) + 1] = a
OBVIOUS

\* One copy less.
LEMMA Taking ==
  ASSUME queue \in Seq(Pod), queue # <<>>, queue' = Tail(queue)
  PROVE  /\ Head(queue) \in Pod /\ Head(queue) = queue[1] /\ 1 \in 1..Len(queue)
         /\ queue' \in Seq(Pod) /\ Len(queue) \in Nat /\ Len(queue') = Len(queue) - 1
         /\ \A i \in 1..Len(queue') : queue'[i] = queue[i + 1] /\ i + 1 \in 1..Len(queue)
         /\ \A i \in 2..Len(queue) : i - 1 \in 1..Len(queue') /\ queue'[i - 1] = queue[i]
OBVIOUS

\* What the operator finds when it starts: the pods that exist, in any order.
LEMMA Listing ==
  ASSUME Shape, Restart
  PROVE  /\ queue' \in Seq(Pod)
         /\ \A i \in 1..Len(queue') :
              \E u \in Uids : Exists(u) /\ queue'[i] = pods[u] /\ queue'[i].uid = u
<1> DEFINE S == {pods[u] : u \in {v \in Uids : Exists(v)}}
<1>1. PICK n \in 0..MaxPods : queue' \in [1..n -> S]
  BY Zenon DEF Restart
<1>2. S \subseteq Pod /\ \A p \in S : \E u \in Uids : Exists(u) /\ p = pods[u] /\ p.uid = u
  BY Zenon, ExistingPod
<1> HIDE DEF S
<1>3. queue' \in Seq(Pod) /\ Len(queue') = n
  BY <1>1, <1>2, Numbers
<1> QED
  BY Zenon, <1>1, <1>2, <1>3

\* A step of the setup or the deregistration in work.
JobStep ==
  /\ pc # "idle" /\ UNCHANGED <<pods, queue, up, made, setup>>
  /\ \/ pc' = "idle" /\ job' = NoJob
     \/ /\ pc' \in Setting /\ pc \in Setting \cup {"read"}
        /\ job' \in Jobs /\ job'.pod = job.pod

\* What a setup needs is worked out as a job for the same copy.
LEMMA NeedSetupType ==
  ASSUME NEW state \in States \cup {None, Corrupted}, NEW p \in Pod
  PROVE  NeedSetup(state, p) \in Jobs /\ NeedSetup(state, p).pod = p
<1>1. CASE state \in {None, Corrupted}
  BY Zenon, <1>1 DEF NeedSetup, Jobs
<1>2. CASE state \notin {None, Corrupted}
  BY <1>2 DEF NeedSetup, Jobs
<1> QED
  BY Zenon, <1>1, <1>2

\* The event in work is for one of the pods.
LEMMA JobTypes ==
  ASSUME Shape, pc # "idle"
  PROVE  /\ job.pod \in Pod /\ Uid \in Uids /\ up
         /\ \A c \in Parts : Reachable(Uid, c) \in BOOLEAN
         /\ file[Uid] \in States \cup {None, Corrupted}
         /\ \A b \in BOOLEAN : RegistrationState(b) \in States
<1>1. job.pod \in Pod /\ Uid \in Uids /\ up
  BY Zenon, PodFields DEF Shape, Uid
<1>2. \A b \in BOOLEAN : RegistrationState(b) \in States
  BY Zenon, <1>1, PodFields, CountFields DEF RegistrationState, States
<1> QED
  BY Zenon, <1>1, <1>2 DEF Shape, Reachable, Exists, IsContainerRunning

\* What a step leaves of files, agents, servers, nodes and the history has its type.
Effects ==
  /\ file' \in [Uids -> States \cup {None, Corrupted}]
  /\ agent' \in [Uids -> BOOLEAN] /\ server' \in [Uids -> BOOLEAN] /\ nodes' \in [Uids -> Nat]
  /\ spoiled' \subseteq Uids /\ missed' \subseteq Uids /\ events' \in 0..MaxEvents

\* A step of the job keeps the types when its effects do.
LEMMA JobShape ==
  ASSUME Shape, JobStep, Effects
  PROVE  Shape'
<1>1. /\ pods' \in [Uids -> Pod \cup {None}] /\ \A u \in Uids : Exists(u)' => pods'[u].uid = u
      /\ workspace' \in {"absent", "plain", "refers"} /\ strategy' \in Handlers \cup {None}
      /\ queue' \in Seq(Pod) /\ up' \in BOOLEAN /\ made' \in 0..MaxPods
  BY Zenon DEF Shape, JobStep, Exists, setup
<1>2. up /\ job.pod \in Pod /\ UNCHANGED up
  BY Zenon DEF Shape, JobStep
<1>3. pc' \in Steps /\ job' \in Jobs /\ (pc' # "idle" => job'.pod \in Pod)
  <2>1. NoJob \in Jobs
    BY Zenon DEF NoJob, Jobs
  <2>2. CASE pc' = "idle" /\ job' = NoJob
    BY Zenon, <2>1, <2>2 DEF Steps
  <2>3. CASE pc' \in Setting /\ job' \in Jobs /\ job'.pod = job.pod
    BY Zenon, <1>2, <2>3 DEF Steps
  <2> QED
    BY Zenon, <2>2, <2>3 DEF JobStep
<1> QED
  BY Zenon, <1>1, <1>2, <1>3 DEF Effects, Shape

\* The read, the steps of the setup and the deregistration of a job.
JobActions ==
  \/ ReadRegistrationState \/ MarkInProgress \/ CleanUp \/ RegisterNodeAgent
  \/ RunRegistrationScript \/ TouchMarkerFile \/ SetupWorkspaceContainer \/ MarkComplete
  \/ DeregisterDeleted

\* Each of them is a step of the job.
LEMMA JobSteps ==
  ASSUME Shape, JobActions
  PROVE  JobStep
<1>1. CASE ReadRegistrationState
  <2>1. pc # "idle" /\ UNCHANGED <<pods, queue, up, made, setup>>
    BY Zenon, <1>1 DEF ReadRegistrationState
  <2>2. PICK ok \in BOOLEAN :
          LET state == IF ok THEN file[Uid] ELSE None
              need == NeedSetup(state, job.pod)
          IN IF ~SetupInProgress(state) /\ (need.sidecar \/ need.workspace)
             THEN pc' = "mark" /\ job' = need
             ELSE Idle
    BY Zenon, <1>1 DEF ReadRegistrationState
  <2> DEFINE state == IF ok THEN file[Uid] ELSE None
  <2>3. state \in States \cup {None, Corrupted} /\ job.pod \in Pod
    BY Zenon, <2>1, JobTypes
  <2>4. NeedSetup(state, job.pod) \in Jobs /\ NeedSetup(state, job.pod).pod = job.pod
    BY Zenon, <2>3, NeedSetupType
  <2> HIDE DEF state
  <2>5. (pc' = "mark" /\ job' = NeedSetup(state, job.pod)) \/ Idle
    BY Zenon, <2>2 DEF state
  <2>6. pc = "read"
    BY Zenon, <1>1 DEF ReadRegistrationState
  <2> QED
    BY Zenon, <2>1, <2>4, <2>5, <2>6 DEF JobStep, Idle, Setting
<1>2. CASE MarkInProgress
  BY Zenon, <1>2 DEF MarkInProgress, JobStep, Setting, Shape
<1>3. CASE CleanUp
  BY Zenon, <1>3 DEF CleanUp, JobStep, Setting, Shape
<1>4. CASE RegisterNodeAgent
  BY Zenon, <1>4 DEF RegisterNodeAgent, JobStep, Setting, Shape
<1>5. CASE RunRegistrationScript
  BY Zenon, <1>5 DEF RunRegistrationScript, JobStep, Setting, Shape
<1>6. CASE TouchMarkerFile
  BY Zenon, <1>6 DEF TouchMarkerFile, JobStep, Setting, Shape
<1>7. CASE SetupWorkspaceContainer
  BY Zenon, <1>7 DEF SetupWorkspaceContainer, JobStep, Setting, Shape
<1>8. CASE MarkComplete
  BY Zenon, <1>8 DEF MarkComplete, JobStep, Idle
<1>9. CASE DeregisterDeleted
  BY Zenon, <1>9 DEF DeregisterDeleted, JobStep, Idle
<1> QED
  BY Zenon, <1>1, <1>2, <1>3, <1>4, <1>5, <1>6, <1>7, <1>8, <1>9 DEF JobActions

\* A write of the state leaves files.
LEMMA WriteType ==
  ASSUME Shape, pc # "idle", NEW ok \in BOOLEAN, NEW b \in BOOLEAN, WriteRegistrationState(ok, b)
  PROVE  /\ file' \in [Uids -> States \cup {None, Corrupted}] /\ events' \in 0..MaxEvents
         /\ ok => Reachable(Uid, "sidecar") /\ file' = [file EXCEPT ![Uid] = RegistrationState(b)]
         /\ ~ok => file' = file
<1>1. Reachable(Uid, "sidecar") \in BOOLEAN /\ RegistrationState(b) \in States
  BY Zenon, JobTypes DEF Parts
<1>2. events' \in 0..MaxEvents /\ (ok => Reachable(Uid, "sidecar"))
  BY Zenon, <1>1, CallGrows DEF WriteRegistrationState
<1>3. file \in [Uids -> States \cup {None, Corrupted}]
  BY Zenon DEF Shape
<1> QED
  BY Zenon, <1>1, <1>2, <1>3 DEF WriteRegistrationState

\* A pod is noted in the history.
LEMMA SpoilType ==
  ASSUME Shape, pc # "idle", NEW cond \in BOOLEAN, Spoil(cond)
  PROVE  spoiled' \subseteq Uids /\ spoiled \subseteq spoiled' /\ (cond => Uid \in spoiled')
         /\ (~cond => spoiled' = spoiled) /\ spoiled' \subseteq spoiled \cup {Uid}
BY Zenon, JobTypes DEF Shape, Spoil

\* A step of the job keeps the types.
LEMMA JobEffects ==
  ASSUME Shape, JobActions
  PROVE  Effects /\ events' >= events /\ spoiled \subseteq spoiled'
<1>0. pc # "idle"
  BY Zenon, JobSteps DEF JobStep
<1> USE DEF Parts
<1>a. /\ file \in [Uids -> States \cup {None, Corrupted}]
      /\ agent \in [Uids -> BOOLEAN] /\ server \in [Uids -> BOOLEAN] /\ nodes \in [Uids -> Nat]
      /\ spoiled \subseteq Uids /\ missed \subseteq Uids /\ events \in 0..MaxEvents
      /\ events >= events
  BY Numbers DEF Shape
<1>b. Uid \in Uids /\ Reachable(Uid, "sidecar") \in BOOLEAN /\ Reachable(Uid, "workspace") \in BOOLEAN
  BY Zenon, <1>0, JobTypes
<1>1. CASE ReadRegistrationState
  <2>1. PICK ok \in BOOLEAN : /\ Call(ok, Reachable(Uid, "sidecar"))
                              /\ Spoil(~ok /\ (Exists(Uid) => file[Uid] # None))
    BY Zenon, <1>1 DEF ReadRegistrationState
  <2>2. events' \in 0..MaxEvents /\ events' >= events
    BY Zenon, <1>b, <2>1, CallGrows
  <2>3. spoiled' \subseteq Uids /\ spoiled \subseteq spoiled'
    BY Zenon, <1>0, <2>1, SpoilType
  <2> QED
    BY Zenon, <1>1, <1>a, <2>2, <2>3 DEF ReadRegistrationState, Effects
<1>2. CASE MarkInProgress
  <2>1. PICK ok \in BOOLEAN : WriteRegistrationState(ok, TRUE)
    BY Zenon, <1>2 DEF MarkInProgress
  <2>2. events' >= events
    BY Zenon, <1>b, <2>1, CallGrows DEF WriteRegistrationState
  <2> QED
    BY Zenon, <1>0, <1>2, <1>a, <2>1, <2>2, WriteType DEF MarkInProgress, Effects, history
<1>3. CASE CleanUp
  <2>1. PICK ok \in BOOLEAN : /\ Call(ok, TRUE) /\ Spoil(~ok)
                              /\ IF ok THEN DeregisterNodeAgent ELSE UNCHANGED <<nodes, agent>>
    BY Zenon, <1>3 DEF CleanUp
  <2>2. events' \in 0..MaxEvents /\ events' >= events
    BY Zenon, <2>1, CallGrows
  <2>3. spoiled' \subseteq Uids /\ spoiled \subseteq spoiled'
    BY Zenon, <1>0, <2>1, SpoilType
  <2>4. nodes' \in [Uids -> Nat] /\ agent' \in [Uids -> BOOLEAN]
    <3>1. CASE ok
      <4>1. nodes' = [nodes EXCEPT ![Uid] = 0] /\ agent' = [agent EXCEPT ![Uid] = FALSE]
        BY Zenon, <2>1, <3>1 DEF DeregisterNodeAgent
      <4> QED
        BY Zenon, <1>a, <4>1
    <3>2. CASE ~ok
      BY Zenon, <1>a, <2>1, <3>2
    <3> QED
      BY Zenon, <3>1, <3>2
  <2> QED
    BY Zenon, <1>3, <1>a, <2>2, <2>3, <2>4 DEF CleanUp, Effects
<1>4. CASE RegisterNodeAgent
  <2>1. PICK ok \in BOOLEAN : /\ Call(ok, TRUE) /\ Spoil(~ok)
                              /\ nodes' = IF ok THEN [nodes EXCEPT ![Uid] = @ + 1] ELSE nodes
    BY Zenon, <1>4 DEF RegisterNodeAgent
  <2>2. events' \in 0..MaxEvents /\ events' >= events
    BY Zenon, <2>1, CallGrows
  <2>3. spoiled' \subseteq Uids /\ spoiled \subseteq spoiled'
    BY Zenon, <1>0, <2>1, SpoilType
  <2>4. nodes' \in [Uids -> Nat]
    BY <1>a, <1>b, <2>1
  <2> QED
    BY Zenon, <1>4, <1>a, <2>2, <2>3, <2>4 DEF RegisterNodeAgent, Effects
<1>5. CASE RunRegistrationScript
  <2>1. PICK ok \in BOOLEAN : /\ Call(ok, Reachable(Uid, "sidecar")) /\ Spoil(~ok)
                              /\ agent' = IF ok THEN [agent EXCEPT ![Uid] = TRUE] ELSE agent
    BY Zenon, <1>5 DEF RunRegistrationScript
  <2>2. events' \in 0..MaxEvents /\ events' >= events
    BY Zenon, <1>b, <2>1, CallGrows
  <2>3. spoiled' \subseteq Uids /\ spoiled \subseteq spoiled'
    BY Zenon, <1>0, <2>1, SpoilType
  <2>4. agent' \in [Uids -> BOOLEAN]
    BY Zenon, <1>a, <2>1
  <2> QED
    BY Zenon, <1>5, <1>a, <2>2, <2>3, <2>4 DEF RunRegistrationScript, Effects
<1>6. CASE TouchMarkerFile
  <2>1. PICK ok \in BOOLEAN : Call(ok, Reachable(Uid, "sidecar")) /\ Spoil(~ok)
    BY Zenon, <1>6 DEF TouchMarkerFile
  <2>2. events' \in 0..MaxEvents /\ events' >= events
    BY Zenon, <1>b, <2>1, CallGrows
  <2>3. spoiled' \subseteq Uids /\ spoiled \subseteq spoiled'
    BY Zenon, <1>0, <2>1, SpoilType
  <2> QED
    BY Zenon, <1>6, <1>a, <2>2, <2>3 DEF TouchMarkerFile, Effects
<1>7. CASE SetupWorkspaceContainer
  <2>1. UNCHANGED <<file, agent, nodes, missed>>
    BY Zenon, <1>7 DEF SetupWorkspaceContainer
  <2>2. CASE IsContainerRunning(job.pod.workspace)
    <3>1. PICK ok \in BOOLEAN : /\ Call(ok, Reachable(Uid, "workspace")) /\ Spoil(~ok)
                                /\ server' = IF ok THEN [server EXCEPT ![Uid] = TRUE] ELSE server
      BY Zenon, <1>7, <2>2 DEF SetupWorkspaceContainer
    <3>2. events' \in 0..MaxEvents /\ events' >= events
      BY Zenon, <1>b, <3>1, CallGrows
    <3>3. spoiled' \subseteq Uids /\ spoiled \subseteq spoiled'
      BY Zenon, <1>0, <3>1, SpoilType
    <3>4. server' \in [Uids -> BOOLEAN]
      BY Zenon, <1>a, <3>1
    <3> QED
      BY Zenon, <1>a, <2>1, <3>2, <3>3, <3>4 DEF Effects
  <2>3. CASE ~IsContainerRunning(job.pod.workspace)
    BY Zenon, <1>7, <1>a, <2>1, <2>3 DEF SetupWorkspaceContainer, Effects
  <2> QED
    BY Zenon, <2>2, <2>3
<1>8. CASE MarkComplete
  <2>1. PICK ok \in BOOLEAN : WriteRegistrationState(ok, FALSE) /\ Spoil(~ok)
    BY Zenon, <1>8 DEF MarkComplete
  <2>2. events' >= events
    BY Zenon, <1>b, <2>1, CallGrows DEF WriteRegistrationState
  <2>3. spoiled' \subseteq Uids /\ spoiled \subseteq spoiled'
    BY Zenon, <1>0, <2>1, SpoilType
  <2> QED
    BY Zenon, <1>0, <1>8, <1>a, <2>1, <2>2, <2>3, WriteType DEF MarkComplete, Effects
<1>9. CASE DeregisterDeleted
  <2>1. PICK ok \in BOOLEAN : /\ Call(ok, TRUE)
                              /\ IF ok THEN DeregisterNodeAgent ELSE UNCHANGED <<nodes, agent>>
                              /\ missed' = IF ok THEN missed \ {Uid} ELSE missed \cup {Uid}
    BY Zenon, <1>9 DEF DeregisterDeleted
  <2>2. events' \in 0..MaxEvents /\ events' >= events
    BY Zenon, <2>1, CallGrows
  <2>3. nodes' \in [Uids -> Nat] /\ agent' \in [Uids -> BOOLEAN]
    <3>1. CASE ok
      <4>1. nodes' = [nodes EXCEPT ![Uid] = 0] /\ agent' = [agent EXCEPT ![Uid] = FALSE]
        BY Zenon, <2>1, <3>1 DEF DeregisterNodeAgent
      <4> QED
        BY Zenon, <1>a, <4>1
    <3>2. CASE ~ok
      BY Zenon, <1>a, <2>1, <3>2
    <3> QED
      BY Zenon, <3>1, <3>2
  <2>4. missed' \subseteq Uids
    BY Zenon, <1>a, <1>b, <2>1
  <2> QED
    BY Zenon, <1>9, <1>a, <2>2, <2>3, <2>4 DEF DeregisterDeleted, Effects
<1> QED
  BY Zenon, <1>1, <1>2, <1>3, <1>4, <1>5, <1>6, <1>7, <1>8, <1>9 DEF JobActions

\* Taking the next copy p: it is dropped, or its pod is set up or deregistered.
TakeStep(p) ==
  /\ pc = "idle" /\ up /\ queue # <<>> /\ p = Head(queue) /\ queue' = Tail(queue)
  /\ UNCHANGED <<pods, file, agent, server, nodes, setup, up, made, events>>
  /\ spoiled \subseteq spoiled' /\ missed \subseteq missed'
  /\ spoiled' \subseteq Uids /\ missed' \subseteq Uids
  /\ job' \in Jobs
  /\ \/ pc' = "idle" /\ (p.deleting /\ p.labelled => p.uid \in missed')
     \/ /\ pc' = "read" /\ job'.pod = p
        /\ ~p.deleting /\ IsContainerRunning(p.sidecar) /\ PodRunning(p)
     \/ pc' = "deregister" /\ job'.pod = p /\ p.deleting

\* That is what the handler does.
LEMMA TakeSteps ==
  ASSUME Shape, HandleWorkspacePodEvents
  PROVE  TakeStep(Head(queue)) /\ Head(queue) \in Pod
<1> DEFINE p == Head(queue)
<1>1. /\ pc = "idle" /\ up /\ queue # <<>> /\ queue' = Tail(queue)
      /\ UNCHANGED <<pods, file, agent, server, nodes, setup, up, made, events>>
  BY Zenon DEF HandleWorkspacePodEvents
<1>2. p \in Pod /\ p.uid \in Uids
  BY Zenon, <1>1, Taking, PodFields DEF Shape
<1>3. NoJob \in Jobs /\ [NoJob EXCEPT !.pod = p] \in Jobs /\ [NoJob EXCEPT !.pod = p].pod = p
  BY Zenon, <1>2 DEF NoJob, Jobs
<1>4. IF p.deleting THEN HandlePodDeleted(p)
      ELSE IF PodRunning(p) THEN HandlePodRunning(p)
      ELSE Idle /\ UNCHANGED history
  BY Zenon DEF HandleWorkspacePodEvents
<1>5. spoiled \subseteq Uids /\ missed \subseteq Uids
  BY Zenon DEF Shape
<1> HIDE DEF p
<1>6. CASE p.deleting
  BY Zenon, <1>1, <1>2, <1>3, <1>4, <1>5, <1>6 DEF TakeStep, HandlePodDeleted, Idle, history, p
<1>7. CASE ~p.deleting /\ PodRunning(p)
  BY Zenon, <1>1, <1>2, <1>3, <1>4, <1>5, <1>7 DEF TakeStep, HandlePodRunning, Idle, history, p
<1>8. CASE ~p.deleting /\ ~PodRunning(p)
  BY Zenon, <1>1, <1>2, <1>3, <1>4, <1>5, <1>8 DEF TakeStep, Idle, history, p
<1> QED
  BY Zenon, <1>2, <1>6, <1>7, <1>8 DEF p

\* A pod is made, with the next uid.
LEMMA CreateSteps ==
  ASSUME Shape, CreatePod
  PROVE  /\ made + 1 \in Uids /\ NewPod(made + 1) \in Pod /\ made' = made + 1
         /\ pods' = [pods EXCEPT ![made + 1] = NewPod(made + 1)]
         /\ queue' = queue \/ (up /\ queue' = queue \o <<NewPod(made + 1)>>)
         /\ UNCHANGED <<file, agent, server, nodes, setup, up, pc, job, history, events>>
<1>1. made + 1 \in Uids
  BY Numbers DEF Shape, CreatePod, Uids
<1> QED
  BY Zenon, <1>1, NewPodType DEF CreatePod, Notify

\* A pod is gone.
LEMMA GoneSteps ==
  ASSUME Shape, NEW u \in Uids, PodGone(u)
  PROVE  /\ Exists(u) /\ pods[u] \in Pod /\ pods[u].uid = u /\ pods[u].deleting
         /\ pods' = [pods EXCEPT ![u] = None] /\ file' = [file EXCEPT ![u] = None]
         /\ agent' = [agent EXCEPT ![u] = FALSE] /\ server' = [server EXCEPT ![u] = FALSE]
         /\ \/ up /\ queue' = queue \o <<pods[u]>> /\ missed' = missed
            \/ ~up /\ queue' = queue /\ missed' = missed \cup {u}
         /\ UNCHANGED <<nodes, setup, up, pc, job, spoiled, made, events>>
BY Zenon, ExistingPod DEF PodGone, Notify

\* The types are kept by every step.
LEMMA ShapeKept ==
  ASSUME Shape, Budget, [Next]_vars
  PROVE  Shape'
<1>1. CASE CreatePod
  <2>1. pods' \in [Uids -> Pod \cup {None}] /\ \A v \in Uids : Exists(v)' => pods'[v].uid = v
    <3>1. made + 1 \in Uids /\ pods' = [pods EXCEPT ![made + 1] = NewPod(made + 1)]
      BY Zenon, <1>1, CreateSteps
    <3>2. NewPod(made + 1) \in Pod /\ NewPod(made + 1).uid = made + 1
      BY Zenon, <3>1, NewPodType
    <3> QED
      BY Zenon, <3>1, <3>2 DEF Shape, Exists
  <2>2. queue' \in Seq(Pod)
    BY Zenon, <1>1, CreateSteps, AppendingOne DEF Shape
  <2>3. made' \in 0..MaxPods
    BY SMTT(30), <1>1, CreateSteps, Numbers DEF Shape, Uids
  <2>4. ~up => queue' = queue
    BY Zenon, <1>1, CreateSteps
  <2> QED
    BY SMTT(30), <1>1, <2>1, <2>2, <2>3, <2>4, CreateSteps DEF Shape, setup, history
<1>2. ASSUME NEW u \in Uids, NEW p \in Pod, PodStep(u, p), events' \in 0..MaxEvents
      PROVE  Shape'
  <2>1. pods' \in [Uids -> Pod \cup {None}] /\ \A v \in Uids : Exists(v)' => pods'[v].uid = v
    BY Zenon, <1>2 DEF PodStep, Shape, Exists
  <2>2. queue' \in Seq(Pod)
    BY Zenon, <1>2, ExistingPod, Appending DEF PodStep, Shape
  <2>3. agent' \in [Uids -> BOOLEAN] /\ server' \in [Uids -> BOOLEAN]
    BY Zenon, <1>2 DEF PodStep, Shape
  <2> QED
    BY Zenon, <1>2, <2>1, <2>2, <2>3 DEF PodStep, Shape, setup, history
<1>3. ASSUME NEW u \in Uids, NEW c \in Parts, StartContainer(u, c)
      PROVE  Shape'
  BY Zenon, <1>2, <1>3, StartStep DEF Shape
<1>4. ASSUME NEW u \in Uids, NEW c \in Parts, ContainerDies(u, c)
      PROVE  Shape'
  <2>1. events' \in 0..MaxEvents
    BY Zenon, <1>4, DeathStep, EventGrows DEF Shape
  <2> QED
    BY <1>2, <1>4, <2>1, DeathStep
<1>5. ASSUME NEW u \in Uids, DeletePod(u)
      PROVE  Shape'
  BY Zenon, <1>2, <1>5, DeletionStep DEF Shape
<1>6. ASSUME NEW u \in Uids, PodGone(u)
      PROVE  Shape'
  <2>0. /\ pods \in [Uids -> Pod \cup {None}] /\ \A v \in Uids : Exists(v) => pods[v].uid = v
        /\ file \in [Uids -> States \cup {None, Corrupted}] /\ missed \subseteq Uids
        /\ agent \in [Uids -> BOOLEAN] /\ server \in [Uids -> BOOLEAN]
    BY Zenon DEF Shape
  <2>1. pods' \in [Uids -> Pod \cup {None}] /\ \A v \in Uids : Exists(v)' => pods'[v].uid = v
    <3>1. pods' = [pods EXCEPT ![u] = None]
      BY Zenon, <1>6, GoneSteps
    <3> QED
      BY Zenon, <2>0, <3>1 DEF Exists
  <2>2. queue' \in Seq(Pod)
    BY Zenon, <1>6, GoneSteps, AppendingOne DEF Shape
  <2>3. file' \in [Uids -> States \cup {None, Corrupted}]
    BY Zenon, <1>6, <2>0 DEF PodGone
  <2>4. agent' \in [Uids -> BOOLEAN] /\ server' \in [Uids -> BOOLEAN]
    BY Zenon, <1>6, <2>0 DEF PodGone
  <2>5. missed' \subseteq Uids
    BY Zenon, <1>6, <2>0 DEF PodGone
  <2>6. ~up => queue' = queue
    BY Zenon, <1>6, GoneSteps
  <2> QED
    BY Zenon, <1>6, <2>1, <2>2, <2>3, <2>4, <2>5, <2>6, GoneSteps DEF Shape, setup
<1>7. ASSUME NEW u \in Uids, Resync(u)
      PROVE  Shape'
  BY Zenon, <1>2, <1>7, ResyncStep, ExistingPod, EventGrows DEF PodStep
<1>8. ASSUME NEW u \in Uids, CorruptFile(u)
      PROVE  Shape'
  BY Zenon, <1>8, EventGrows DEF CorruptFile, Shape, Exists, setup, history
<1>9. CASE EditWorkspace
  BY Zenon, <1>9, EventGrows DEF EditWorkspace, Shape, Exists, history
<1>10. CASE EditStrategy
  BY Zenon, <1>10, EventGrows DEF EditStrategy, Shape, Exists, history
<1>11. CASE HandleWorkspacePodEvents
  <2> DEFINE p == Head(queue)
  <2>1. TakeStep(p) /\ p \in Pod
    BY Zenon, <1>11, TakeSteps
  <2> HIDE DEF p
  <2>2. queue' \in Seq(Pod)
    BY Zenon, <2>1, Taking DEF TakeStep, Shape
  <2>3. pc' \in Steps /\ job' \in Jobs /\ (pc' # "idle" => job'.pod \in Pod)
    BY Zenon, <2>1 DEF TakeStep, Steps
  <2> QED
    BY Zenon, <2>1, <2>2, <2>3 DEF TakeStep, Shape, Exists, setup
<1>12. CASE JobActions
  BY Zenon, <1>12, JobSteps, JobEffects, JobShape
<1>13. CASE Crash
  <2>1. events' \in 0..MaxEvents
    BY Zenon, <1>13, EventGrows DEF Crash
  <2>2. spoiled' \subseteq Uids
    BY Zenon, <1>13, JobTypes DEF Crash, Shape
  <2>3. missed' \subseteq Uids
    <3>1. 1..made \subseteq Uids
      BY Numbers DEF Shape, Uids
    <3> QED
      BY Zenon, <1>13, <3>1 DEF Crash, Shape
  <2>4. pc' \in Steps /\ job' \in Jobs /\ pc' = "idle" /\ queue' = <<>> /\ queue' \in Seq(Pod)
    BY <1>13 DEF Crash, Idle, Steps, Jobs, NoJob
  <2> QED
    BY Zenon, <1>13, <2>1, <2>2, <2>3, <2>4 DEF Crash, Shape, Exists, setup
<1>14. CASE Restart
  BY Zenon, <1>14, Listing DEF Restart, Shape, Exists, setup, history
<1>15. CASE UNCHANGED vars
  BY Zenon, <1>15 DEF vars, Shape, Exists, setup, history
<1> QED
  BY Zenon, <1>1, <1>3, <1>4, <1>5, <1>6, <1>7, <1>8, <1>9, <1>10, <1>11, <1>12, <1>13, <1>14, <1>15
  DEF Next, Kubelet, Handle, JobActions, Parts

\* Restarts stay within the budget.
LEMMA BudgetKept ==
  ASSUME Shape, Budget, [Next]_vars
  PROVE  Budget'
<1>0. events \in Nat /\ Shape'
  BY SMTT(30), ShapeKept, Numbers DEF Shape
<1>1. ASSUME NEW u \in Uids, NEW p \in Pod, PodStep(u, p), events' \in Nat, events' >= events,
             ~p.deleting => \A c \in Parts :
                p[c].restarts + (IF p[c].state = "dead" THEN 1 ELSE 0) <= events'
      PROVE  Budget'
  <2>1. SUFFICES ASSUME NEW v \in Uids, Exists(v)', ~pods'[v].deleting, NEW c \in Parts
                 PROVE  pods'[v][c].restarts + (IF pods'[v][c].state = "dead" THEN 1 ELSE 0) <= events'
    BY Zenon DEF Budget
  <2>2. CASE v = u
    BY Zenon, <1>1, <2>1, <2>2 DEF PodStep, Shape
  <2>3. CASE v # u
    <3>1. pods'[v] = pods[v] /\ Exists(v)
      BY Zenon, <1>1, <2>1, <2>3 DEF PodStep, Shape, Exists
    <3>2. pods[v] \in Pod /\ pods[v][c].restarts \in Nat
      BY Zenon, <3>1, ExistingPod, PodFields, CountFields DEF Parts
    <3>3. pods[v][c].restarts + (IF pods[v][c].state = "dead" THEN 1 ELSE 0) <= events
      BY Zenon, <2>1, <3>1 DEF Budget
    <3> QED
      BY <1>0, <1>1, <3>1, <3>2, <3>3
  <2> QED
    BY Zenon, <2>2, <2>3
<1>2. ASSUME pods' = pods, events' \in Nat, events' >= events
      PROVE  Budget'
  <2>1. SUFFICES ASSUME NEW v \in Uids, Exists(v), ~pods[v].deleting, NEW c \in Parts
                 PROVE  pods[v][c].restarts + (IF pods[v][c].state = "dead" THEN 1 ELSE 0) <= events'
    BY Zenon, <1>2 DEF Budget, Exists
  <2>2. pods[v] \in Pod /\ pods[v][c].restarts \in Nat
    BY Zenon, <2>1, ExistingPod, PodFields, CountFields DEF Parts
  <2>3. pods[v][c].restarts + (IF pods[v][c].state = "dead" THEN 1 ELSE 0) <= events
    BY Zenon, <2>1 DEF Budget
  <2> QED
    BY <1>0, <1>2, <2>2, <2>3
<1>3. CASE CreatePod
  <2>1. \A v \in Uids : Exists(v)' => v = made + 1 \/ (Exists(v) /\ pods'[v] = pods[v])
    BY Zenon, <1>3, CreateSteps DEF Shape, Exists
  <2>2. pods'[made + 1] = NewPod(made + 1) /\ events' = events
    BY Zenon, <1>3, CreateSteps DEF Shape
  <2>3. \A c \in Parts : NewPod(made + 1)[c].restarts = 0 /\ NewPod(made + 1)[c].state # "dead"
    BY Zenon, <1>3, CreateSteps, NewPodType
  <2> QED
    BY <1>0, <2>1, <2>2, <2>3 DEF Budget
<1>4. ASSUME NEW u \in Uids, NEW c \in Parts, StartContainer(u, c)
      PROVE  Budget'
  <2>1. PICK p \in Pod : /\ PodStep(u, p) /\ ~p.deleting /\ events' = events
                         /\ \A e \in Parts \ {c} : p[e] = pods[u][e]
                         /\ p[c].state = "running" /\ p[c].restarts <= events
    BY Zenon, <1>4, StartStep
  <2>2. Exists(u) /\ ~pods[u].deleting
    BY Zenon, <1>4 DEF StartContainer
  <2>3. p[c].restarts \in Nat
    BY Zenon, PodFields, CountFields DEF Parts
  <2>4. \A e \in Parts : p[e].restarts + (IF p[e].state = "dead" THEN 1 ELSE 0) <= events'
    <3>1. p[c].restarts + (IF p[c].state = "dead" THEN 1 ELSE 0) <= events'
      BY <2>1, <2>3
    <3>2. \A e \in Parts \ {c} : p[e].restarts + (IF p[e].state = "dead" THEN 1 ELSE 0) <= events'
      BY Zenon, <2>1, <2>2 DEF Budget
    <3> QED
      BY Zenon, <3>1, <3>2
  <2> QED
    BY <1>0, <1>1, <2>1, <2>4
<1>5. ASSUME NEW u \in Uids, NEW c \in Parts, ContainerDies(u, c)
      PROVE  Budget'
  <2>1. PICK p \in Pod : /\ PodStep(u, p) /\ p.deleting = pods[u].deleting
                         /\ \A e \in Parts \ {c} : p[e] = pods[u][e]
                         /\ p[c].state = "dead" /\ p[c].restarts = pods[u][c].restarts
                         /\ pods[u][c].state = "running"
                         /\ IF p.deleting THEN UNCHANGED events ELSE Event("container")
    BY Zenon, <1>5, DeathStep
  <2>2. CASE p.deleting
    BY <1>0, <1>1, <2>1, <2>2
  <2>3. CASE ~p.deleting
    <3>1. Exists(u) /\ ~pods[u].deleting /\ events' = events + 1
      BY Zenon, <2>1, <2>3, EventGrows DEF PodStep
    <3>2. \A e \in Parts : pods[u][e].restarts \in Nat
      BY Zenon, <3>1, ExistingPod, PodFields, CountFields DEF Parts
    <3>3. \A e \in Parts :
            pods[u][e].restarts + (IF pods[u][e].state = "dead" THEN 1 ELSE 0) <= events
      BY Zenon, <3>1 DEF Budget
    <3>4. p[c].restarts + (IF p[c].state = "dead" THEN 1 ELSE 0) <= events'
      BY <1>0, <2>1, <3>1, <3>2, <3>3
    <3>5. \A e \in Parts \ {c} : p[e].restarts + (IF p[e].state = "dead" THEN 1 ELSE 0) <= events'
      BY <1>0, <2>1, <3>1, <3>2, <3>3
    <3>6. events' \in Nat /\ events' >= events
      BY <1>0, <3>1
    <3> QED
      BY Zenon, <1>1, <2>1, <3>4, <3>5, <3>6
  <2> QED
    BY Zenon, <2>2, <2>3
<1>6. ASSUME NEW u \in Uids, DeletePod(u)
      PROVE  Budget'
  BY <1>0, <1>1, <1>6, DeletionStep
<1>7. ASSUME NEW u \in Uids, PodGone(u)
      PROVE  Budget'
  <2>1. events' = events /\ \A v \in Uids : Exists(v)' => Exists(v) /\ pods'[v] = pods[v]
    BY ZenonT(30), <1>7, GoneSteps DEF Shape, Exists
  <2> QED
    BY Zenon, <2>1 DEF Budget
<1>8. ASSUME pods' = pods, \/ \E kind : Event(kind)
                           \/ UNCHANGED events
                           \/ JobActions
      PROVE  Budget'
  <2>1. events' \in Nat
    BY <1>0, Numbers DEF Shape
  <2>2. events' >= events
    BY <1>0, <1>8, EventGrows, JobEffects
  <2> QED
    BY Zenon, <1>2, <1>8, <2>1, <2>2
<1>9. ASSUME NEW u \in Uids, Resync(u) \/ CorruptFile(u)
      PROVE  Budget'
  BY Zenon, <1>8, <1>9 DEF Resync, CorruptFile
<1>10. CASE EditWorkspace \/ EditStrategy \/ Crash
  BY Zenon, <1>8, <1>10 DEF EditWorkspace, EditStrategy, Crash
<1>11. CASE HandleWorkspacePodEvents \/ Restart
  BY Zenon, <1>8, <1>11 DEF HandleWorkspacePodEvents, Restart
<1>12. CASE JobActions
  BY Zenon, <1>8, <1>12, JobSteps DEF JobStep
<1>13. CASE UNCHANGED vars
  BY Zenon, <1>8, <1>13 DEF vars
<1> QED
  BY Zenon, <1>3, <1>4, <1>5, <1>6, <1>7, <1>9, <1>10, <1>11, <1>12, <1>13
  DEF Next, Kubelet, Handle, JobActions, Parts

-----------------------------------------------------------------------------
(* The order of the copies *)

Copies == Shape /\ Known /\ InOrder /\ PlainCopies /\ JobFits

\* A step that leaves pods, events and jobs alone.
Aside == UNCHANGED <<pods, file, agent, server, nodes, queue, up, pc, job, history, made>>

\* What a step can be, as far as the copies of pods go.
LEMMA StepKinds ==
  ASSUME Shape, Budget, [Next]_vars
  PROVE  \/ CreatePod \/ HandleWorkspacePodEvents \/ JobActions \/ Crash \/ Restart \/ Aside
         \/ \E u \in Uids : PodGone(u) \/ CorruptFile(u) \/ \E p \in Pod : PodStep(u, p)
<1>1. ASSUME NEW u \in Uids, NEW c \in Parts, StartContainer(u, c) \/ ContainerDies(u, c)
      PROVE  \E p \in Pod : PodStep(u, p)
  BY Zenon, <1>1, StartStep, DeathStep
<1>2. ASSUME NEW u \in Uids, DeletePod(u) \/ Resync(u)
      PROVE  \E p \in Pod : PodStep(u, p)
  <2>1. CASE DeletePod(u)
    BY Zenon, <2>1, DeletionStep
  <2>2. CASE Resync(u)
    BY Zenon, <2>2, ResyncStep, ExistingPod DEF PodStep
  <2> QED
    BY Zenon, <1>2, <2>1, <2>2
<1>3. CASE EditWorkspace \/ EditStrategy
  BY Zenon, <1>3 DEF EditWorkspace, EditStrategy, Aside
<1>4. CASE UNCHANGED vars
  BY Zenon, <1>4 DEF vars, Aside
<1> QED
  BY Zenon, <1>1, <1>2, <1>3, <1>4 DEF Next, Kubelet, Handle, JobActions, Parts

\* The copies to deliver after a step of pod u: the old ones, then the pod before and after.
LEMMA NewCopies ==
  ASSUME Shape, NEW u \in Uids, NEW p \in Pod, PodStep(u, p)
  PROVE  /\ \A i \in 1..Len(queue') :
              (i \in 1..Len(queue) /\ queue'[i] = queue[i]) \/ queue'[i] = pods[u] \/ queue'[i] = p
         /\ \A i, j \in 1..Len(queue') : i < j =>
              \/ i \in 1..Len(queue) /\ j \in 1..Len(queue)
                 /\ queue'[i] = queue[i] /\ queue'[j] = queue[j]
              \/ i \in 1..Len(queue) /\ queue'[i] = queue[i]
                 /\ (queue'[j] = pods[u] \/ queue'[j] = p)
              \/ queue'[i] = pods[u] /\ queue'[j] = p
         /\ \A i \in 1..Len(queue) : i \in 1..Len(queue') /\ queue'[i] = queue[i]
<1>1. queue \in Seq(Pod) /\ pods[u] \in Pod
  BY Zenon, ExistingPod DEF PodStep, Shape
<1>2. CASE queue' = queue
  BY Zenon, <1>1, <1>2
<1>3. CASE queue' = queue \o <<pods[u], p>>
  <2>1. /\ Len(queue) \in Nat /\ Len(queue') = Len(queue) + 2
        /\ \A i \in 1..Len(queue) : queue'[i] = queue[i]
        /\ queue'[Len(queue) + 1] = pods[u] /\ queue'[Len(queue) + 2] = p
    BY Zenon, <1>1, <1>3, Appending
  <2>2. \A i \in 1..Len(queue') : i \in 1..Len(queue) \/ i = Len(queue) + 1 \/ i = Len(queue) + 2
    BY <2>1
  <2>3. \A i \in 1..Len(queue) : i \in 1..Len(queue')
    BY <2>1
  <2>4. \A i, j \in 1..Len(queue') : i < j =>
          \/ i \in 1..Len(queue) /\ j \in 1..Len(queue)
          \/ i \in 1..Len(queue) /\ (j = Len(queue) + 1 \/ j = Len(queue) + 2)
          \/ i = Len(queue) + 1 /\ j = Len(queue) + 2
    BY <2>1
  <2> QED
    BY Zenon, <2>1, <2>2, <2>3, <2>4
<1> QED
  BY Zenon, <1>2, <1>3 DEF PodStep

\* A copy of the past is before what the pod was and what it becomes.
LEMMA StillBefore ==
  ASSUME Shape, NEW u \in Uids, NEW p \in Pod, PodStep(u, p), NEW q \in Pod,
         pods[q.uid] # None => Follows(q, pods[q.uid])
  PROVE  /\ Follows(q, pods[u]) /\ Follows(q, p)
         /\ pods'[q.uid] # None => Follows(q, pods'[q.uid])
<1>1. pods[u] \in Pod /\ pods[u].uid = u /\ p.uid = u /\ Follows(pods[u], p) /\ pods[u] # None
  BY Zenon, ExistingPod DEF PodStep, Exists
<1>2. Follows(q, pods[u])
  BY Zenon, <1>1 DEF Follows
<1>3. Follows(q, p)
  BY Zenon, <1>1, <1>2, FollowsTrans
<1>4. q.uid \in Uids /\ pods' = [pods EXCEPT ![u] = p] /\ pods \in [Uids -> Pod \cup {None}]
  BY Zenon, PodFields DEF PodStep, Shape
<1> QED
  BY Zenon, <1>2, <1>3, <1>4

\* The copies to deliver are pods.
LEMMA QueuedPods ==
  ASSUME Shape
  PROVE  \A i \in 1..Len(queue) : queue[i] \in Pod /\ queue[i].uid \in Uids
BY PodFields DEF Shape

\* A step of a pod keeps the copies in order.
LEMMA PodStepOrder ==
  ASSUME Shape, InOrder, NEW u \in Uids, NEW p \in Pod, PodStep(u, p)
  PROVE  InOrder'
<1>1. \A i \in 1..Len(queue) : pods[queue[i].uid] # None => Follows(queue[i], pods[queue[i].uid])
  BY Zenon DEF InOrder, Exists
<1>2. \A i \in 1..Len(queue) :
        /\ Follows(queue[i], pods[u]) /\ Follows(queue[i], p)
        /\ pods'[queue[i].uid] # None => Follows(queue[i], pods'[queue[i].uid])
  BY Zenon, <1>1, QueuedPods, StillBefore
<1>3. pods[u] \in Pod /\ pods[u].uid = u /\ p.uid = u /\ Follows(pods[u], p) /\ pods'[u] = p
  BY Zenon, ExistingPod DEF PodStep, Shape
<1>4. \A i, j \in 1..Len(queue') : i < j => Follows(queue'[i], queue'[j])
  BY <1>2, <1>3, NewCopies DEF InOrder
<1>5. \A i \in 1..Len(queue') : pods'[queue'[i].uid] # None => Follows(queue'[i], pods'[queue'[i].uid])
  <2>1. Follows(p, p)
    BY Zenon, FollowsSelf
  <2> QED
    BY <1>2, <1>3, <2>1, NewCopies
<1>6. ASSUME pc' # "idle"
      PROVE  /\ \A i \in 1..Len(queue') : Follows(job'.pod, queue'[i])
             /\ pods'[job'.pod.uid] # None => Follows(job'.pod, pods'[job'.pod.uid])
  <2>1. pc # "idle" /\ job' = job /\ job.pod \in Pod
    BY Zenon, <1>6 DEF PodStep, Shape
  <2>2. /\ Follows(job.pod, pods[u]) /\ Follows(job.pod, p)
        /\ pods'[job.pod.uid] # None => Follows(job.pod, pods'[job.pod.uid])
    BY Zenon, <2>1, StillBefore DEF InOrder, Exists, Uid
  <2>3. \A i \in 1..Len(queue) : Follows(job.pod, queue[i])
    BY Zenon, <2>1 DEF InOrder
  <2> QED
    BY <2>1, <2>2, <2>3, NewCopies
<1> QED
  BY Zenon, <1>4, <1>5, <1>6 DEF InOrder, Exists, Uid

\* So does a new pod, of which there are no copies yet.
LEMMA CreateOrder ==
  ASSUME Shape, Known, InOrder, CreatePod
  PROVE  InOrder'
<1> DEFINE u == made + 1
           p == NewPod(made + 1)
<1>1. u \in Uids /\ p \in Pod /\ p.uid = u /\ made \in Nat
  BY SMTT(30), CreateSteps, NewPodType, Numbers DEF Shape
<1>2. pods' = [pods EXCEPT ![u] = p] /\ pods \in [Uids -> Pod \cup {None}] /\ queue \in Seq(Pod)
      /\ (queue' = queue \/ queue' = queue \o <<p>>) /\ pc' = pc /\ job' = job
  BY Zenon, CreateSteps DEF Shape
<1> HIDE DEF u, p
<1>3. \A i \in 1..Len(queue) : queue[i] \in Pod /\ queue[i].uid \in Uids /\ queue[i].uid # u
  BY <1>1, QueuedPods, Numbers DEF Known, u
<1>4. pc # "idle" => job.pod \in Pod /\ job.pod.uid \in Uids /\ job.pod.uid # u
  BY <1>1, JobTypes, Numbers DEF Known, u, Uid
<1>5. \A i \in 1..Len(queue') :
        (i \in 1..Len(queue) /\ queue'[i] = queue[i]) \/ (i = Len(queue) + 1 /\ queue'[i] = p)
  BY <1>1, <1>2, AppendingOne
<1>6. \A q \in Pod : q.uid # u => Follows(q, p)
  BY Zenon, <1>1 DEF Follows
<1>7. Follows(p, p) /\ pods'[u] = p /\ \A v \in Uids : v # u => pods'[v] = pods[v]
  BY Zenon, <1>1, <1>2, FollowsSelf
<1>8. \A i, j \in 1..Len(queue') : i < j => Follows(queue'[i], queue'[j])
  <2>1. SUFFICES ASSUME NEW i \in 1..Len(queue'), NEW j \in 1..Len(queue'), i < j
                 PROVE  Follows(queue'[i], queue'[j])
    BY Zenon
  <2>2. i \in 1..Len(queue) /\ queue'[i] = queue[i]
    <3>1. Len(queue) \in Nat /\ Len(queue') \in {Len(queue), Len(queue) + 1}
      BY <1>1, <1>2, AppendingOne
    <3> QED
      BY <1>5, <2>1, <3>1
  <2> QED
    BY Zenon, <1>3, <1>5, <1>6, <2>1, <2>2 DEF InOrder
<1>9. \A i \in 1..Len(queue') : pods'[queue'[i].uid] # None => Follows(queue'[i], pods'[queue'[i].uid])
  BY <1>1, <1>3, <1>5, <1>7 DEF InOrder, Exists
<1>10. pc' # "idle" => /\ \A i \in 1..Len(queue') : Follows(job'.pod, queue'[i])
                       /\ pods'[job'.pod.uid] # None => Follows(job'.pod, pods'[job'.pod.uid])
  BY Zenon, <1>2, <1>4, <1>5, <1>6, <1>7 DEF InOrder, Exists, Uid
<1> QED
  BY Zenon, <1>8, <1>9, <1>10 DEF InOrder, Exists, Uid

\* The last copy of a pod that is gone is the latest one.
LEMMA GoneOrder ==
  ASSUME Shape, InOrder, NEW u \in Uids, PodGone(u)
  PROVE  InOrder'
<1>1. /\ pods[u] # None /\ pods[u] \in Pod /\ pods[u].uid = u /\ pods' = [pods EXCEPT ![u] = None]
      /\ queue' = queue \/ queue' = queue \o <<pods[u]>>
      /\ pc' = pc /\ job' = job
  BY Zenon, GoneSteps DEF Exists
<1>2. pods \in [Uids -> Pod \cup {None}] /\ queue \in Seq(Pod)
  BY Zenon DEF Shape
<1>3. \A i \in 1..Len(queue') :
        (i \in 1..Len(queue) /\ queue'[i] = queue[i]) \/ (i = Len(queue) + 1 /\ queue'[i] = pods[u])
  <2>1. CASE queue' = queue
    BY Zenon, <2>1
  <2>2. CASE queue' = queue \o <<pods[u]>>
    <3>1. /\ Len(queue) \in Nat /\ Len(queue') = Len(queue) + 1
          /\ \A i \in 1..Len(queue) : queue'[i] = queue[i]
          /\ queue'[Len(queue) + 1] = pods[u]
      BY Zenon, <1>1, <1>2, <2>2, AppendingOne
    <3> QED
      BY <3>1
  <2> QED
    BY Zenon, <1>1, <2>1, <2>2
<1>4. \A v \in Uids : pods'[v] # None => pods'[v] = pods[v] /\ pods[v] # None
  BY Zenon, <1>1, <1>2
<1>5. \A i \in 1..Len(queue) : queue[i] \in Pod /\ queue[i].uid \in Uids /\ Follows(queue[i], pods[u])
  BY SMTT(30), <1>1, QueuedPods DEF InOrder, Follows, Exists
<1>6. \A i, j \in 1..Len(queue') : i < j => Follows(queue'[i], queue'[j])
  <2>1. SUFFICES ASSUME NEW i \in 1..Len(queue'), NEW j \in 1..Len(queue'), i < j
                 PROVE  Follows(queue'[i], queue'[j])
    BY Zenon
  <2>2. i \in 1..Len(queue) /\ queue'[i] = queue[i]
    <3>1. Len(queue) \in Nat /\ Len(queue') \in {Len(queue), Len(queue) + 1}
      BY <1>1, <1>2, AppendingOne
    <3> QED
      BY <1>3, <2>1, <3>1
  <2> QED
    BY Zenon, <1>3, <1>5, <2>1, <2>2 DEF InOrder
<1>7. \A i \in 1..Len(queue') : pods'[queue'[i].uid] # None => Follows(queue'[i], pods'[queue'[i].uid])
  <2>1. pods'[u] = None
    BY Zenon, <1>1, <1>2
  <2> QED
    BY <1>1, <1>3, <1>4, <1>5, <2>1 DEF InOrder, Exists
<1>8. ASSUME pc' # "idle"
      PROVE  /\ \A i \in 1..Len(queue') : Follows(job'.pod, queue'[i])
             /\ pods'[job'.pod.uid] # None => Follows(job'.pod, pods'[job'.pod.uid])
  <2>1. pc # "idle" /\ job' = job /\ job.pod \in Pod /\ job.pod.uid \in Uids
    BY Zenon, <1>1, <1>8, JobTypes DEF Uid
  <2>2. Follows(job.pod, pods[u])
    BY SMTT(30), <1>1, <2>1 DEF InOrder, Follows, Exists, Uid
  <2> QED
    BY Zenon, <1>3, <1>4, <2>1, <2>2 DEF InOrder, Exists, Uid
<1> QED
  BY Zenon, <1>6, <1>7, <1>8 DEF InOrder, Exists, Uid

\* Taking the first copy leaves the later ones.
LEMMA TakeOrder ==
  ASSUME Shape, InOrder, NEW p, TakeStep(p)
  PROVE  InOrder'
<1>1. /\ queue \in Seq(Pod) /\ queue # <<>> /\ queue' = Tail(queue) /\ p = Head(queue) /\ pods' = pods
      /\ pc' # "idle" => job'.pod = p
  BY Zenon DEF TakeStep, Shape
<1>2. /\ p = queue[1] /\ 1 \in 1..Len(queue) /\ Len(queue) \in Nat /\ Len(queue') = Len(queue) - 1
      /\ \A i \in 1..Len(queue') : queue'[i] = queue[i + 1] /\ i + 1 \in 1..Len(queue)
  BY Zenon, <1>1, Taking
<1>3. \A i, j \in 1..Len(queue') : i < j => Follows(queue'[i], queue'[j])
  <2>1. \A i, j \in 1..Len(queue') : i < j => i + 1 < j + 1
    BY <1>2
  <2> QED
    BY Zenon, <1>2, <2>1 DEF InOrder
<1>4. \A i \in 1..Len(queue') : pods'[queue'[i].uid] # None => Follows(queue'[i], pods'[queue'[i].uid])
  BY Zenon, <1>1, <1>2 DEF InOrder, Exists
<1>5. \A i \in 1..Len(queue') : Follows(p, queue'[i])
  <2>1. \A i \in 1..Len(queue') : 1 < i + 1
    BY <1>2
  <2> QED
    BY Zenon, <1>2, <2>1 DEF InOrder
<1>6. pods'[p.uid] # None => Follows(p, pods'[p.uid])
  BY Zenon, <1>1, <1>2 DEF InOrder, Exists
<1> QED
  BY Zenon, <1>1, <1>3, <1>4, <1>5, <1>6 DEF InOrder, Exists, Uid

\* What the operator lists is up to date.
LEMMA RestartOrder ==
  ASSUME Shape, Restart
  PROVE  InOrder'
<1>1. \A i \in 1..Len(queue') : \E u \in Uids :
         pods[u] # None /\ pods[u] \in Pod /\ queue'[i] = pods[u] /\ queue'[i].uid = u
  BY Zenon, Listing, ExistingPod DEF Exists
<1>2. pods' = pods /\ pc' = "idle"
  BY Zenon DEF Restart, Shape
<1>3. \A i, j \in 1..Len(queue') : Follows(queue'[i], queue'[j])
  <2>1. SUFFICES ASSUME NEW i \in 1..Len(queue'), NEW j \in 1..Len(queue')
                 PROVE  Follows(queue'[i], queue'[j])
    BY Zenon
  <2>2. PICK u \in Uids : pods[u] \in Pod /\ queue'[i] = pods[u] /\ queue'[i].uid = u
    BY Zenon, <1>1
  <2>3. PICK v \in Uids : queue'[j] = pods[v] /\ queue'[j].uid = v
    BY Zenon, <1>1
  <2>4. CASE u = v
    BY Zenon, <2>2, <2>3, <2>4, FollowsSelf
  <2>5. CASE u # v
    BY Zenon, <2>2, <2>3, <2>5 DEF Follows
  <2> QED
    BY Zenon, <2>4, <2>5
<1>4. \A i \in 1..Len(queue') : Follows(queue'[i], pods'[queue'[i].uid])
  BY Zenon, <1>1, <1>2, FollowsSelf
<1> QED
  BY Zenon, <1>2, <1>3, <1>4 DEF InOrder, Exists, Uid

\* A step of the job keeps the order: the copy in work stays, or the job ends.
LEMMA JobOrder ==
  ASSUME InOrder, JobStep
  PROVE  InOrder'
<1>1. pc' = "idle" \/ job'.pod = job.pod
  BY Zenon DEF JobStep
<1>2. pods' = pods /\ queue' = queue /\ pc # "idle"
  BY Zenon DEF JobStep
<1> QED
  BY Zenon, <1>1, <1>2 DEF InOrder, Exists, Uid

\* Which node a step of the job may change.
LEMMA JobNodes ==
  ASSUME Shape, JobActions
  PROVE  /\ \A u \in Uids : u # Uid => nodes'[u] = nodes[u]
         /\ nodes' = nodes \/ nodes'[Uid] = 0 \/ pc = "register"
<1>0. nodes \in [Uids -> Nat] /\ Uid \in Uids
  BY Zenon, JobSteps, JobTypes DEF JobStep, Shape
<1>1. \/ nodes' = nodes
      \/ nodes' = [nodes EXCEPT ![Uid] = 0]
      \/ pc = "register" /\ nodes' = [nodes EXCEPT ![Uid] = @ + 1]
  <2>1. CASE CleanUp \/ DeregisterDeleted
    BY Zenon, <2>1 DEF CleanUp, DeregisterDeleted, DeregisterNodeAgent
  <2>2. CASE RegisterNodeAgent
    BY Zenon, <2>2 DEF RegisterNodeAgent
  <2>3. CASE \/ ReadRegistrationState \/ MarkInProgress \/ RunRegistrationScript
             \/ TouchMarkerFile \/ SetupWorkspaceContainer \/ MarkComplete
    BY Zenon, <2>3 DEF ReadRegistrationState, MarkInProgress, RunRegistrationScript, TouchMarkerFile,
                SetupWorkspaceContainer, MarkComplete
  <2> QED
    BY Zenon, <2>1, <2>2, <2>3 DEF JobActions
<1> QED
  BY Zenon, <1>0, <1>1

\* Nothing becomes known of a pod before it is made.
LEMMA KnownKept ==
  ASSUME Shape, Budget, Known, [Next]_vars
  PROVE  Known'
<1>0. made \in Nat /\ Uids \subseteq Nat /\ pods \in [Uids -> Pod \cup {None}] /\ queue \in Seq(Pod)
  BY SMTT(30), Numbers DEF Shape
<1>1. CASE CreatePod
  <2>1. made + 1 \in Uids /\ NewPod(made + 1) \in Pod /\ NewPod(made + 1).uid = made + 1
        /\ made' = made + 1 /\ pods' = [pods EXCEPT ![made + 1] = NewPod(made + 1)]
        /\ (queue' = queue \/ queue' = queue \o <<NewPod(made + 1)>>)
        /\ nodes' = nodes /\ pc' = pc /\ job' = job
    BY Zenon, <1>1, CreateSteps, NewPodType
  <2>2. \A u \in Uids : u > made' => pods'[u] = None /\ nodes'[u] = 0
    BY <1>0, <2>1 DEF Known, Exists
  <2>3. \A i \in 1..Len(queue') :
          (i \in 1..Len(queue) /\ queue'[i] = queue[i]) \/ queue'[i] = NewPod(made + 1)
    BY <1>0, <2>1, AppendingOne
  <2>4. \A i \in 1..Len(queue') : queue'[i].uid <= made'
    <3>1. \A i \in 1..Len(queue) : queue[i].uid \in Nat /\ queue[i].uid <= made
      BY Zenon, <1>0, QueuedPods DEF Known
    <3> QED
      BY SMTT(30), <1>0, <2>1, <2>3, <3>1
  <2>5. pc # "idle" => job.pod.uid <= made'
    <3>1. pc # "idle" => job.pod.uid \in Nat /\ job.pod.uid <= made
      BY Zenon, <1>0, JobTypes DEF Known, Uid
    <3> QED
      BY <1>0, <2>1, <3>1
  <2> QED
    BY Zenon, <2>1, <2>2, <2>4, <2>5 DEF Known, Exists, Uid
<1>2. ASSUME NEW u \in Uids, NEW p \in Pod, PodStep(u, p)
      PROVE  Known'
  <2>1. pods[u].uid = u /\ p.uid = u /\ Exists(u) /\ u <= made
    BY <1>0, <1>2, ExistingPod DEF PodStep, Known
  <2>2. \A v \in Uids : v > made' => pods'[v] = None /\ nodes'[v] = 0
    BY Zenon, <1>0, <1>2, <2>1 DEF PodStep, Known, Exists
  <2>3. \A i \in 1..Len(queue') : queue'[i].uid <= made'
    BY SMTT(30), <1>2, <2>1, NewCopies DEF PodStep, Known
  <2> QED
    BY Zenon, <1>2, <2>2, <2>3 DEF PodStep, Known, Exists, Uid
<1>3. ASSUME NEW u \in Uids, PodGone(u)
      PROVE  Known'
  <2>1. /\ pods[u] \in Pod /\ pods[u].uid = u /\ Exists(u) /\ pods' = [pods EXCEPT ![u] = None]
        /\ queue' = queue \/ queue' = queue \o <<pods[u]>>
        /\ nodes' = nodes /\ made' = made /\ pc' = pc /\ job' = job
    BY Zenon, <1>3, GoneSteps
  <2>2. u <= made
    BY <1>0, <2>1 DEF Known
  <2>3. \A v \in Uids : v > made' => pods'[v] = None /\ nodes'[v] = 0
    BY Zenon, <1>0, <2>1 DEF Known, Exists
  <2>4. \A i \in 1..Len(queue') :
          (i \in 1..Len(queue) /\ queue'[i] = queue[i]) \/ queue'[i] = pods[u]
    BY <1>0, <2>1, AppendingOne
  <2> QED
    BY Zenon, <2>1, <2>2, <2>3, <2>4 DEF Known, Exists, Uid
<1>4. CASE HandleWorkspacePodEvents
  <2>1. TakeStep(Head(queue))
    BY Zenon, <1>4, TakeSteps
  <2>2. /\ Head(queue) = queue[1] /\ 1 \in 1..Len(queue)
        /\ \A i \in 1..Len(queue') : queue'[i] = queue[i + 1] /\ i + 1 \in 1..Len(queue)
    BY Zenon, <1>0, <2>1, Taking DEF TakeStep
  <2> QED
    BY <2>1, <2>2 DEF TakeStep, Known, Exists, Uid
<1>5. CASE JobActions
  <2>1. JobStep /\ Uid <= made /\ Uid \in Uids
    BY Zenon, <1>5, JobSteps, JobTypes DEF JobStep, Known
  <2>2. \A v \in Uids : v > made => nodes'[v] = nodes[v]
    BY <1>0, <1>5, <2>1, JobNodes
  <2> QED
    BY Zenon, <2>1, <2>2 DEF JobStep, Known, Exists, Uid
<1>6. CASE Crash
  BY <1>6 DEF Crash, Idle, Known, Exists
<1>7. CASE Restart
  <2>1. \A i \in 1..Len(queue') : \E u \in Uids : Exists(u) /\ queue'[i].uid = u
    BY Zenon, <1>7, Listing
  <2>2. \A u \in Uids : Exists(u) => u <= made
    BY <1>0 DEF Known
  <2>3. pc' = "idle"
    BY Zenon, <1>7 DEF Restart, Shape
  <2> QED
    BY Zenon, <1>7, <2>1, <2>2, <2>3 DEF Restart, Known, Exists
<1>8. CASE Aside
  BY Zenon, <1>8 DEF Aside, Known, Exists, Uid
<1>9. ASSUME NEW u \in Uids, CorruptFile(u)
      PROVE  Known'
  BY Zenon, <1>9 DEF CorruptFile, Known, Exists, Uid
<1> QED
  BY Zenon, <1>1, <1>2, <1>3, <1>4, <1>5, <1>6, <1>7, <1>8, <1>9, StepKinds

\* The copies stay in order.
LEMMA OrderKept ==
  ASSUME Shape, Budget, Known, InOrder, [Next]_vars
  PROVE  InOrder'
<1>1. CASE CreatePod
  BY Zenon, <1>1, CreateOrder
<1>2. CASE HandleWorkspacePodEvents
  BY Zenon, <1>2, TakeSteps, TakeOrder
<1>3. CASE JobActions
  BY Zenon, <1>3, JobSteps, JobOrder
<1>4. CASE Crash
  BY <1>4 DEF Crash, Idle, InOrder
<1>5. CASE Restart
  BY Zenon, <1>5, RestartOrder
<1>6. CASE Aside
  BY Zenon, <1>6 DEF Aside, InOrder, Exists, Uid
<1>7. ASSUME NEW u \in Uids, CorruptFile(u)
      PROVE  InOrder'
  BY Zenon, <1>7 DEF CorruptFile, InOrder, Exists, Uid
<1> QED
  BY Zenon, <1>1, <1>2, <1>3, <1>4, <1>5, <1>6, <1>7, StepKinds, GoneOrder, PodStepOrder

\* A pod without a sidecar never gets one.
LEMMA PlainKept ==
  ASSUME Shape, Budget, PlainCopies, [Next]_vars
  PROVE  PlainCopies'
<1>0. pods \in [Uids -> Pod \cup {None}] /\ queue \in Seq(Pod)
  BY Zenon DEF Shape
<1>1. CASE CreatePod
  <2>1. made + 1 \in Uids /\ NewPod(made + 1) \in Pod /\ Plain(NewPod(made + 1))
        /\ pods' = [pods EXCEPT ![made + 1] = NewPod(made + 1)]
        /\ (queue' = queue \/ queue' = queue \o <<NewPod(made + 1)>>)
        /\ pc' = pc /\ job' = job
    BY Zenon, <1>1, CreateSteps, NewPodType
  <2>2. \A i \in 1..Len(queue') :
          (i \in 1..Len(queue) /\ queue'[i] = queue[i]) \/ queue'[i] = NewPod(made + 1)
    BY <1>0, <2>1, AppendingOne
  <2>3. \A v \in Uids : pods'[v] # None => Plain(pods'[v])
    BY Zenon, <1>0, <2>1 DEF PlainCopies, Exists
  <2> QED
    BY Zenon, <2>1, <2>2, <2>3 DEF PlainCopies, Exists
<1>2. ASSUME NEW u \in Uids, NEW p \in Pod, PodStep(u, p)
      PROVE  PlainCopies'
  <2>1. Plain(pods[u]) /\ Plain(p)
    BY Zenon, <1>2, ExistingPod, PlainFollows DEF PodStep, PlainCopies
  <2>2. \A v \in Uids : pods'[v] # None => Plain(pods'[v])
    BY Zenon, <1>0, <1>2, <2>1 DEF PodStep, PlainCopies, Exists
  <2>3. \A i \in 1..Len(queue') : Plain(queue'[i])
    BY <1>2, <2>1, NewCopies DEF PlainCopies
  <2> QED
    BY Zenon, <1>2, <2>2, <2>3 DEF PodStep, PlainCopies, Exists
<1>3. ASSUME NEW u \in Uids, PodGone(u)
      PROVE  PlainCopies'
  <2>1. /\ Exists(u) /\ pods[u] \in Pod /\ pods' = [pods EXCEPT ![u] = None]
        /\ queue' = queue \/ queue' = queue \o <<pods[u]>>
        /\ pc' = pc /\ job' = job
    BY Zenon, <1>3, GoneSteps
  <2>2. \A i \in 1..Len(queue') :
          (i \in 1..Len(queue) /\ queue'[i] = queue[i]) \/ queue'[i] = pods[u]
    BY <1>0, <2>1, AppendingOne
  <2>3. \A v \in Uids : pods'[v] # None => Plain(pods'[v])
    BY Zenon, <1>0, <2>1 DEF PlainCopies, Exists
  <2> QED
    BY Zenon, <2>1, <2>2, <2>3 DEF PlainCopies, Exists
<1>4. CASE HandleWorkspacePodEvents
  <2>1. TakeStep(Head(queue))
    BY Zenon, <1>4, TakeSteps
  <2>2. /\ Head(queue) = queue[1] /\ 1 \in 1..Len(queue)
        /\ \A i \in 1..Len(queue') : queue'[i] = queue[i + 1] /\ i + 1 \in 1..Len(queue)
    BY Zenon, <1>0, <2>1, Taking DEF TakeStep
  <2> QED
    BY Zenon, <2>1, <2>2 DEF TakeStep, PlainCopies, Exists
<1>5. CASE JobActions
  BY Zenon, <1>5, JobSteps DEF JobStep, PlainCopies, Exists
<1>6. CASE Crash
  BY <1>6 DEF Crash, Idle, PlainCopies, Exists
<1>7. CASE Restart
  <2>1. pc' = "idle"
    BY Zenon, <1>7 DEF Restart, Shape
  <2> QED
    BY Zenon, <1>7, <2>1, Listing DEF Restart, PlainCopies, Exists
<1>8. CASE Aside
  BY Zenon, <1>8 DEF Aside, PlainCopies, Exists
<1>9. ASSUME NEW u \in Uids, CorruptFile(u)
      PROVE  PlainCopies'
  BY Zenon, <1>9 DEF CorruptFile, PlainCopies, Exists
<1> QED
  BY Zenon, <1>1, <1>2, <1>3, <1>4, <1>5, <1>6, <1>7, <1>8, <1>9, StepKinds

\* What is in work fits its copy.
LEMMA FitsKept ==
  ASSUME Shape, Budget, JobFits, [Next]_vars
  PROVE  JobFits'
<1>1. ASSUME pc' = pc, job' = job
      PROVE  JobFits'
  BY Zenon, <1>1 DEF JobFits
<1>2. ASSUME pc' = "idle"
      PROVE  JobFits'
  BY Zenon, <1>2 DEF JobFits, Setting
<1>3. CASE HandleWorkspacePodEvents
  <2>1. TakeStep(Head(queue))
    BY Zenon, <1>3, TakeSteps
  <2> QED
    BY Zenon, <1>2, <2>1 DEF TakeStep, JobFits, Setting
<1>4. CASE JobActions
  BY Zenon, <1>2, <1>4, JobSteps DEF JobStep, JobFits, Setting
<1>5. CASE CreatePod \/ Restart \/ Crash \/ Aside
  BY Zenon, <1>1, <1>2, <1>5 DEF CreatePod, Restart, Crash, Aside, Idle
<1>6. ASSUME NEW u \in Uids, PodGone(u) \/ CorruptFile(u) \/ \E p \in Pod : PodStep(u, p)
      PROVE  JobFits'
  BY Zenon, <1>1, <1>6 DEF PodGone, CorruptFile, PodStep
<1> QED
  BY Zenon, <1>3, <1>4, <1>5, <1>6, StepKinds

\* The order of the copies, and what goes with it, is kept by every step.
LEMMA CopiesKept ==
  ASSUME Copies, Budget, [Next]_vars
  PROVE  Copies' /\ Budget'
BY Zenon, ShapeKept, BudgetKept, KnownKept, OrderKept, PlainKept, FitsKept DEF Copies

-----------------------------------------------------------------------------
(* Nodes that are left behind *)

\* The copies to deliver, by their places.
LEMMA QueueRange ==
  ASSUME NEW q \in Seq(Pod)
  PROVE  Range(q) = {q[i] : i \in 1..Len(q)}
BY DEF Range

\* Every copy of a pod that gets a node is labelled.
LEMMA LabelledKept ==
  ASSUME Copies, Budget, NodesLabelled, [Next]_vars
  PROVE  NodesLabelled'
<1>0. Shape /\ made \in Nat /\ Uids \subseteq Nat /\ pods \in [Uids -> Pod \cup {None}]
      /\ queue \in Seq(Pod)
  BY SMTT(30), Numbers DEF Shape, Copies
<1>1. CASE CreatePod
  <2>1. made + 1 \in Uids /\ NewPod(made + 1) \in Pod /\ NewPod(made + 1).uid = made + 1
        /\ pods' = [pods EXCEPT ![made + 1] = NewPod(made + 1)]
        /\ (queue' = queue \/ queue' = queue \o <<NewPod(made + 1)>>)
        /\ nodes' = nodes /\ pc' = pc /\ job' = job
    BY Zenon, <1>0, <1>1, CreateSteps, NewPodType
  <2>2. nodes[made + 1] = 0
    BY <1>0, <2>1 DEF Copies, Known
  <2>3. \A i \in 1..Len(queue') :
          (i \in 1..Len(queue) /\ queue'[i] = queue[i]) \/ queue'[i] = NewPod(made + 1)
    BY <1>0, <2>1, AppendingOne
  <2>4. \A u \in Uids : u # made + 1 => pods'[u] = pods[u]
    BY Zenon, <1>0, <2>1
  <2> QED
    BY <2>1, <2>2, <2>3, <2>4 DEF NodesLabelled, InWork, Exists, Uid
<1>2. ASSUME NEW u \in Uids, NEW p \in Pod, PodStep(u, p)
      PROVE  NodesLabelled'
  <2>1. Exists(u) /\ pods[u].uid = u /\ p.uid = u /\ p.labelled = pods[u].labelled
    BY Zenon, <1>0, <1>2, ExistingPod DEF PodStep, Follows
  <2>2. nodes' = nodes /\ pc' = pc /\ job' = job /\ pods' = [pods EXCEPT ![u] = p]
    BY Zenon, <1>2 DEF PodStep
  <2>3. \A v \in Uids : nodes[v] # 0 => (pods'[v] # None => pods'[v].labelled)
    BY Zenon, <1>0, <2>1, <2>2 DEF NodesLabelled, Exists
  <2>4. \A v \in Uids : nodes[v] # 0 =>
          \A i \in 1..Len(queue') : queue'[i].uid = v => queue'[i].labelled
    BY SMTT(30), <1>0, <1>2, <2>1, NewCopies DEF NodesLabelled
  <2> QED
    BY Zenon, <2>2, <2>3, <2>4 DEF NodesLabelled, InWork, Exists, Uid
<1>3. ASSUME NEW u \in Uids, PodGone(u)
      PROVE  NodesLabelled'
  <2>1. /\ Exists(u) /\ pods[u] \in Pod /\ pods[u].uid = u /\ pods' = [pods EXCEPT ![u] = None]
        /\ queue' = queue \/ queue' = queue \o <<pods[u]>>
        /\ nodes' = nodes /\ pc' = pc /\ job' = job
    BY Zenon, <1>0, <1>3, GoneSteps
  <2>2. \A i \in 1..Len(queue') :
          (i \in 1..Len(queue) /\ queue'[i] = queue[i]) \/ queue'[i] = pods[u]
    BY <1>0, <2>1, AppendingOne
  <2>3. \A v \in Uids : pods'[v] # None => pods'[v] = pods[v] /\ pods[v] # None
    BY Zenon, <1>0, <2>1
  <2> QED
    BY SMTT(30), <2>1, <2>2, <2>3 DEF NodesLabelled, InWork, Exists, Uid
<1>4. CASE HandleWorkspacePodEvents
  <2>1. TakeStep(Head(queue))
    BY Zenon, <1>0, <1>4, TakeSteps
  <2>2. /\ Head(queue) = queue[1] /\ 1 \in 1..Len(queue)
        /\ \A i \in 1..Len(queue') : queue'[i] = queue[i + 1] /\ i + 1 \in 1..Len(queue)
    BY Zenon, <1>0, <2>1, Taking DEF TakeStep
  <2>3. pods' = pods /\ nodes' = nodes /\ (pc' # "idle" => job'.pod = queue[1])
    BY Zenon, <2>1, <2>2 DEF TakeStep
  <2> QED
    BY SMTT(30), <2>2, <2>3 DEF NodesLabelled, InWork, Exists, Uid
<1>5. CASE JobActions
  <2>1. JobStep /\ job.pod \in Pod /\ Uid \in Uids
    BY Zenon, <1>0, <1>5, JobSteps, JobTypes DEF JobStep
  <2>2. pods' = pods /\ queue' = queue /\ pc # "idle" /\ (pc' # "idle" => job'.pod = job.pod)
    BY Zenon, <2>1 DEF JobStep
  <2>3. ASSUME NEW u \in Uids, nodes'[u] # 0, nodes[u] # 0
        PROVE  /\ pods[u] # None => pods[u].labelled
               /\ \A i \in 1..Len(queue) : queue[i].uid = u => queue[i].labelled
               /\ job.pod.uid = u => job.pod.labelled
    BY Zenon, <2>2, <2>3 DEF NodesLabelled, InWork, Exists, Uid
  <2>4. ASSUME NEW u \in Uids, nodes'[u] # 0, nodes[u] = 0
        PROVE  /\ pods[u] # None => pods[u].labelled
               /\ \A i \in 1..Len(queue) : queue[i].uid = u => queue[i].labelled
               /\ job.pod.uid = u => job.pod.labelled
    <3>1. u = Uid /\ pc = "register"
      BY Zenon, <1>0, <1>5, <2>4, JobNodes
    <3>2. job.pod.labelled
      BY Zenon, <2>2, <3>1 DEF Copies, JobFits, PlainCopies, Plain, IsContainerRunning, Setting
    <3>3. pods[u] # None => Follows(job.pod, pods[u]) /\ pods[u].uid = job.pod.uid
      BY Zenon, <1>0, <2>2, <3>1, ExistingPod DEF Copies, InOrder, Exists, Uid
    <3>4. \A i \in 1..Len(queue) : Follows(job.pod, queue[i])
      BY Zenon, <2>2 DEF Copies, InOrder
    <3> QED
      BY Zenon, <3>1, <3>2, <3>3, <3>4 DEF Follows, Uid
  <2> QED
    BY Zenon, <2>2, <2>3, <2>4 DEF NodesLabelled, InWork, Exists, Uid
<1>6. CASE Crash
  BY <1>6 DEF Crash, Idle, NodesLabelled, InWork, Exists
<1>7. CASE Restart
  <2>1. pc' = "idle"
    BY Zenon, <1>0, <1>7 DEF Restart, Shape
  <2>2. pods' = pods /\ nodes' = nodes
    BY Zenon, <1>7 DEF Restart
  <2>3. \A i \in 1..Len(queue') :
          \E u \in Uids : pods[u] # None /\ queue'[i] = pods[u] /\ queue'[i].uid = u
    BY Zenon, <1>0, <1>7, Listing DEF Exists
  <2> QED
    BY <2>1, <2>2, <2>3 DEF NodesLabelled, InWork, Exists
<1>8. CASE Aside
  BY Zenon, <1>8 DEF Aside, NodesLabelled, InWork, Exists, Uid
<1>9. ASSUME NEW u \in Uids, CorruptFile(u)
      PROVE  NodesLabelled'
  BY Zenon, <1>9 DEF CorruptFile, NodesLabelled, InWork, Exists, Uid
<1> QED
  BY Zenon, <1>0, <1>1, <1>2, <1>3, <1>4, <1>5, <1>6, <1>7, <1>8, <1>9, StepKinds

\* The end of a pod is settled, to be delivered or in work, for as long as it is gone.
Settled(u) ==
  /\ nodes[u] = 0 /\ (pc # "idle" => Uid # u)
  /\ \A i \in 1..Len(queue) : queue[i].uid # u

ToBeDelivered(u) == \E i \in 1..Len(queue) : queue[i].uid = u /\ queue[i].deleting

Ended(u) == Settled(u) \/ ToBeDelivered(u) \/ (pc = "deregister" /\ Uid = u)

\* Ending, by the places of the copies.
LEMMA EndingEnded ==
  ASSUME queue \in Seq(Pod)
  PROVE  Ending <=> \A u \in 1..made : ~Exists(u) /\ u \notin missed => Ended(u)
BY QueueRange DEF Ending, Ended, Settled, ToBeDelivered, Quiet

\* Every step keeps the end of a pod in sight.
LEMMA EndingKept ==
  ASSUME Copies, Budget, NodesLabelled, Ending, [Next]_vars
  PROVE  Ending'
<1>0. /\ Shape /\ made \in Nat /\ Uids \subseteq Nat /\ 1..made \subseteq Uids
      /\ pods \in [Uids -> Pod \cup {None}] /\ queue \in Seq(Pod) /\ queue' \in Seq(Pod)
  <2>1. Shape /\ Shape'
    BY Zenon, ShapeKept DEF Copies
  <2>2. made \in Nat /\ Uids \subseteq Nat /\ 1..made \subseteq Uids
    BY <2>1, Numbers DEF Shape, Uids
  <2> QED
    BY Zenon, <2>1, <2>2 DEF Shape
<1>a. \A u \in 1..made : ~Exists(u) /\ u \notin missed => Ended(u)
  BY Zenon, <1>0, EndingEnded
<1>b. Ending' <=> \A u \in 1..made' : ~Exists(u)' /\ u \notin missed' => Ended(u)'
  <2>1. Range(queue') = {queue'[i] : i \in 1..Len(queue')}
    BY Zenon, <1>0, QueueRange
  <2> QED
    BY Zenon, <2>1 DEF Ending, Ended, Settled, ToBeDelivered, Quiet
<1>1. CASE CreatePod
  <2>1. made + 1 \in Uids /\ NewPod(made + 1) \in Pod /\ NewPod(made + 1).uid = made + 1
        /\ pods' = [pods EXCEPT ![made + 1] = NewPod(made + 1)] /\ made' = made + 1
        /\ (queue' = queue \/ queue' = queue \o <<NewPod(made + 1)>>)
        /\ nodes' = nodes /\ pc' = pc /\ job' = job /\ missed' = missed
    BY Zenon, <1>0, <1>1, CreateSteps, NewPodType DEF history
  <2>2. /\ \A i \in 1..Len(queue') :
             (i \in 1..Len(queue) /\ queue'[i] = queue[i]) \/ queue'[i] = NewPod(made + 1)
        /\ \A i \in 1..Len(queue) : i \in 1..Len(queue') /\ queue'[i] = queue[i]
    BY SMTT(30), <1>0, <2>1, AppendingOne
  <2>3. SUFFICES ASSUME NEW u \in 1..made', pods'[u] = None, u \notin missed
                 PROVE  Ended(u)'
    BY Zenon, <1>b, <2>1 DEF Exists
  <2>4. u # made + 1 /\ u \in 1..made /\ pods[u] = None
    BY <1>0, <2>1, <2>3, MarksAssumption
  <2>5. Ended(u)
    BY Zenon, <1>a, <2>3, <2>4 DEF Exists
  <2> QED
    BY Zenon, <2>1, <2>2, <2>4, <2>5 DEF Ended, Settled, ToBeDelivered, Uid
<1>2. ASSUME NEW v \in Uids, NEW p \in Pod, PodStep(v, p)
      PROVE  Ending'
  <2>1. Exists(v) /\ pods[v].uid = v /\ p.uid = v
    BY Zenon, <1>0, <1>2, ExistingPod DEF PodStep
  <2>2. nodes' = nodes /\ pc' = pc /\ job' = job /\ pods' = [pods EXCEPT ![v] = p] /\ made' = made
        /\ missed' = missed
    BY Zenon, <1>2 DEF PodStep, history
  <2>3. SUFFICES ASSUME NEW u \in 1..made, pods'[u] = None, u \notin missed
                 PROVE  Ended(u)'
    BY Zenon, <1>b, <2>2 DEF Exists
  <2>4. u # v /\ pods[u] = None
    BY Zenon, <1>0, <2>2, <2>3, MarksAssumption
  <2>5. Ended(u)
    BY Zenon, <1>a, <2>3, <2>4 DEF Exists
  <2>6. /\ \A i \in 1..Len(queue') :
             (i \in 1..Len(queue) /\ queue'[i] = queue[i]) \/ queue'[i].uid = v
        /\ \A i \in 1..Len(queue) : i \in 1..Len(queue') /\ queue'[i] = queue[i]
    BY <1>0, <1>2, <2>1, NewCopies
  <2> QED
    BY Zenon, <2>2, <2>4, <2>5, <2>6 DEF Ended, Settled, ToBeDelivered, Uid
<1>3. ASSUME NEW v \in Uids, PodGone(v)
      PROVE  Ending'
  <2>1. /\ Exists(v) /\ pods[v] \in Pod /\ pods[v].uid = v /\ pods[v].deleting
        /\ pods' = [pods EXCEPT ![v] = None]
        /\ \/ queue' = queue \o <<pods[v]>> /\ missed' = missed
           \/ queue' = queue /\ missed' = missed \cup {v}
        /\ nodes' = nodes /\ made' = made /\ pc' = pc /\ job' = job
    BY Zenon, <1>0, <1>3, GoneSteps
  <2>2. SUFFICES ASSUME NEW u \in 1..made, pods'[u] = None, u \notin missed'
                 PROVE  Ended(u)'
    BY Zenon, <1>b, <2>1 DEF Exists
  <2>3. CASE queue' = queue \o <<pods[v]>> /\ missed' = missed
    <3>1. /\ \A i \in 1..Len(queue') :
               (i \in 1..Len(queue) /\ queue'[i] = queue[i]) \/ queue'[i] = pods[v]
          /\ \A i \in 1..Len(queue) : i \in 1..Len(queue') /\ queue'[i] = queue[i]
          /\ Len(queue) + 1 \in 1..Len(queue') /\ queue'[Len(queue) + 1] = pods[v]
      BY <1>0, <2>1, <2>3, AppendingOne
    <3>2. CASE u = v
      BY Zenon, <2>1, <3>1, <3>2 DEF Ended, ToBeDelivered
    <3>3. CASE u # v
      <4>1. Ended(u)
        BY Zenon, <1>0, <1>a, <2>1, <2>2, <2>3, <3>3 DEF Exists
      <4> QED
        BY Zenon, <2>1, <3>1, <3>3, <4>1 DEF Ended, Settled, ToBeDelivered, Uid
    <3> QED
      BY Zenon, <3>2, <3>3
  <2>4. CASE queue' = queue /\ missed' = missed \cup {v}
    <3>1. u # v /\ pods[u] = None /\ u \notin missed
      BY Zenon, <1>0, <2>1, <2>2, <2>4
    <3>2. Ended(u)
      BY Zenon, <1>a, <3>1 DEF Exists
    <3> QED
      BY Zenon, <2>1, <2>4, <3>2 DEF Ended, Settled, ToBeDelivered, Uid
  <2> QED
    BY Zenon, <2>1, <2>3, <2>4
<1>4. CASE HandleWorkspacePodEvents
  <2> DEFINE p == Head(queue)
  <2>1. TakeStep(p) /\ p \in Pod
    BY Zenon, <1>0, <1>4, TakeSteps
  <2>2. /\ p = queue[1] /\ 1 \in 1..Len(queue) /\ Len(queue) \in Nat
        /\ \A i \in 1..Len(queue') : queue'[i] = queue[i + 1] /\ i + 1 \in 1..Len(queue)
        /\ \A i \in 2..Len(queue) : i - 1 \in 1..Len(queue') /\ queue'[i - 1] = queue[i]
    BY Zenon, <1>0, <2>1, Taking DEF TakeStep
  <2> HIDE DEF p
  <2>3. pods' = pods /\ nodes' = nodes /\ made' = made /\ pc = "idle" /\ missed \subseteq missed'
        /\ (pc' # "idle" => job'.pod = p)
    BY Zenon, <2>1 DEF TakeStep
  <2>4. SUFFICES ASSUME NEW u \in 1..made, pods[u] = None, u \notin missed'
                 PROVE  Ended(u)'
    BY Zenon, <1>b, <2>3 DEF Exists
  <2>5. Ended(u) /\ ~(pc = "deregister" /\ Uid = u)
    BY Zenon, <1>a, <2>3, <2>4 DEF Exists
  <2>6. CASE Settled(u)
    <3>1. p.uid # u /\ nodes'[u] = 0 /\ \A i \in 1..Len(queue') : queue'[i].uid # u
      BY <2>2, <2>3, <2>6 DEF Settled
    <3> QED
      BY Zenon, <2>3, <3>1 DEF Ended, Settled, Uid
  <2>7. CASE \E i \in 2..Len(queue) : queue[i].uid = u /\ queue[i].deleting
    BY Zenon, <2>2, <2>7 DEF Ended, ToBeDelivered
  <2>8. CASE p.uid = u /\ p.deleting
    <3>1. CASE pc' = "deregister" /\ job'.pod = p
      BY Zenon, <2>8, <3>1 DEF Ended, Uid
    <3>2. CASE pc' = "idle"
      <4>1. ~p.labelled
        BY Zenon, <2>1, <2>4, <2>8, <3>2 DEF TakeStep
      <4>2. nodes[u] = 0
        BY Zenon, <1>0, <2>2, <2>8, <4>1 DEF NodesLabelled
      <4>3. \A i \in 1..Len(queue') : queue'[i].uid = u => queue'[i].deleting
        <5>1. \A i \in 1..Len(queue') : 1 < i + 1
          BY <1>0
        <5>2. \A i \in 1..Len(queue') : Follows(p, queue'[i])
          BY Zenon, <2>2, <5>1 DEF Copies, InOrder
        <5> QED
          BY Zenon, <2>8, <5>2 DEF Follows
      <4> QED
        BY Zenon, <2>3, <3>2, <4>2, <4>3 DEF Ended, Settled, ToBeDelivered
    <3> QED
      BY Zenon, <2>1, <2>8, <3>1, <3>2 DEF TakeStep
  <2>9. ToBeDelivered(u) =>
          (p.uid = u /\ p.deleting) \/ \E i \in 2..Len(queue) : queue[i].uid = u /\ queue[i].deleting
    BY <2>2 DEF ToBeDelivered
  <2> QED
    BY Zenon, <2>5, <2>6, <2>7, <2>8, <2>9 DEF Ended
<1>5. CASE DeregisterDeleted
  <2>1. PICK ok \in BOOLEAN : /\ IF ok THEN DeregisterNodeAgent ELSE UNCHANGED <<nodes, agent>>
                              /\ missed' = IF ok THEN missed \ {Uid} ELSE missed \cup {Uid}
    BY Zenon, <1>5 DEF DeregisterDeleted
  <2>2. pods' = pods /\ made' = made /\ queue' = queue /\ pc = "deregister" /\ pc' = "idle"
    BY Zenon, <1>5 DEF DeregisterDeleted, Idle
  <2>3. SUFFICES ASSUME NEW u \in 1..made, pods[u] = None, u \notin missed'
                 PROVE  Ended(u)'
    BY Zenon, <1>b, <2>2 DEF Exists
  <2>4. nodes \in [Uids -> Nat] /\ u \in Uids
    BY Zenon, <1>0 DEF Shape
  <2>5. CASE u = Uid
    <3>1. ok
      BY Zenon, <2>1, <2>3, <2>5
    <3>2. nodes'[u] = 0
      BY Zenon, <2>1, <2>4, <2>5, <3>1 DEF DeregisterNodeAgent
    <3>3. \A i \in 1..Len(queue) : queue[i].uid = u => queue[i].deleting
      BY Zenon, <2>2, <2>5 DEF Copies, InOrder, JobFits, Follows, Uid
    <3> QED
      BY Zenon, <2>2, <3>2, <3>3 DEF Ended, Settled, ToBeDelivered
  <2>6. CASE u # Uid
    <3>1. u \notin missed
      BY Zenon, <2>1, <2>3, <2>6
    <3>2. Ended(u) /\ ~(pc = "deregister" /\ Uid = u)
      BY Zenon, <1>a, <2>3, <2>6, <3>1 DEF Exists
    <3>3. nodes'[u] = nodes[u]
      BY Zenon, <2>1, <2>4, <2>6 DEF DeregisterNodeAgent
    <3> QED
      BY Zenon, <2>2, <3>2, <3>3 DEF Ended, Settled, ToBeDelivered
  <2> QED
    BY Zenon, <2>5, <2>6
<1>6. CASE JobActions /\ ~DeregisterDeleted
  <2>1. JobStep /\ Uid \in Uids
    BY Zenon, <1>0, <1>6, JobSteps, JobTypes DEF JobStep
  <2>2. pods' = pods /\ made' = made /\ queue' = queue /\ pc # "idle"
        /\ (pc' # "idle" => job'.pod = job.pod)
    BY Zenon, <2>1 DEF JobStep
  <2>3. missed' = missed /\ pc # "deregister"
    BY Zenon, <1>6 DEF JobActions, ReadRegistrationState, MarkInProgress, CleanUp, RegisterNodeAgent,
                RunRegistrationScript, TouchMarkerFile, SetupWorkspaceContainer, MarkComplete,
                history
  <2>4. SUFFICES ASSUME NEW u \in 1..made, pods[u] = None, u \notin missed
                 PROVE  Ended(u)'
    BY Zenon, <1>b, <2>2, <2>3 DEF Exists
  <2>5. Settled(u) \/ ToBeDelivered(u)
    BY Zenon, <1>a, <2>3, <2>4 DEF Exists, Ended
  <2>6. CASE ToBeDelivered(u)
    BY Zenon, <2>2, <2>6 DEF Ended, ToBeDelivered
  <2>7. CASE Settled(u)
    <3>1. u # Uid
      BY Zenon, <2>2, <2>7 DEF Settled
    <3>2. nodes'[u] = nodes[u]
      BY Zenon, <1>0, <1>6, <3>1, JobNodes
    <3> QED
      BY Zenon, <2>2, <2>7, <3>2 DEF Ended, Settled, Uid
  <2> QED
    BY Zenon, <2>5, <2>6, <2>7
<1>7. CASE Crash
  <2>1. /\ pods' = pods /\ nodes' = nodes /\ made' = made /\ pc' = "idle" /\ queue' = <<>>
        /\ missed' = missed \cup {u \in 1..made : ~Exists(u) /\
                       ((pc # "idle" /\ u = Uid) \/ \E p \in Range(queue) : p.uid = u)}
    BY Zenon, <1>7 DEF Crash, Idle
  <2>2. SUFFICES ASSUME NEW u \in 1..made, pods[u] = None, u \notin missed'
                 PROVE  Ended(u)'
    BY Zenon, <1>b, <2>1 DEF Exists
  <2>3. u \notin missed /\ ~(pc # "idle" /\ u = Uid) /\ \A i \in 1..Len(queue) : queue[i].uid # u
    BY <1>0, <2>1, <2>2, QueueRange DEF Exists
  <2>4. nodes[u] = 0
    BY Zenon, <1>a, <2>2, <2>3 DEF Ended, Settled, ToBeDelivered, Exists
  <2> QED
    BY <2>1, <2>4 DEF Ended, Settled
<1>8. CASE Restart
  <2>1. /\ pods' = pods /\ nodes' = nodes /\ made' = made /\ missed' = missed
        /\ pc = "idle" /\ pc' = "idle" /\ queue = <<>>
    BY Zenon, <1>0, <1>8 DEF Restart, Shape, history
  <2>2. SUFFICES ASSUME NEW u \in 1..made, pods[u] = None, u \notin missed
                 PROVE  Ended(u)'
    BY Zenon, <1>b, <2>1 DEF Exists
  <2>3. nodes[u] = 0
    BY <1>a, <2>1, <2>2 DEF Ended, Settled, ToBeDelivered, Exists
  <2>4. \A i \in 1..Len(queue') : queue'[i].uid # u
    BY Zenon, <1>0, <1>8, <2>2, Listing DEF Exists
  <2> QED
    BY Zenon, <2>1, <2>3, <2>4 DEF Ended, Settled
<1>9. CASE Aside
  BY Zenon, <1>9 DEF Aside, Ending, Quiet, Exists, Uid, history
<1>10. ASSUME NEW u \in Uids, CorruptFile(u)
       PROVE  Ending'
  BY Zenon, <1>10 DEF CorruptFile, Ending, Quiet, Exists, Uid, history
<1>11. DeregisterDeleted => JobActions
  BY Zenon DEF JobActions
<1> QED
  BY Zenon, <1>0, <1>1, <1>2, <1>3, <1>4, <1>5, <1>6, <1>7, <1>8, <1>9, <1>10, <1>11, StepKinds

-----------------------------------------------------------------------------
(* One node of a pod *)

\* What a setup is for, by the state that was read.
LEMMA NeedSetupFacts ==
  ASSUME NEW state \in States \cup {None, Corrupted}, NEW p \in Pod
  PROVE  LET need == NeedSetup(state, p)
         IN /\ need.sidecar /\ ~need.cleanup => state = None
            /\ state \notin States => need.sidecar /\ need.workspace
            /\ state \in States =>
                 /\ need.sidecar <=> p.sidecar.restarts > state.sidecar
                 /\ need.workspace <=> p.workspace.restarts > state.workspace
<1>1. CASE state \in {None, Corrupted}
  BY Zenon, <1>1, MarksAssumption DEF NeedSetup
<1>2. CASE state \notin {None, Corrupted}
  BY Zenon, <1>2 DEF NeedSetup
<1> QED
  BY Zenon, <1>1, <1>2

\* The read, and what comes of it: nothing, or a setup for what was found.
LEMMA ReadSteps ==
  ASSUME Shape, ReadRegistrationState
  PROVE  /\ pc = "read" /\ UNCHANGED <<pods, file, agent, server, nodes, queue, up, made>>
         /\ \/ pc' = "idle"
            \/ \E state \in States \cup {None, Corrupted} :
                 /\ pc' = "mark" /\ job' = NeedSetup(state, job.pod)
                 /\ ~SetupInProgress(state)
                 /\ Uid \notin spoiled' => state = file[Uid] /\ Exists(Uid)
<1>1. pc = "read" /\ UNCHANGED <<pods, file, agent, server, nodes, queue, up, made>>
  BY Zenon DEF ReadRegistrationState
<1>2. PICK ok \in BOOLEAN :
        /\ Call(ok, Reachable(Uid, "sidecar"))
        /\ LET state == IF ok THEN file[Uid] ELSE None
               need == NeedSetup(state, job.pod)
           IN /\ IF ~SetupInProgress(state) /\ (need.sidecar \/ need.workspace)
                 THEN pc' = "mark" /\ job' = need
                 ELSE Idle
              /\ Spoil(~ok /\ (Exists(Uid) => file[Uid] # None))
  BY Zenon DEF ReadRegistrationState
<1> DEFINE state == IF ok THEN file[Uid] ELSE None
<1>3. state \in States \cup {None, Corrupted} /\ Reachable(Uid, "sidecar") \in BOOLEAN
  BY Zenon, <1>1, JobTypes DEF Parts
<1>4. Uid \notin spoiled' => state = file[Uid] /\ Exists(Uid)
  <2>1. CASE ok
    <3>1. Reachable(Uid, "sidecar")
      BY Zenon, <1>2, <2>1 DEF Call
    <3> QED
      BY Zenon, <2>1, <3>1 DEF Reachable
  <2>2. CASE ~ok
    <3>1. Exists(Uid) \in BOOLEAN
      BY Zenon DEF Exists
    <3>2. (Exists(Uid) => file[Uid] # None) => Uid \in spoiled'
      BY Zenon, <1>1, <1>2, <2>2, <3>1, SpoilType
    <3> QED
      BY Zenon, <2>2, <3>2
  <2> QED
    BY Zenon, <2>1, <2>2
<1>5. \/ pc' = "idle"
      \/ pc' = "mark" /\ job' = NeedSetup(state, job.pod) /\ ~SetupInProgress(state)
  BY Zenon, <1>2 DEF Idle
<1> HIDE DEF state
<1> QED
  BY Zenon, <1>1, <1>3, <1>4, <1>5

\* A failure of a call of the setup is noted.
LEMMA SpoiledBy ==
  ASSUME Shape, pc # "idle", NEW ok \in BOOLEAN, Spoil(~ok), Uid \notin spoiled'
  PROVE  ok
BY Zenon, SpoilType

\* At most one node of a pod, with what the file and the setup in work know of it.
LEMMA SingleKept ==
  ASSUME Copies, Budget, Single, [Next]_vars
  PROVE  Single'
<1>0. /\ Shape /\ made \in Nat /\ Uids \subseteq Nat /\ pods \in [Uids -> Pod \cup {None}]
      /\ nodes \in [Uids -> Nat] /\ file \in [Uids -> States \cup {None, Corrupted}]
  <2>1. Shape
    BY Zenon DEF Copies
  <2> QED
    BY SMTT(30), <2>1, Numbers DEF Shape
<1>1. CASE CreatePod
  <2>1. made + 1 \in Uids /\ pods' = [pods EXCEPT ![made + 1] = NewPod(made + 1)]
        /\ UNCHANGED <<nodes, file, pc, job, spoiled>>
    BY Zenon, <1>0, <1>1, CreateSteps DEF history
  <2>2. nodes[made + 1] = 0
    BY <1>0, <2>1 DEF Copies, Known
  <2>3. \A u \in Uids : u # made + 1 => pods'[u] = pods[u]
    BY Zenon, <1>0, <2>1
  <2> QED
    BY Zenon, <2>1, <2>2, <2>3 DEF Single, InSetup, Exists, Uid
<1>2. ASSUME \A u \in Uids : pods'[u] # None => pods[u] # None /\ (file[u] # None => file'[u] # None),
             UNCHANGED <<nodes, pc, job, spoiled>>
      PROVE  Single'
  BY <1>2 DEF Single, InSetup, Exists, Uid
<1>3. ASSUME NEW u \in Uids, NEW p \in Pod, PodStep(u, p)
      PROVE  Single'
  <2>1. pods' = [pods EXCEPT ![u] = p] /\ pods[u] # None /\ UNCHANGED <<nodes, file, pc, job, spoiled>>
    BY Zenon, <1>3 DEF PodStep, Exists, history
  <2>2. \A v \in Uids : pods'[v] # None => pods[v] # None /\ (file[v] # None => file'[v] # None)
    BY Zenon, <1>0, <2>1
  <2> QED
    BY Zenon, <1>2, <2>1, <2>2
<1>4. ASSUME NEW u \in Uids, PodGone(u)
      PROVE  Single'
  <2>1. pods' = [pods EXCEPT ![u] = None] /\ file' = [file EXCEPT ![u] = None]
        /\ UNCHANGED <<nodes, pc, job, spoiled>>
    BY Zenon, <1>0, <1>4, GoneSteps
  <2>2. \A v \in Uids : pods'[v] # None => pods[v] # None /\ (file[v] # None => file'[v] # None)
    BY Zenon, <1>0, <2>1
  <2> QED
    BY Zenon, <1>2, <2>1, <2>2
<1>5. ASSUME NEW u \in Uids, CorruptFile(u)
      PROVE  Single'
  <2>1. pods' = pods /\ file' = [file EXCEPT ![u] = Corrupted] /\ UNCHANGED <<nodes, pc, job, spoiled>>
    BY Zenon, <1>5 DEF CorruptFile, history
  <2>2. \A v \in Uids : pods'[v] # None => pods[v] # None /\ (file[v] # None => file'[v] # None)
    BY Zenon, <1>0, <2>1, MarksAssumption
  <2> QED
    BY Zenon, <1>2, <2>1, <2>2
<1>6. CASE Aside
  BY Zenon, <1>2, <1>6 DEF Aside, history
<1>7. ASSUME UNCHANGED <<pods, nodes, file>>, spoiled \subseteq spoiled', pc' \notin Setting,
             pc \in Setting => Uid \in spoiled'
      PROVE  Single'
  BY Zenon, <1>7 DEF Single, InSetup, Exists, Uid, Setting
<1>8. CASE HandleWorkspacePodEvents
  <2>1. TakeStep(Head(queue))
    BY Zenon, <1>0, <1>8, TakeSteps
  <2> QED
    BY Zenon, <1>7, <2>1 DEF TakeStep, Setting
<1>9. CASE Crash
  BY Zenon, <1>7, <1>9 DEF Crash, Idle, Setting
<1>10. CASE Restart
  BY Zenon, <1>0, <1>7, <1>10 DEF Restart, Shape, Setting, history
<1>11. ASSUME JobActions
       PROVE  Uid \in Uids /\ pods' = pods /\ spoiled \subseteq spoiled' /\ pc # "idle"
              /\ job.pod \in Pod /\ (pc' # "idle" => job'.pod = job.pod)
  BY Zenon, <1>0, <1>11, JobSteps, JobTypes, JobEffects DEF JobStep
\* Only the pod in work is concerned.
<1>12. ASSUME JobActions,
              \A u \in Uids : u # Uid => nodes'[u] = nodes[u] /\ file'[u] = file[u],
              Uid \notin spoiled' =>
                /\ nodes'[Uid] <= 1
                /\ pods[Uid] # None /\ nodes'[Uid] # 0 /\ pc' \notin Setting => file'[Uid] # None
                /\ pc' = "register" => nodes'[Uid] = 0
                /\ pc' = "mark" /\ job'.sidecar /\ ~job'.cleanup => nodes'[Uid] = 0
       PROVE  Single'
  <2>1. SUFFICES ASSUME NEW u \in Uids \ spoiled'
                 PROVE  /\ nodes'[u] <= 1
                        /\ pods[u] # None /\ nodes'[u] # 0 /\ ~(pc' \in Setting /\ job'.pod.uid = u)
                             => file'[u] # None
                        /\ pc' = "register" /\ job'.pod.uid = u => nodes'[u] = 0
                        /\ pc' = "mark" /\ job'.pod.uid = u /\ job'.sidecar /\ ~job'.cleanup
                             => nodes'[u] = 0
    BY Zenon, <1>11, <1>12 DEF Single, InSetup, Exists, Uid
  <2>2. CASE u = Uid
    BY Zenon, <1>11, <1>12, <2>1, <2>2 DEF Uid, Setting
  <2>3. CASE u # Uid
    BY Zenon, <1>11, <1>12, <2>1, <2>3 DEF Single, InSetup, Exists, Uid, Setting
  <2> QED
    BY Zenon, <2>2, <2>3
<1>13. CASE ReadRegistrationState
  <2>1. JobActions /\ pc = "read" /\ UNCHANGED <<pods, file, nodes>>
    BY Zenon, <1>0, <1>13, ReadSteps DEF JobActions
  <2>2. Uid \notin spoiled' =>
          /\ nodes[Uid] <= 1
          /\ pods[Uid] # None /\ nodes[Uid] # 0 => file[Uid] # None
    BY Zenon, <1>11, <2>1 DEF Single, InSetup, Exists, Setting
  <2>3. Uid \notin spoiled' /\ pc' = "mark" /\ job'.sidecar /\ ~job'.cleanup => nodes[Uid] = 0
    BY SMTT(30), <1>0, <1>11, <1>13, <2>1, <2>2, ReadSteps, NeedSetupFacts DEF Exists
  <2>4. pc' # "register"
    BY Zenon, <1>0, <1>13, ReadSteps
  <2> QED
    BY Zenon, <1>12, <2>1, <2>2, <2>3, <2>4
<1>14. CASE MarkInProgress
  <2>1. JobActions /\ pc = "mark" /\ nodes' = nodes /\ pc' \in Setting /\ pc' # "mark"
        /\ (pc' = "register" => job.sidecar /\ ~job.cleanup) /\ spoiled' = spoiled
    BY Zenon, <1>14 DEF MarkInProgress, JobActions, Setting, history
  <2>2. \A u \in Uids : u # Uid => file'[u] = file[u]
    BY Zenon, <1>0, <1>14, <2>1 DEF MarkInProgress, WriteRegistrationState
  <2>3. Uid \notin spoiled => nodes[Uid] <= 1 /\ (job.sidecar /\ ~job.cleanup => nodes[Uid] = 0)
    BY Zenon, <1>11, <2>1 DEF Single
  <2> QED
    BY Zenon, <1>12, <2>1, <2>2, <2>3
<1>15. CASE CleanUp
  <2>1. JobActions /\ pc = "cleanup" /\ pc' = "register" /\ file' = file
    BY Zenon, <1>15 DEF CleanUp, JobActions
  <2>2. PICK ok \in BOOLEAN : /\ IF ok THEN DeregisterNodeAgent ELSE UNCHANGED <<nodes, agent>>
                              /\ Spoil(~ok)
    BY Zenon, <1>15 DEF CleanUp
  <2>3. Uid \notin spoiled' => nodes'[Uid] = 0
    BY Zenon, <1>0, <1>11, <2>1, <2>2, SpoiledBy DEF DeregisterNodeAgent
  <2>4. \A u \in Uids : u # Uid => nodes'[u] = nodes[u]
    BY Zenon, <1>0, <2>1, JobNodes
  <2> QED
    BY <1>12, <2>1, <2>3, <2>4 DEF Setting
<1>16. CASE RegisterNodeAgent
  <2>1. JobActions /\ pc = "register" /\ pc' \in {"script", "final"} /\ file' = file
    BY Zenon, <1>16 DEF RegisterNodeAgent, JobActions
  <2>2. PICK ok \in BOOLEAN : /\ nodes' = IF ok THEN [nodes EXCEPT ![Uid] = @ + 1] ELSE nodes
                              /\ Spoil(~ok)
    BY Zenon, <1>16 DEF RegisterNodeAgent
  <2>3. Uid \notin spoiled' => nodes'[Uid] <= 1
    <3>1. Uid \notin spoiled' => nodes[Uid] = 0
      BY Zenon, <1>11, <2>1 DEF Single
    <3> QED
      BY <1>0, <1>11, <2>1, <2>2, <3>1
  <2>4. \A u \in Uids : u # Uid => nodes'[u] = nodes[u]
    BY Zenon, <1>0, <2>1, JobNodes
  <2> QED
    BY Zenon, <1>12, <2>1, <2>3, <2>4 DEF Setting
<1>17. CASE RunRegistrationScript \/ TouchMarkerFile \/ SetupWorkspaceContainer
  <2>1. JobActions /\ pc' \in {"marker", "server", "final"} /\ UNCHANGED <<file, nodes>>
    BY Zenon, <1>17 DEF RunRegistrationScript, TouchMarkerFile, SetupWorkspaceContainer, JobActions
  <2>2. Uid \notin spoiled' => nodes[Uid] <= 1
    BY Zenon, <1>11, <2>1 DEF Single
  <2> QED
    BY Zenon, <1>12, <2>1, <2>2 DEF Setting
<1>18. CASE MarkComplete
  <2>1. JobActions /\ pc = "final" /\ pc' = "idle" /\ nodes' = nodes
    BY Zenon, <1>18 DEF MarkComplete, JobActions, Idle
  <2>2. PICK ok \in BOOLEAN : WriteRegistrationState(ok, FALSE) /\ Spoil(~ok)
    BY Zenon, <1>18 DEF MarkComplete
  <2>3. \A u \in Uids : u # Uid => file'[u] = file[u]
    BY Zenon, <1>0, <2>2 DEF WriteRegistrationState
  <2>4. Uid \notin spoiled' => nodes[Uid] <= 1
    BY Zenon, <1>11, <2>1 DEF Single
  <2>5. Uid \notin spoiled' => file'[Uid] # None
    <3>1. RegistrationState(FALSE) # None
      BY Zenon, <1>0, <2>1, JobTypes, MarksAssumption
    <3>2. Uid \notin spoiled' => file' = [file EXCEPT ![Uid] = RegistrationState(FALSE)]
      BY Zenon, <1>0, <2>1, <2>2, SpoiledBy, WriteType
    <3> QED
      BY Zenon, <1>0, <1>11, <2>1, <3>1, <3>2
  <2> QED
    BY Zenon, <1>12, <2>1, <2>3, <2>4, <2>5
<1>19. CASE DeregisterDeleted
  <2>1. JobActions /\ pc = "deregister" /\ pc' = "idle" /\ file' = file
    BY Zenon, <1>19 DEF DeregisterDeleted, JobActions, Idle
  <2>2. \A u \in Uids : u # Uid => nodes'[u] = nodes[u]
    BY Zenon, <1>0, <2>1, JobNodes
  <2>3. nodes'[Uid] = 0 \/ nodes'[Uid] = nodes[Uid]
    BY Zenon, <1>0, <2>1, JobNodes
  <2>4. Uid \notin spoiled' =>
          /\ nodes[Uid] <= 1
          /\ pods[Uid] # None /\ nodes[Uid] # 0 => file[Uid] # None
    BY Zenon, <1>11, <2>1 DEF Single, InSetup, Exists, Setting
  <2> QED
    BY <1>12, <2>1, <2>2, <2>3, <2>4
<1> QED
  BY Zenon, <1>0, <1>1, <1>3, <1>4, <1>5, <1>6, <1>8, <1>9, <1>10, <1>13, <1>14, <1>15, <1>16, <1>17,
     <1>18, <1>19, StepKinds DEF JobActions

-----------------------------------------------------------------------------
(* The state on the volume *)

\* States count restarts.
LEMMA StateFields ==
  ASSUME NEW s \in States
  PROVE  s.sidecar \in Nat /\ s.workspace \in Nat /\ s.inProgress \in BOOLEAN
BY PodAssumption DEF States, Counts

\* The counts of a copy that started cover it.
LEMMA CoversSelf ==
  ASSUME Shape, JobFits, pc \in Setting, NEW b \in BOOLEAN
  PROVE  Covers(RegistrationState(b), job.pod)
<1>1. job.pod \in Pod /\ PodRunning(job.pod)
  BY Zenon, JobTypes DEF JobFits, Setting
<1>2. job.pod.sidecar.restarts \in Nat /\ job.pod.workspace.restarts \in Nat
  BY Zenon, <1>1, PodFields, CountFields
<1> QED
  BY <1>1, <1>2 DEF Covers, Reached, RegistrationState, PodRunning

\* Which files, agents and servers a step of the job may change.
LEMMA JobVolumes ==
  ASSUME Shape, JobActions
  PROVE  /\ \A u \in Uids : u # Uid =>
              file'[u] = file[u] /\ agent'[u] = agent[u] /\ server'[u] = server[u]
         /\ \/ file' = file
            \/ /\ pc \in Setting /\ Exists(Uid)
               /\ \E b \in BOOLEAN : file'[Uid] = RegistrationState(b)
<1>0. /\ file \in [Uids -> States \cup {None, Corrupted}] /\ agent \in [Uids -> BOOLEAN]
      /\ server \in [Uids -> BOOLEAN] /\ Uid \in Uids /\ pc # "idle"
  BY Zenon, JobSteps, JobTypes DEF JobStep, Shape
<1>1. ASSUME NEW ok \in BOOLEAN, NEW b \in BOOLEAN, WriteRegistrationState(ok, b), pc \in Setting
      PROVE  /\ \A u \in Uids : u # Uid => file'[u] = file[u]
             /\ \/ file' = file
                \/ pc \in Setting /\ Exists(Uid) /\ file'[Uid] = RegistrationState(b)
  BY Zenon, <1>0, <1>1, WriteType DEF Reachable
<1>2. CASE MarkInProgress
  <2>1. UNCHANGED <<agent, server>> /\ pc \in Setting
    BY Zenon, <1>2 DEF MarkInProgress, Setting
  <2> QED
    BY Zenon, <1>1, <1>2, <2>1 DEF MarkInProgress
<1>3. CASE MarkComplete
  <2>1. UNCHANGED <<agent, server>> /\ pc \in Setting
    BY Zenon, <1>3 DEF MarkComplete, Setting
  <2> QED
    BY Zenon, <1>1, <1>3, <2>1 DEF MarkComplete
<1>4. CASE CleanUp \/ DeregisterDeleted
  BY Zenon, <1>0, <1>4 DEF CleanUp, DeregisterDeleted, DeregisterNodeAgent
<1>5. CASE RunRegistrationScript
  BY Zenon, <1>0, <1>5 DEF RunRegistrationScript
<1>6. CASE SetupWorkspaceContainer
  BY Zenon, <1>0, <1>6 DEF SetupWorkspaceContainer
<1>7. CASE ReadRegistrationState \/ RegisterNodeAgent \/ TouchMarkerFile
  BY Zenon, <1>7 DEF ReadRegistrationState, RegisterNodeAgent, TouchMarkerFile
<1> QED
  BY Zenon, <1>2, <1>3, <1>4, <1>5, <1>6, <1>7 DEF JobActions

\* No file counts a restart that a copy still to be seen lacks.
LEMMA FilesKept ==
  ASSUME Copies, Budget, FilesOld, [Next]_vars
  PROVE  FilesOld'
<1>0. /\ Shape /\ made \in Nat /\ Uids \subseteq Nat /\ pods \in [Uids -> Pod \cup {None}]
      /\ queue \in Seq(Pod) /\ file \in [Uids -> States \cup {None, Corrupted}]
  <2>1. Shape
    BY Zenon DEF Copies
  <2> QED
    BY SMTT(30), <2>1, Numbers DEF Shape
<1>1. CASE CreatePod
  <2>1. made + 1 \in Uids /\ NewPod(made + 1) \in Pod /\ NewPod(made + 1).uid = made + 1
        /\ pods' = [pods EXCEPT ![made + 1] = NewPod(made + 1)]
        /\ (queue' = queue \/ queue' = queue \o <<NewPod(made + 1)>>)
        /\ UNCHANGED <<file, pc, job>>
    BY Zenon, <1>0, <1>1, CreateSteps, NewPodType
  <2>2. file[made + 1] = None /\ file[made + 1] \notin States
    BY <1>0, <2>1, MarksAssumption DEF Copies, Known, FilesOld
  <2>3. \A i \in 1..Len(queue') :
          (i \in 1..Len(queue) /\ queue'[i] = queue[i]) \/ queue'[i] = NewPod(made + 1)
    BY <1>0, <2>1, AppendingOne
  <2>4. \A u \in Uids : u # made + 1 => pods'[u] = pods[u]
    BY Zenon, <1>0, <2>1
  <2> QED
    BY <2>1, <2>2, <2>3, <2>4 DEF FilesOld, InWork, Exists, Uid
<1>2. ASSUME NEW u \in Uids, NEW p \in Pod, PodStep(u, p)
      PROVE  FilesOld'
  <2>1. pods[u] # None /\ pods[u] \in Pod /\ pods[u].uid = u /\ p.uid = u /\ Follows(pods[u], p)
    BY Zenon, <1>0, <1>2, ExistingPod DEF PodStep, Exists
  <2>2. UNCHANGED <<file, pc, job>> /\ pods' = [pods EXCEPT ![u] = p]
    BY Zenon, <1>2 DEF PodStep
  <2>3. file[u] \in States => Covers(file[u], pods[u]) /\ Covers(file[u], p)
    BY Zenon, <2>1, CoversFollows DEF FilesOld
  <2>4. \A v \in Uids : /\ pods'[v] = None => file[v] = None
                        /\ file[v] \in States => Covers(file[v], pods'[v])
    BY Zenon, <1>0, <2>1, <2>2, <2>3, MarksAssumption DEF FilesOld, Exists
  <2>5. \A v \in Uids : file[v] \in States =>
          \A i \in 1..Len(queue') : queue'[i].uid = v => Covers(file[v], queue'[i])
    BY SMTT(30), <1>0, <1>2, <2>1, <2>3, NewCopies DEF FilesOld
  <2> QED
    BY Zenon, <2>2, <2>4, <2>5 DEF FilesOld, InWork, Exists, Uid
<1>3. ASSUME NEW u \in Uids, PodGone(u)
      PROVE  FilesOld'
  <2>1. /\ pods[u] \in Pod /\ pods[u].uid = u /\ pods' = [pods EXCEPT ![u] = None]
        /\ file' = [file EXCEPT ![u] = None]
        /\ queue' = queue \/ queue' = queue \o <<pods[u]>>
        /\ pc' = pc /\ job' = job
    BY Zenon, <1>0, <1>3, GoneSteps
  <2>2. \A i \in 1..Len(queue') :
          (i \in 1..Len(queue) /\ queue'[i] = queue[i]) \/ queue'[i] = pods[u]
    BY <1>0, <2>1, AppendingOne
  <2>3. file'[u] = None /\ None \notin States
        /\ \A v \in Uids : v # u => pods'[v] = pods[v] /\ file'[v] = file[v]
    BY Zenon, <1>0, <2>1, MarksAssumption
  <2> QED
    BY SMTT(30), <2>1, <2>2, <2>3 DEF FilesOld, InWork, Exists, Uid
<1>4. ASSUME NEW u \in Uids, CorruptFile(u)
      PROVE  FilesOld'
  <2>1. UNCHANGED <<pods, queue, pc, job>> /\ file' = [file EXCEPT ![u] = Corrupted] /\ Exists(u)
    BY Zenon, <1>4 DEF CorruptFile
  <2>2. file'[u] \notin States /\ \A v \in Uids : v # u => file'[v] = file[v]
    BY Zenon, <1>0, <2>1, MarksAssumption
  <2> QED
    BY Zenon, <2>1, <2>2 DEF FilesOld, InWork, Exists, Uid
<1>5. CASE HandleWorkspacePodEvents
  <2>1. TakeStep(Head(queue))
    BY Zenon, <1>0, <1>5, TakeSteps
  <2>2. /\ Head(queue) = queue[1] /\ 1 \in 1..Len(queue)
        /\ \A i \in 1..Len(queue') : queue'[i] = queue[i + 1] /\ i + 1 \in 1..Len(queue)
    BY Zenon, <1>0, <2>1, Taking DEF TakeStep
  <2>3. pods' = pods /\ file' = file /\ (pc' # "idle" => job'.pod = queue[1])
    BY Zenon, <2>1, <2>2 DEF TakeStep
  <2> QED
    BY SMTT(30), <2>2, <2>3 DEF FilesOld, InWork, Exists, Uid
<1>6. CASE JobActions
  <2>1. JobStep /\ job.pod \in Pod /\ Uid \in Uids
    BY Zenon, <1>0, <1>6, JobSteps, JobTypes DEF JobStep
  <2>2. pods' = pods /\ queue' = queue /\ pc # "idle" /\ (pc' # "idle" => job'.pod = job.pod)
    BY Zenon, <2>1 DEF JobStep
  <2>3. CASE file' = file
    BY Zenon, <2>2, <2>3 DEF FilesOld, InWork, Exists, Uid
  <2>4. ASSUME pc \in Setting, Exists(Uid), NEW b \in BOOLEAN, file'[Uid] = RegistrationState(b)
        PROVE  FilesOld'
    <3> DEFINE s == RegistrationState(b)
    <3>1. s \in States /\ Covers(s, job.pod)
      BY Zenon, <1>0, <2>2, <2>4, JobTypes, CoversSelf DEF Copies
    <3> HIDE DEF s
    <3>2. Covers(s, pods[Uid])
      BY Zenon, <1>0, <2>1, <2>2, <2>4, <3>1, ExistingPod, CoversFollows DEF Copies, InOrder, Uid
    <3>3. \A i \in 1..Len(queue) : queue[i].uid = Uid => Covers(s, queue[i])
      BY Zenon, <1>0, <2>1, <2>2, <3>1, QueuedPods, CoversFollows DEF Copies, InOrder, Uid
    <3>4. file'[Uid] = s /\ \A u \in Uids : u # Uid => file'[u] = file[u]
      BY Zenon, <1>0, <1>6, <2>4, JobVolumes DEF s
    <3>5. \A u \in Uids :
            /\ pods[u] = None => file'[u] = None
            /\ file'[u] \in States =>
                 /\ Covers(file'[u], pods[u])
                 /\ \A i \in 1..Len(queue) : queue[i].uid = u => Covers(file'[u], queue[i])
                 /\ job.pod.uid = u => Covers(file'[u], job.pod)
      <4>1. SUFFICES ASSUME NEW u \in Uids
                     PROVE  /\ pods[u] = None => file'[u] = None
                            /\ file'[u] \in States =>
                                 /\ Covers(file'[u], pods[u])
                                 /\ \A i \in 1..Len(queue) : queue[i].uid = u => Covers(file'[u], queue[i])
                                 /\ job.pod.uid = u => Covers(file'[u], job.pod)
        BY Zenon
      <4>2. CASE u = Uid
        BY Zenon, <2>4, <3>1, <3>2, <3>3, <3>4, <4>2 DEF Exists
      <4>3. CASE u # Uid
        BY Zenon, <2>2, <3>4, <4>3 DEF FilesOld, InWork, Exists, Uid
      <4> QED
        BY Zenon, <4>2, <4>3
    <3> QED
      BY Zenon, <2>2, <3>5 DEF FilesOld, InWork, Exists, Uid
  <2> QED
    BY <1>0, <1>6, <2>3, <2>4, JobVolumes
<1>7. CASE Crash
  BY SMTT(30), <1>7 DEF Crash, Idle, FilesOld, InWork, Exists
<1>8. CASE Restart
  <2>1. pc' = "idle" /\ pods' = pods /\ file' = file
    BY Zenon, <1>0, <1>8 DEF Restart, Shape
  <2>2. \A i \in 1..Len(queue') :
          \E u \in Uids : pods[u] # None /\ queue'[i] = pods[u] /\ queue'[i].uid = u
    BY Zenon, <1>0, <1>8, Listing DEF Exists
  <2> QED
    BY SMTT(30), <2>1, <2>2 DEF FilesOld, InWork, Exists
<1>9. CASE Aside
  BY Zenon, <1>9 DEF Aside, FilesOld, InWork, Exists, Uid
<1> QED
  BY Zenon, <1>0, <1>1, <1>2, <1>3, <1>4, <1>5, <1>6, <1>7, <1>8, <1>9, StepKinds

\* StateTrue, by pods.
LEMMA StateTrueOf ==
  StateTrue <=> \A u \in Uids \ spoiled : TrueOf(pods[u], file[u], agent[u], server[u])
BY Zenon DEF StateTrue, TrueOf, Runs, Reachable, Exists

\* A container that runs with a count that an earlier copy had reached ran in that copy.
LEMMA RunsBefore ==
  ASSUME NEW p \in Pod, NEW q \in Pod, p.uid = q.uid, Follows(p, q),
         NEW c \in Parts, NEW n \in Nat, Reached(n, p[c]), Runs(q, c, n)
  PROVE  Runs(p, c, n)
<1>1. p[c] \in Containers /\ q[c] \in Containers /\ Later(p[c], q[c])
  BY Zenon, PodFields DEF Follows, Parts
<1> QED
  BY Zenon, <1>1, SameCount DEF Runs, IsContainerRunning

\* A setup's copy has counts that the pod has reached.
LEMMA JobReached ==
  ASSUME Copies, pc \in Setting, Exists(Uid)
  PROVE  /\ pods[Uid] \in Pod /\ pods[Uid].uid = Uid /\ Follows(job.pod, pods[Uid])
         /\ \A c \in Parts :
              /\ job.pod[c].restarts \in Nat /\ Reached(job.pod[c].restarts, pods[Uid][c])
              /\ job.pod[c].restarts <= pods[Uid][c].restarts
              /\ Runs(pods[Uid], c, job.pod[c].restarts) => IsContainerRunning(job.pod[c])
<1>1. job.pod \in Pod /\ Uid \in Uids /\ PodRunning(job.pod) /\ pc # "idle"
  BY Zenon, JobTypes DEF Copies, JobFits, Setting
<1>2. pods[Uid] \in Pod /\ pods[Uid].uid = Uid /\ Follows(job.pod, pods[Uid]) /\ job.pod.uid = Uid
  BY Zenon, <1>1, ExistingPod DEF Copies, InOrder, Uid
<1>3. SUFFICES ASSUME NEW c \in Parts
               PROVE  /\ job.pod[c].restarts \in Nat /\ Reached(job.pod[c].restarts, pods[Uid][c])
                      /\ job.pod[c].restarts <= pods[Uid][c].restarts
                      /\ Runs(pods[Uid], c, job.pod[c].restarts) => IsContainerRunning(job.pod[c])
  BY Zenon, <1>2
<1>4. /\ job.pod[c] \in Containers /\ pods[Uid][c] \in Containers /\ Later(job.pod[c], pods[Uid][c])
      /\ job.pod[c].state # "waiting"
  BY Zenon, <1>1, <1>2, PodFields DEF Follows, Parts, PodRunning
<1>5. job.pod[c].restarts \in Nat /\ Reached(job.pod[c].restarts, pods[Uid][c])
  BY Zenon, <1>4, ReachedStarted, CountFields
<1>6. Runs(pods[Uid], c, job.pod[c].restarts) => IsContainerRunning(job.pod[c])
  BY Zenon, <1>4, NotRunning DEF Runs, IsContainerRunning
<1> QED
  BY Zenon, <1>5, <1>6 DEF Reached

\* A change of a pod keeps its state true: what it says of containers that run was true
\* before.
LEMMA PodStepTrue ==
  ASSUME Copies, FilesOld, StateTrue, NEW u \in Uids, NEW p \in Pod, PodStep(u, p)
  PROVE  StateTrue'
<1>1. Shape /\ pods[u] # None /\ pods[u] \in Pod /\ pods[u].uid = u /\ p.uid = u /\ Follows(pods[u], p)
  BY Zenon, ExistingPod DEF PodStep, Exists, Copies
<1>2. /\ pods \in [Uids -> Pod \cup {None}] /\ agent \in [Uids -> BOOLEAN]
      /\ server \in [Uids -> BOOLEAN]
  BY Zenon, <1>1 DEF Shape
<1>3. UNCHANGED <<file, spoiled>> /\ pods' = [pods EXCEPT ![u] = p]
  BY Zenon DEF PodStep, history
<1>4. \A v \in Uids : v # u => pods'[v] = pods[v] /\ agent'[v] = agent[v] /\ server'[v] = server[v]
  BY Zenon, <1>2, <1>3 DEF PodStep
<1>5. /\ pods'[u] = p
      /\ IsContainerRunning(p.sidecar) => agent'[u] = agent[u]
      /\ IsContainerRunning(p.workspace) => server'[u] = server[u]
  BY Zenon, <1>2, <1>3 DEF PodStep
<1>6. ASSUME u \notin spoiled
      PROVE  TrueOf(p, file[u], agent'[u], server'[u])
  <2>1. SUFFICES ASSUME ~p.deleting, file[u] \in States, ~file[u].inProgress
                 PROVE  /\ Runs(p, "sidecar", file[u].sidecar) => agent'[u]
                        /\ Runs(p, "workspace", file[u].workspace) => server'[u]
    BY Zenon DEF TrueOf
  <2>2. TrueOf(pods[u], file[u], agent[u], server[u]) /\ ~pods[u].deleting
    BY Zenon, <1>1, <1>6, <2>1, StateTrueOf DEF Follows
  <2>3. /\ Runs(pods[u], "sidecar", file[u].sidecar) => agent[u]
        /\ Runs(pods[u], "workspace", file[u].workspace) => server[u]
    BY Zenon, <1>1, <2>1, <2>2 DEF TrueOf
  <2>4. /\ Reached(file[u].sidecar, pods[u].sidecar) /\ Reached(file[u].workspace, pods[u].workspace)
        /\ file[u].sidecar \in Nat /\ file[u].workspace \in Nat
    BY Zenon, <2>1, StateFields DEF FilesOld, Covers
  <2>5. Runs(p, "sidecar", file[u].sidecar) => Runs(pods[u], "sidecar", file[u].sidecar)
    BY Zenon, <1>1, <2>4, RunsBefore DEF Parts
  <2>6. Runs(p, "workspace", file[u].workspace) => Runs(pods[u], "workspace", file[u].workspace)
    BY Zenon, <1>1, <2>4, RunsBefore DEF Parts
  <2> QED
    BY Zenon, <1>5, <2>3, <2>5, <2>6 DEF Runs
<1>7. \A v \in Uids \ spoiled : TrueOf(pods'[v], file[v], agent'[v], server'[v])
  BY Zenon, <1>4, <1>5, <1>6, StateTrueOf
<1> QED
  BY Zenon, <1>3, <1>7, StateTrueOf DEF StateTrue, TrueOf, Runs, Reachable, Exists

\* And what a setup has done of it.
LEMMA PodStepDone ==
  ASSUME Copies, Progress, NEW u \in Uids, NEW p \in Pod, PodStep(u, p)
  PROVE  Progress'
<1>1. Shape /\ pods[u] # None /\ pods[u] \in Pod /\ pods[u].uid = u /\ p.uid = u /\ Follows(pods[u], p)
  BY Zenon, ExistingPod DEF PodStep, Exists, Copies
<1>2. /\ pods \in [Uids -> Pod \cup {None}] /\ agent \in [Uids -> BOOLEAN]
      /\ server \in [Uids -> BOOLEAN]
  BY Zenon, <1>1 DEF Shape
<1>3. UNCHANGED <<file, spoiled, pc, job>> /\ pods' = [pods EXCEPT ![u] = p]
  BY Zenon DEF PodStep, history
<1>4. /\ pods'[u] = p
      /\ IsContainerRunning(p.sidecar) => agent'[u] = agent[u]
      /\ IsContainerRunning(p.workspace) => server'[u] = server[u]
  BY Zenon, <1>2, <1>3 DEF PodStep
<1>5. SUFFICES ASSUME pc \in Setting, Uid \notin spoiled
               PROVE  DoneOf(pods'[Uid], file[Uid], agent'[Uid], server'[Uid], pc, job)
  BY Zenon, <1>3 DEF Progress, Uid
<1>6. Uid \in Uids /\ DoneOf(pods[Uid], file[Uid], agent[Uid], server[Uid], pc, job)
  BY Zenon, <1>1, <1>5, JobTypes DEF Progress, Setting
<1>7. CASE Uid # u
  <2>1. pods'[Uid] = pods[Uid] /\ agent'[Uid] = agent[Uid] /\ server'[Uid] = server[Uid]
    BY Zenon, <1>2, <1>3, <1>6, <1>7 DEF PodStep
  <2> QED
    BY Zenon, <1>6, <2>1
<1>8. CASE Uid = u
  <2>1. SUFFICES ASSUME ~p.deleting
                 PROVE  DoneOf(p, file[u], agent'[u], server'[u], pc, job)
    BY Zenon, <1>4, <1>8 DEF DoneOf
  <2>2. ~pods[u].deleting
    BY Zenon, <1>1, <2>1 DEF Follows
  <2>3. \A c \in Parts : job.pod[c].restarts \in Nat /\ Reached(job.pod[c].restarts, pods[u][c])
    BY Zenon, <1>1, <1>5, <1>8, JobReached DEF Exists
  <2>4. \A c \in Parts : Runs(p, c, job.pod[c].restarts) => Runs(pods[u], c, job.pod[c].restarts)
    BY Zenon, <1>1, <2>3, RunsBefore
  <2>5. /\ Runs(p, "sidecar", job.pod.sidecar.restarts) =>
             Runs(pods[u], "sidecar", job.pod.sidecar.restarts) /\ agent'[u] = agent[u]
        /\ Runs(p, "workspace", job.pod.workspace.restarts) =>
             Runs(pods[u], "workspace", job.pod.workspace.restarts) /\ server'[u] = server[u]
    BY Zenon, <1>4, <2>4 DEF Parts, Runs
  <2> QED
    BY Zenon, <1>1, <1>6, <1>8, <2>2, <2>5 DEF DoneOf
<1> QED
  BY Zenon, <1>7, <1>8

\* A step of the job keeps the states true, and what it has done, when it does so for the
\* pod in work.
LEMMA JobStepTrue ==
  ASSUME Copies, StateTrue, JobActions,
         Uid \notin spoiled' => TrueOf(pods[Uid], file'[Uid], agent'[Uid], server'[Uid]),
         pc' = "cleanup" => job'.sidecar,
         pc' \in Setting /\ Uid \notin spoiled' =>
           DoneOf(pods[Uid], file'[Uid], agent'[Uid], server'[Uid], pc', job')
  PROVE  StateTrue' /\ Progress'
<1>1. Shape /\ pods' = pods /\ spoiled \subseteq spoiled' /\ (pc' # "idle" => job'.pod = job.pod)
  BY Zenon, JobSteps, JobEffects DEF Copies, JobStep
<1>2. \A u \in Uids \ spoiled' : TrueOf(pods[u], file'[u], agent'[u], server'[u])
  <2>1. SUFFICES ASSUME NEW u \in Uids \ spoiled'
                 PROVE  TrueOf(pods[u], file'[u], agent'[u], server'[u])
    BY Zenon
  <2>2. CASE u = Uid
    BY Zenon, <2>1, <2>2
  <2>3. CASE u # Uid
    <3>1. file'[u] = file[u] /\ agent'[u] = agent[u] /\ server'[u] = server[u] /\ u \notin spoiled
      BY Zenon, <1>1, <2>1, <2>3, JobVolumes
    <3> QED
      BY Zenon, <2>1, <3>1, StateTrueOf
  <2> QED
    BY Zenon, <2>2, <2>3
<1>3. StateTrue'
  BY Zenon, <1>1, <1>2 DEF StateTrue, TrueOf, Runs, Reachable, Exists
<1>4. Progress'
  BY Zenon, <1>1 DEF Progress, Uid, Setting
<1> QED
  BY Zenon, <1>3, <1>4

\* The read finds out what is done and what is not.
LEMMA ReadTrue ==
  ASSUME Copies, FilesOld, StateTrue, ReadRegistrationState
  PROVE  StateTrue' /\ Progress'
<1>1. Shape /\ JobActions /\ pc = "read" /\ UNCHANGED <<pods, file, agent, server>>
  BY Zenon, ReadSteps DEF Copies, JobActions
<1>2. Uid \in Uids /\ job.pod \in Pod /\ spoiled \subseteq spoiled'
  BY Zenon, <1>1, JobTypes, JobEffects
<1>3. Uid \notin spoiled' => TrueOf(pods[Uid], file[Uid], agent[Uid], server[Uid])
  BY Zenon, <1>2, StateTrueOf
<1>4. CASE pc' = "idle"
  BY Zenon, <1>1, <1>3, <1>4, JobStepTrue DEF Setting
<1>5. ASSUME NEW state \in States \cup {None, Corrupted}, pc' = "mark",
             job' = NeedSetup(state, job.pod), ~SetupInProgress(state),
             Uid \notin spoiled' => state = file[Uid] /\ Exists(Uid)
      PROVE  StateTrue' /\ Progress'
  <2>1. ASSUME Uid \notin spoiled'
        PROVE  DoneOf(pods[Uid], file[Uid], agent[Uid], server[Uid], pc', job')
    <3>1. state = file[Uid] /\ pods[Uid] # None
      BY Zenon, <1>5, <2>1 DEF Exists
    <3>2. SUFFICES ASSUME ~pods[Uid].deleting
                   PROVE  /\ ~job'.sidecar =>
                               (Runs(pods[Uid], "sidecar", job.pod.sidecar.restarts) => agent[Uid])
                          /\ ~job'.workspace =>
                               (Runs(pods[Uid], "workspace", job.pod.workspace.restarts) => server[Uid])
                          /\ state \in States /\ job'.sidecar
                               => state.sidecar < job.pod.sidecar.restarts
      BY Zenon, <1>2, <1>5, <3>1, NeedSetupType DEF DoneOf
    <3>3. CASE state \notin States
      BY Zenon, <1>2, <1>5, <3>3, NeedSetupFacts
    <3>4. CASE state \in States
      <4>1. /\ job'.sidecar <=> job.pod.sidecar.restarts > state.sidecar
            /\ job'.workspace <=> job.pod.workspace.restarts > state.workspace
        BY Zenon, <1>2, <1>5, <3>4, NeedSetupFacts
      <4>2. Covers(state, job.pod)
        BY Zenon, <1>1, <1>2, <3>1, <3>4 DEF FilesOld, InWork
      <4>3. /\ state.sidecar \in Nat /\ state.workspace \in Nat
            /\ job.pod.sidecar.restarts \in Nat /\ job.pod.workspace.restarts \in Nat
        BY Zenon, <1>2, <3>4, StateFields, PodFields, CountFields
      <4>4. /\ ~job'.sidecar => job.pod.sidecar.restarts = state.sidecar
            /\ ~job'.workspace => job.pod.workspace.restarts = state.workspace
            /\ job'.sidecar => state.sidecar < job.pod.sidecar.restarts
        BY SMTT(30), <4>1, <4>2, <4>3 DEF Covers, Reached
      <4>5. /\ Runs(pods[Uid], "sidecar", state.sidecar) => agent[Uid]
            /\ Runs(pods[Uid], "workspace", state.workspace) => server[Uid]
        BY Zenon, <1>3, <1>5, <2>1, <3>1, <3>2, <3>4 DEF TrueOf, SetupInProgress
      <4> QED
        BY Zenon, <4>4, <4>5
    <3> QED
      BY Zenon, <3>3, <3>4
  <2> QED
    BY Zenon, <1>1, <1>3, <1>5, <2>1, JobStepTrue
<1> QED
  BY Zenon, <1>1, <1>4, <1>5, ReadSteps

\* The steps of a setup and of a deregistration.
LEMMA SetupTrue ==
  ASSUME Copies, StateTrue, Progress, JobActions, ~ReadRegistrationState
  PROVE  StateTrue' /\ Progress'
<1>0. /\ Shape /\ Uid \in Uids /\ job.pod \in Pod /\ spoiled \subseteq spoiled' /\ pc # "idle"
      /\ file \in [Uids -> States \cup {None, Corrupted}] /\ agent \in [Uids -> BOOLEAN]
      /\ server \in [Uids -> BOOLEAN]
  <2>1. Shape
    BY Zenon DEF Copies
  <2>2. pc # "idle"
    BY Zenon, <2>1, JobSteps DEF JobStep
  <2> QED
    BY Zenon, <2>1, <2>2, JobTypes, JobEffects DEF Shape
<1>1. Uid \notin spoiled' => TrueOf(pods[Uid], file[Uid], agent[Uid], server[Uid])
  BY Zenon, <1>0, StateTrueOf
<1>2. pc \in Setting /\ Uid \notin spoiled' =>
        DoneOf(pods[Uid], file[Uid], agent[Uid], server[Uid], pc, job)
  BY Zenon, <1>0 DEF Progress
<1>3. CASE MarkInProgress
  <2>1. PICK ok \in BOOLEAN : WriteRegistrationState(ok, TRUE)
    BY Zenon, <1>3 DEF MarkInProgress
  <2>2. pc = "mark" /\ job' = job /\ UNCHANGED <<agent, server>>
        /\ pc' = IF ~job.sidecar THEN "server" ELSE IF job.cleanup THEN "cleanup" ELSE "register"
    BY Zenon, <1>3 DEF MarkInProgress
  <2>3. file'[Uid] = file[Uid] \/ (file'[Uid] \in States /\ file'[Uid].inProgress)
    <3>1. RegistrationState(TRUE) \in States /\ RegistrationState(TRUE).inProgress
      BY Zenon, <1>0, JobTypes DEF RegistrationState
    <3> QED
      BY Zenon, <1>0, <2>1, <3>1, WriteType
  <2>4. Uid \notin spoiled' => TrueOf(pods[Uid], file'[Uid], agent'[Uid], server'[Uid])
    BY Zenon, <1>1, <2>2, <2>3 DEF TrueOf
  <2>5. Uid \notin spoiled' => DoneOf(pods[Uid], file'[Uid], agent'[Uid], server'[Uid], pc', job')
    <3>1. pc \in Setting
      BY Zenon, <2>2 DEF Setting
    <3>2. pc' \in {"server", "cleanup", "register"} /\ (pc' = "server" => ~job.sidecar)
      BY Zenon, <2>2
    <3> QED
      BY Zenon, <1>2, <2>2, <2>3, <3>1, <3>2 DEF DoneOf
  <2>6. pc' = "cleanup" => job'.sidecar
    BY Zenon, <2>2
  <2> QED
    BY Zenon, <2>4, <2>5, <2>6, JobStepTrue
<1>4. CASE CleanUp
  <2>1. PICK ok \in BOOLEAN : /\ IF ok THEN DeregisterNodeAgent ELSE UNCHANGED <<nodes, agent>>
                              /\ Spoil(~ok)
    BY Zenon, <1>4 DEF CleanUp
  <2>2. pc = "cleanup" /\ pc' = "register" /\ UNCHANGED <<job, file, server>> /\ pc \in Setting
        /\ job.sidecar
    BY Zenon, <1>4 DEF CleanUp, Setting, Progress
  <2>3. ASSUME Uid \notin spoiled', pods[Uid] # None, ~pods[Uid].deleting,
               file[Uid] \in States, ~file[Uid].inProgress
        PROVE  pods[Uid].sidecar.restarts # file[Uid].sidecar
    <3>1. file[Uid].sidecar < job.pod.sidecar.restarts
      BY Zenon, <1>2, <2>2, <2>3 DEF DoneOf
    <3>2. job.pod.sidecar.restarts <= pods[Uid].sidecar.restarts
      BY Zenon, <2>2, <2>3, JobReached DEF Parts, Exists
    <3>3. /\ file[Uid].sidecar \in Nat /\ job.pod.sidecar.restarts \in Nat
          /\ pods[Uid].sidecar.restarts \in Nat
      BY Zenon, <1>0, <2>3, StateFields, ExistingPod, PodFields, CountFields DEF Exists
    <3> QED
      BY <3>1, <3>2, <3>3
  <2>4. Uid \notin spoiled' => TrueOf(pods[Uid], file'[Uid], agent'[Uid], server'[Uid])
    BY Zenon, <1>1, <2>2, <2>3 DEF TrueOf, Runs
  <2>5. Uid \notin spoiled' => DoneOf(pods[Uid], file'[Uid], agent'[Uid], server'[Uid], pc', job')
    BY Zenon, <1>2, <2>2 DEF DoneOf
  <2> QED
    BY Zenon, <2>2, <2>4, <2>5, JobStepTrue
<1>5. CASE RegisterNodeAgent
  <2>1. PICK ok \in BOOLEAN : pc' = (IF ok THEN "script" ELSE "final") /\ Spoil(~ok)
    BY Zenon, <1>5 DEF RegisterNodeAgent
  <2>2. pc = "register" /\ UNCHANGED <<job, file, agent, server>> /\ pc \in Setting
    BY Zenon, <1>5 DEF RegisterNodeAgent, Setting
  <2>3. Uid \notin spoiled' => pc' = "script"
    BY Zenon, <1>0, <2>1, SpoiledBy
  <2>4. Uid \notin spoiled' => DoneOf(pods[Uid], file'[Uid], agent'[Uid], server'[Uid], pc', job')
    BY Zenon, <1>2, <2>2, <2>3 DEF DoneOf
  <2> QED
    BY Zenon, <1>1, <2>1, <2>2, <2>4, JobStepTrue
<1>6. CASE RunRegistrationScript
  <2>1. PICK ok \in BOOLEAN : /\ pc' = (IF ok THEN "marker" ELSE "final") /\ Spoil(~ok)
                              /\ agent' = IF ok THEN [agent EXCEPT ![Uid] = TRUE] ELSE agent
    BY Zenon, <1>6 DEF RunRegistrationScript
  <2>2. pc = "script" /\ UNCHANGED <<job, file, server>> /\ pc \in Setting
    BY Zenon, <1>6 DEF RunRegistrationScript, Setting
  <2>3. Uid \notin spoiled' => pc' = "marker" /\ agent'[Uid]
    BY Zenon, <1>0, <2>1, SpoiledBy
  <2>4. Uid \notin spoiled' => TrueOf(pods[Uid], file'[Uid], agent'[Uid], server'[Uid])
    BY Zenon, <1>1, <2>2, <2>3 DEF TrueOf
  <2>5. Uid \notin spoiled' => DoneOf(pods[Uid], file'[Uid], agent'[Uid], server'[Uid], pc', job')
    BY Zenon, <1>2, <2>2, <2>3 DEF DoneOf
  <2> QED
    BY Zenon, <2>1, <2>2, <2>4, <2>5, JobStepTrue
<1>7. CASE TouchMarkerFile
  <2>1. PICK ok \in BOOLEAN : /\ pc' = (IF ok /\ job.workspace THEN "server" ELSE "final")
                              /\ Spoil(~ok)
    BY Zenon, <1>7 DEF TouchMarkerFile
  <2>2. pc = "marker" /\ UNCHANGED <<job, file, agent, server>> /\ pc \in Setting
    BY Zenon, <1>7 DEF TouchMarkerFile, Setting
  <2>3. Uid \notin spoiled' => pc' = "server" \/ (pc' = "final" /\ ~job.workspace)
    BY Zenon, <1>0, <2>1, SpoiledBy
  <2>4. Uid \notin spoiled' => DoneOf(pods[Uid], file'[Uid], agent'[Uid], server'[Uid], pc', job')
    BY Zenon, <1>2, <2>2, <2>3 DEF DoneOf
  <2> QED
    BY Zenon, <1>1, <2>1, <2>2, <2>4, JobStepTrue
<1>8. CASE SetupWorkspaceContainer
  <2>1. pc = "server" /\ pc' = "final" /\ UNCHANGED <<job, file, agent>> /\ pc \in Setting
    BY Zenon, <1>8 DEF SetupWorkspaceContainer, Setting
  <2>2. CASE IsContainerRunning(job.pod.workspace)
    <3>1. PICK ok \in BOOLEAN : /\ server' = IF ok THEN [server EXCEPT ![Uid] = TRUE] ELSE server
                                /\ Spoil(~ok)
      BY Zenon, <1>8, <2>2 DEF SetupWorkspaceContainer
    <3>2. Uid \notin spoiled' => server'[Uid]
      BY Zenon, <1>0, <3>1, SpoiledBy
    <3>3. Uid \notin spoiled' => TrueOf(pods[Uid], file'[Uid], agent'[Uid], server'[Uid])
      BY Zenon, <1>1, <2>1, <3>2 DEF TrueOf
    <3>4. Uid \notin spoiled' => DoneOf(pods[Uid], file'[Uid], agent'[Uid], server'[Uid], pc', job')
      BY Zenon, <1>2, <2>1, <3>2 DEF DoneOf
    <3> QED
      BY Zenon, <2>1, <3>3, <3>4, JobStepTrue
  <2>3. CASE ~IsContainerRunning(job.pod.workspace)
    <3>1. server' = server
      BY Zenon, <1>8, <2>3 DEF SetupWorkspaceContainer
    <3>2. pods[Uid] # None => ~Runs(pods[Uid], "workspace", job.pod.workspace.restarts)
      BY Zenon, <2>1, <2>3, JobReached DEF Parts, Exists
    <3>3. Uid \notin spoiled' => DoneOf(pods[Uid], file'[Uid], agent'[Uid], server'[Uid], pc', job')
      BY Zenon, <1>2, <2>1, <3>1, <3>2 DEF DoneOf
    <3> QED
      BY Zenon, <1>1, <2>1, <3>1, <3>3, JobStepTrue
  <2> QED
    BY Zenon, <2>2, <2>3
<1>9. CASE MarkComplete
  <2>1. PICK ok \in BOOLEAN : WriteRegistrationState(ok, FALSE) /\ Spoil(~ok)
    BY Zenon, <1>9 DEF MarkComplete
  <2>2. pc = "final" /\ pc' = "idle" /\ UNCHANGED <<agent, server>> /\ pc \in Setting
    BY Zenon, <1>9 DEF MarkComplete, Idle, Setting
  <2>3. Uid \notin spoiled' => file'[Uid] = RegistrationState(FALSE)
    BY Zenon, <1>0, <2>1, SpoiledBy, WriteType
  <2>4. /\ RegistrationState(FALSE).sidecar = job.pod.sidecar.restarts
        /\ RegistrationState(FALSE).workspace = job.pod.workspace.restarts
    BY Zenon DEF RegistrationState
  <2>5. Uid \notin spoiled' => TrueOf(pods[Uid], file'[Uid], agent'[Uid], server'[Uid])
    BY Zenon, <1>2, <2>2, <2>3, <2>4 DEF TrueOf, DoneOf
  <2> QED
    BY Zenon, <2>2, <2>5, JobStepTrue DEF Setting
<1>10. CASE DeregisterDeleted
  <2>1. pc = "deregister" /\ pc' = "idle"
    BY Zenon, <1>10 DEF DeregisterDeleted, Idle
  <2>2. pods[Uid] # None => pods[Uid].deleting
    BY Zenon, <1>0, <2>1, ExistingPod DEF Copies, JobFits, InOrder, Follows, Exists, Uid
  <2>3. TrueOf(pods[Uid], file'[Uid], agent'[Uid], server'[Uid])
    BY Zenon, <2>2 DEF TrueOf
  <2> QED
    BY Zenon, <2>1, <2>3, JobStepTrue DEF Setting
<1> QED
  BY Zenon, <1>3, <1>4, <1>5, <1>6, <1>7, <1>8, <1>9, <1>10 DEF JobActions

\* Every step keeps the states true.
LEMMA TruthKept ==
  ASSUME Copies, Budget, FilesOld, StateTrue, Progress, [Next]_vars
  PROVE  StateTrue' /\ Progress'
<1>0. /\ Shape /\ made \in Nat /\ Uids \subseteq Nat /\ pods \in [Uids -> Pod \cup {None}]
      /\ file \in [Uids -> States \cup {None, Corrupted}] /\ agent \in [Uids -> BOOLEAN]
      /\ server \in [Uids -> BOOLEAN]
  <2>1. Shape
    BY Zenon DEF Copies
  <2> QED
    BY SMTT(30), <2>1, Numbers DEF Shape
<1>a. \A u \in Uids \ spoiled : TrueOf(pods[u], file[u], agent[u], server[u])
  BY Zenon, StateTrueOf
\* A step changes only pod u, which has no state afterwards.
<1>b. ASSUME NEW u \in Uids, spoiled' = spoiled, pc' = pc, job' = job,
             \A v \in Uids : v # u => /\ pods'[v] = pods[v] /\ file'[v] = file[v]
                                      /\ agent'[v] = agent[v] /\ server'[v] = server[v],
             file'[u] \notin States,
             pc \in Setting /\ Uid = u =>
               pods'[u] = None \/ (pods'[u] = pods[u] /\ agent'[u] = agent[u] /\ server'[u] = server[u])
      PROVE  StateTrue' /\ Progress'
  <2>1. \A v \in Uids \ spoiled' : TrueOf(pods'[v], file'[v], agent'[v], server'[v])
    BY Zenon, <1>a, <1>b DEF TrueOf
  <2>2. StateTrue'
    BY Zenon, <2>1 DEF StateTrue, TrueOf, Runs, Reachable, Exists
  <2>3. Progress'
    <3>1. SUFFICES ASSUME pc \in Setting, Uid \notin spoiled
                   PROVE  DoneOf(pods'[Uid], file'[Uid], agent'[Uid], server'[Uid], pc, job)
      BY Zenon, <1>b DEF Progress, Uid
    <3>2. Uid \in Uids /\ DoneOf(pods[Uid], file[Uid], agent[Uid], server[Uid], pc, job)
      BY Zenon, <1>0, <3>1, JobTypes DEF Progress, Setting
    <3>3. CASE Uid = u
      BY Zenon, <1>b, <3>1, <3>2, <3>3 DEF DoneOf
    <3>4. CASE Uid # u
      BY Zenon, <1>b, <3>2, <3>4
    <3> QED
      BY Zenon, <3>3, <3>4
  <2> QED
    BY Zenon, <2>2, <2>3
<1>1. CASE CreatePod
  <2>1. made + 1 \in Uids /\ pods' = [pods EXCEPT ![made + 1] = NewPod(made + 1)]
        /\ UNCHANGED <<file, agent, server, pc, job, spoiled>>
    BY Zenon, <1>0, <1>1, CreateSteps DEF history
  <2>2. file'[made + 1] \notin States
    BY <1>0, <2>1, MarksAssumption DEF Copies, Known, FilesOld
  <2>3. pc \in Setting => Uid # made + 1
    <3>1. pc \in Setting => Uid <= made /\ Uid \in Nat
      BY Zenon, <1>0, JobTypes DEF Copies, Known, Setting
    <3> QED
      BY <1>0, <3>1
  <2>4. \A v \in Uids : v # made + 1 => pods'[v] = pods[v]
    BY Zenon, <1>0, <2>1
  <2> QED
    BY Zenon, <1>b, <2>1, <2>2, <2>3, <2>4
<1>2. ASSUME NEW u \in Uids, PodGone(u)
      PROVE  StateTrue' /\ Progress'
  <2>1. /\ pods' = [pods EXCEPT ![u] = None] /\ file' = [file EXCEPT ![u] = None]
        /\ agent' = [agent EXCEPT ![u] = FALSE] /\ server' = [server EXCEPT ![u] = FALSE]
        /\ UNCHANGED <<pc, job, spoiled>>
    BY Zenon, <1>0, <1>2, GoneSteps
  <2>2. file'[u] \notin States /\ pods'[u] = None
    BY Zenon, <1>0, <2>1, MarksAssumption
  <2>3. \A v \in Uids : v # u => /\ pods'[v] = pods[v] /\ file'[v] = file[v]
                                 /\ agent'[v] = agent[v] /\ server'[v] = server[v]
    BY Zenon, <1>0, <2>1
  <2> QED
    BY Zenon, <1>b, <2>1, <2>2, <2>3
<1>3. ASSUME NEW u \in Uids, CorruptFile(u)
      PROVE  StateTrue' /\ Progress'
  <2>1. file' = [file EXCEPT ![u] = Corrupted] /\ UNCHANGED <<pods, agent, server, pc, job, spoiled>>
    BY Zenon, <1>3 DEF CorruptFile, history
  <2>2. file'[u] \notin States /\ \A v \in Uids : v # u => file'[v] = file[v]
    BY Zenon, <1>0, <2>1, MarksAssumption
  <2> QED
    BY Zenon, <1>b, <2>1, <2>2
<1>4. ASSUME UNCHANGED <<pods, file, agent, server>>, spoiled \subseteq spoiled', pc' \notin Setting
      PROVE  StateTrue' /\ Progress'
  <2>1. StateTrue'
    BY Zenon, <1>4 DEF StateTrue, Reachable, Exists
  <2> QED
    BY Zenon, <1>4, <2>1 DEF Progress, Setting
<1>5. CASE HandleWorkspacePodEvents
  <2>1. TakeStep(Head(queue))
    BY Zenon, <1>0, <1>5, TakeSteps
  <2> QED
    BY Zenon, <1>4, <2>1 DEF TakeStep, Setting
<1>6. CASE Crash
  BY Zenon, <1>4, <1>6 DEF Crash, Idle, Setting
<1>7. CASE Restart
  BY Zenon, <1>0, <1>4, <1>7 DEF Restart, Shape, Setting, history
<1>8. CASE Aside
  BY Zenon, <1>8 DEF Aside, StateTrue, Progress, Reachable, Exists, Uid, history
<1>9. CASE JobActions
  BY Zenon, <1>9, ReadTrue, SetupTrue
<1> QED
  BY Zenon, <1>0, <1>1, <1>2, <1>3, <1>5, <1>6, <1>7, <1>8, <1>9, StepKinds, PodStepTrue, PodStepDone

-----------------------------------------------------------------------------
(* The theorems *)

\* The inductive invariant.
PodsInv ==
  /\ Copies /\ Budget /\ NodesLabelled /\ Ending /\ Single
  /\ FilesOld /\ StateTrue /\ Progress

\* At first there are no pods, no events and no files.
LEMMA InitInv == Init => PodsInv
<1> SUFFICES ASSUME Init
             PROVE  PodsInv
  BY Zenon
<1>0. /\ pods = [u \in Uids |-> None] /\ file = [u \in Uids |-> None] /\ nodes = [u \in Uids |-> 0]
      /\ queue = <<>> /\ Len(queue) = 0 /\ pc = "idle" /\ job = NoJob /\ made = 0 /\ events = 0
      /\ spoiled = {} /\ missed = {} /\ up = TRUE
  BY Zenon DEF Init
<1>1. Shape
  <2>1. NoJob \in Jobs
    BY Zenon DEF NoJob, Jobs
  <2>2. /\ pods \in [Uids -> Pod \cup {None}] /\ file \in [Uids -> States \cup {None, Corrupted}]
        /\ agent \in [Uids -> BOOLEAN] /\ server \in [Uids -> BOOLEAN] /\ nodes \in [Uids -> Nat]
        /\ workspace \in {"absent", "plain", "refers"} /\ strategy \in Handlers \cup {None}
    BY Zenon DEF Init
  <2>3. queue \in Seq(Pod) /\ made \in 0..MaxPods /\ events \in 0..MaxEvents /\ pc \in Steps
    BY <1>0, Numbers DEF Steps
  <2> QED
    BY Zenon, <1>0, <2>1, <2>2, <2>3 DEF Shape, Exists
<1>2. \A u \in Uids : ~Exists(u) /\ file[u] = None /\ nodes[u] = 0 /\ file[u] \notin States
  BY Zenon, <1>0, MarksAssumption DEF Exists
<1>3. Known /\ InOrder /\ PlainCopies /\ JobFits
  BY <1>0, <1>2 DEF Known, InOrder, PlainCopies, JobFits, Setting
<1>4. Budget /\ NodesLabelled /\ FilesOld /\ StateTrue
  BY Zenon, <1>0, <1>2 DEF Budget, NodesLabelled, FilesOld, StateTrue, InWork
<1>5. Ending /\ Progress
  BY <1>0 DEF Ending, Progress, Setting
<1>6. Single
  BY <1>0, <1>2 DEF Single, Setting
<1> QED
  BY Zenon, <1>1, <1>3, <1>4, <1>5, <1>6 DEF PodsInv, Copies

\* Every step keeps it.
LEMMA NextInv == PodsInv /\ [Next]_vars => PodsInv'
BY Zenon, CopiesKept, LabelledKept, EndingKept, SingleKept, FilesKept, TruthKept DEF PodsInv

\* The invariant holds throughout.
LEMMA Invariant == Spec => []PodsInv
BY InitInv, NextInv, PTL DEF Spec

\* The state is typed: an event is in work only while the operator runs, and no file and
\* no copy of a pod counts more restarts than there were events.
THEOREM TypeCorrect == Spec => []TypeOK
<1>1. PodsInv => TypeOK
  <2> SUFFICES ASSUME PodsInv
               PROVE  TypeOK
    BY Zenon
  <2>1. Shape
    BY Zenon DEF PodsInv, Copies
  <2>2. \A u \in Uids : pods[u] # None => pods[u] \in Pod /\ pods[u].uid = u
    BY Zenon, <2>1, ExistingPod DEF Exists
  <2>3. \A p \in Range(queue) : p \in Pod
    BY SMTT(30), <2>1, QueueRange, QueuedPods DEF Shape
  <2> QED
    BY Zenon, <2>1, <2>2, <2>3 DEF Shape, TypeOK
<1> QED
  BY <1>1, Invariant, PTL

\* A pod that is gone, and of which nothing is in work or to be delivered, leaves no managed
\* node, unless its last deregistration failed or was left out (handlePodDeleted): whatever
\* the containers did, and however late its events were handled.
THEOREM NoNodeIsLeft == Spec => []NoNodeLeft
<1>1. PodsInv => NoNodeLeft
  <2> SUFFICES ASSUME PodsInv, NEW u \in 1..made, ~Exists(u), Quiet(u), u \notin missed
               PROVE  nodes[u] = 0
    BY Zenon DEF NoNodeLeft
  <2>1. queue \in Seq(Pod)
    BY Zenon DEF PodsInv, Copies, Shape
  <2>2. Ended(u)
    BY Zenon, <2>1, EndingEnded DEF PodsInv
  <2>3. ~ToBeDelivered(u) /\ ~(pc = "deregister" /\ Uid = u)
    BY Zenon, <2>1, QueueRange DEF Quiet, ToBeDelivered
  <2> QED
    BY Zenon, <2>2, <2>3 DEF Ended, Settled
<1> QED
  BY <1>1, Invariant, PTL

\* A pod whose setup never failed has at most one managed node, however often its
\* containers restart and its events come late or twice (HandlePodRunning).
THEOREM NeverTwoNodes == Spec => []OneNode
<1>1. PodsInv => OneNode
  BY Zenon DEF PodsInv, Single, OneNode
<1> QED
  BY <1>1, Invariant, PTL

\* The file on the volume of a pod whose setup never failed tells the truth: containers that
\* run with the counts of a complete setup are set up, although the setup works on copies
\* that may be old when it writes their counts (writeRegistrationState).
THEOREM StateIsTrue == Spec => []StateTrue
<1>1. PodsInv => StateTrue
  BY Zenon DEF PodsInv
<1> QED
  BY <1>1, Invariant, PTL
=============================================================================

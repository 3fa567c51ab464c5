-------------------------- MODULE AdmissionContract --------------------------
(***************************************************************************)
(* What admission promises to the users of a Workspace, as if every write  *)
(* were a single step: no webhooks, no requests under way, no conflicts    *)
(* and no templates that change in between.  Each change of the Workspace  *)
(* is one that its author may make of the version it replaces.             *)
(***************************************************************************)
EXTENDS Naturals

CONSTANTS
  None, Users, Privileged, Home, Shared, Strategies, Reserved, DefaultSize,
  Complies(_, _)   \* whether a workspace obeys the content of a template

VARIABLES
  ws,       \* the Workspace, or None
  vetted,   \* the template content its spec was last checked against, or None
  claim,    \* the size that its volume claim requests, 0 before there is one
  copy      \* the storage that the controller has read in it, or None

contractVars == <<ws, vetted, claim, copy>>

Live(w) == w # None /\ ~w.deleting
SpecOf(w) == [f \in DOMAIN w \ {"owner", "updatedBy", "deleting", "labels"} |-> w[f]]

Init == ws = None /\ vetted = None /\ claim = 0 /\ copy = None

\* The access strategy of a workspace is there, in a namespace in scope.
Reachable(w) ==
  w.strategy # None =>
    /\ w.strategy.namespace \in {None, Home, Shared}
    /\ (IF w.strategy.namespace = None THEN Home ELSE w.strategy.namespace) \in Strategies

Unreserved(w) == DOMAIN w.labels \cap Reserved = {}
OwnVolumes(w) == w.volumes # "foreign"
Open(w) == w.ownership # "OwnerOnly"

\* The template of ws', if it has one, has just been asked.
CheckedNow ==
  /\ ws'.templateRef = None => vetted' = None
  /\ ws'.templateRef # None => vetted' # None /\ Complies(ws', vetted')

\* It need not be asked about a spec that stays, or that is stopped as it is.
NothingToCheck ==
  /\ ws'.templateRef # None
  /\ SpecOf(ws') \in {SpecOf(ws), SpecOf([ws EXCEPT !.desired = "Stopped"])}
  /\ UNCHANGED vetted

\* Whoever creates a Workspace owns it, and it starts without a claim.
Create(client) ==
  /\ ws = None /\ Live(ws')
  /\ ws'.owner = client /\ ws'.updatedBy = client
  /\ Reachable(ws') /\ OwnVolumes(ws')
  /\ client \in Users => Unreserved(ws')
  /\ CheckedNow
  /\ claim = 0 /\ UNCHANGED <<claim, copy>>

UserUpdate(client) ==
  /\ Live(ws) /\ Live(ws')
  /\ ws'.updatedBy = client
  /\ (Open(ws) /\ Open(ws')) \/ ws.owner = client
  /\ ws.owner # None => ws'.owner = ws.owner
  /\ Unreserved(ws') /\ Unreserved(ws)
  /\ Reachable(ws') /\ OwnVolumes(ws')
  /\ CheckedNow \/ NothingToCheck
  /\ UNCHANGED <<claim, copy>>

\* The controller and admins change what they like, and a spec they change counts as
\* unchecked.
PrivilegedUpdate(client) ==
  /\ Live(ws) /\ Live(ws')
  /\ ws'.updatedBy = client
  /\ Reachable(ws')
  /\ vetted' \in {None, vetted}
  /\ SpecOf(ws') # SpecOf(ws) => vetted' = None
  /\ UNCHANGED <<claim, copy>>

\* A deletion changes nothing else.  Who asked for it is not recorded.
Delete ==
  /\ Live(ws)
  /\ ws' = [ws EXCEPT !.deleting = TRUE]
  /\ vetted' = None
  /\ UNCHANGED <<claim, copy>>

\* Nobody takes a deletion back: the Workspace is written as it is until it vanishes,
\* with its claim.
WriteDeleted ==
  /\ ws # None /\ ws.deleting
  /\ ws' # None /\ ws'.deleting
  /\ vetted' = None
  /\ UNCHANGED <<claim, copy>>

Vanish ==
  /\ ws # None /\ ws.deleting
  /\ ws' = None /\ claim' = 0 /\ copy' = None
  /\ UNCHANGED vetted

\* The controller reads the Workspace: only of one that is to run it keeps the storage.
Read ==
  /\ ws # None
  /\ copy' # None => Live(ws) /\ ws.desired = "Running" /\ copy' = ws.storage
  /\ UNCHANGED <<ws, vetted, claim>>

\* The claim follows a version that the controller has read, and only upwards.
Grow ==
  /\ ws # None /\ copy # None
  /\ claim' = (IF copy = 0 THEN DefaultSize ELSE copy) /\ claim' > claim
  /\ copy' = None
  /\ UNCHANGED <<ws, vetted>>

Next ==
  \/ \E c \in Users \cup Privileged : Create(c)
  \/ \E c \in Users : UserUpdate(c)
  \/ \E c \in Privileged : PrivilegedUpdate(c)
  \/ Delete \/ WriteDeleted \/ Vanish \/ Read \/ Grow

Spec == Init /\ [][Next]_contractVars
=============================================================================

------------------------- MODULE WorkspaceContract --------------------------
(***************************************************************************)
(* What the workspace controller promises to the owner of a Workspace,     *)
(* without informers, working copies, retries or passes: whom a change of  *)
(* the Workspace comes from, when a condition may be reported, and what    *)
(* may happen to its storage.                                              *)
(***************************************************************************)
EXTENDS Naturals

VARIABLES
  obj,      \* the Workspace: spec, deletionTimestamp, True conditions
  storage,  \* its PersistentVolumeClaim
  asked     \* how many requests users have made

contractVars == <<obj, storage, asked>>

Gone == [exists |-> FALSE, deleting |-> FALSE, desired |-> "Running",
         ref |-> FALSE, ver |-> 0, conds |-> {}]

Init ==
  /\ \E b \in BOOLEAN :
       obj = [exists |-> TRUE, deleting |-> FALSE, desired |-> "Running",
              ref |-> b, ver |-> 0, conds |-> {}]
  /\ storage = "absent"
  /\ asked = 0

\* Users (and the preemption watch on their behalf) change the spec or ask for
\* deletion; nobody takes a deletionTimestamp back.
UserChange ==
  /\ obj.exists
  /\ asked' = asked + 1
  /\ \E d \in {"Running", "Stopped"}, r \in BOOLEAN, v \in {obj.ver, obj.ver + 1},
        x \in {obj.deleting, TRUE} :
       obj' = [exists |-> TRUE, deleting |-> x, desired |-> d, ref |-> r, ver |-> v,
               conds |-> obj.conds]
  /\ UNCHANGED storage

\* A request that concerns the access strategy, or that is lost.
OtherRequest == asked' = asked + 1 /\ UNCHANGED <<obj, storage>>

\* A condition is reported only while it answers the spec that is stored.
Report ==
  /\ obj.exists
  /\ \E c \in {{"Available"}, {"Progressing"}, {"Degraded"}, {"Stopped"},
               {"Deleting"}, obj.conds \cup {"Degraded"}} :
       /\ obj' = [obj EXCEPT !.conds = c]
       /\ ("Deleting" \in c) => obj.deleting
       /\ ("Deleting" \notin c) => ~obj.deleting
       /\ (c = {"Available"}) => obj.desired = "Running"
       /\ (c = {"Stopped"}) => obj.desired = "Stopped"
  /\ UNCHANGED <<storage, asked>>

\* The only change of the spec the controller makes by itself: an idle
\* Workspace that is wanted Running and was reported Available is stopped.
IdleStop ==
  /\ obj.exists /\ ~obj.deleting
  /\ obj.desired = "Running" /\ obj.conds = {"Available"}
  /\ obj' = [obj EXCEPT !.desired = "Stopped"]
  /\ UNCHANGED <<storage, asked>>

\* The Workspace disappears at once if the controller has not looked after it
\* yet, and otherwise not before Deleting was reported.
Vanish ==
  /\ obj.exists
  /\ \/ obj.conds = {} /\ asked' = asked + 1
     \/ obj.deleting /\ obj.conds = {"Deleting"} /\ UNCHANGED asked
  /\ obj' = Gone
  /\ UNCHANGED storage

\* Storage is made only for a Workspace that exists, and is given up only with
\* the Workspace: stopping preserves it.
CreateStorage ==
  /\ obj.exists /\ storage = "absent"
  /\ storage' = "live" /\ UNCHANGED <<obj, asked>>

DropStorage ==
  /\ storage # "absent" /\ (storage = "live" => obj.deleting \/ ~obj.exists)
  /\ storage' \in {"absent", "term"} /\ UNCHANGED <<obj, asked>>

Next ==
  \/ UserChange \/ OtherRequest \/ Report \/ IdleStop \/ Vanish
  \/ CreateStorage \/ DropStorage

Spec == Init /\ [][Next]_contractVars
=============================================================================

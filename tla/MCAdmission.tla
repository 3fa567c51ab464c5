----------------------------- MODULE MCAdmission -----------------------------
(***************************************************************************)
(* A small instance of Admission.  Template "t" of the shared namespace    *)
(* sets defaults and rules of every kind; one of the same name may appear  *)
(* in the workspace's own namespace; template "u" may be labelled as the   *)
(* default, or given a default strategy without a namespace, as in the     *)
(* example of concepts/templates/shared-namespace.md.  Each change and     *)
(* each patch touches one thing, so that a refusal has one reason.         *)
(***************************************************************************)
EXTENDS Admission, TLC

T(name, namespace) == [name |-> name, namespace |-> namespace]
MCKeys == {T("t", "home"), T("t", "shared"), T("u", "shared")}

Rule(matches) == [required |-> TRUE, matches |-> matches]
MCBare ==
  [labelled |-> FALSE, image |-> "i1", allowedImages |-> {}, customImages |-> FALSE,
   ownership |-> "Public", access |-> "Public", container |-> None, resources |-> None,
   bounds |-> None, storage |-> None, volumes |-> None, secondaryStorages |-> TRUE,
   scheduling |-> None, baseLabels |-> << >>, labelRules |-> << >>, strategy |-> None,
   lifecycle |-> None, idle |-> None, overrides |-> None, readiness |-> None,
   security |-> None, baseEnv |-> << >>, envRules |-> << >>, initContainers |-> None,
   customInit |-> FALSE]

Idle(on) == [enabled |-> on, timeout |-> 2, check |-> "http"]
MCContents ==
  [k \in MCKeys |->
     CASE k = T("t", "home") -> None
       [] k = T("t", "shared") ->
            [storage |-> [size |-> 1, min |-> 1, max |-> None], customImages |-> TRUE,
             container |-> "sh", resources |-> [requests |-> 1, limits |-> 1],
             bounds |-> [min |-> 1, max |-> 1], strategy |-> [namespace |-> "shared"],
             idle |-> Idle(TRUE), overrides |-> [allow |-> FALSE, min |-> None, max |-> 3],
             baseEnv |-> "zone" :> "a", envRules |-> "zone" :> Rule({"a"}),
             baseLabels |-> "cost" :> "a", labelRules |-> "cost" :> Rule({"a", "b"}),
             initContainers |-> "fetch", readiness |-> "get", security |-> "user"]
            @@ MCBare
       [] k = T("u", "shared") ->
            [ownership |-> "OwnerOnly", access |-> "Public", lifecycle |-> "hook",
             secondaryStorages |-> FALSE] @@ MCBare]

Only(f, v) == [x \in {f} |-> v]
MCChanges ==
  [c \in {"ann", "bob", "operator"} |->
     CASE c = "ann" ->
            {Only("templateRef", T("u", "shared")), Only("desired", "Stopped"),
             Only("storage", 2), Only("storage", 0), Only("templateRef", None),
             Only("templateRef", T("t", None)), Only("ownership", "OwnerOnly"),
             [desired |-> "Stopped", image |-> "i2"],
             Only("env", "zone" :> "b"),
             Only("resources", [requests |-> 1, limits |-> 2]),
             Only("strategy", [namespace |-> "elsewhere"]),
             Only("volumes", "foreign"), Only("labels", "reserved" :> "a")}
       [] c = "bob" ->
            {Only("ownership", "Public"), Only("owner", "bob"), Only("account", "team")}
       [] c = "operator" -> {Only("owner", None)}]
MCPatches ==
  [k \in MCKeys |->
     CASE k = T("t", "home") -> {Only("customImages", FALSE)}
       [] k = T("t", "shared") ->
            {Only("customImages", FALSE)}
       [] k = T("u", "shared") ->
            {Only("labelled", TRUE), Only("strategy", [namespace |-> None])}]
MCGrants == {[users |-> {"bob"}, labelled |-> TRUE]}
=============================================================================

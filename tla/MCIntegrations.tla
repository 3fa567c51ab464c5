---------------------------- MODULE MCIntegrations ----------------------------
(***************************************************************************)
(* A small instance of Integrations.  Template "a" has a probe in every    *)
(* revision, template "b" has none.  The resource "x" gets its status      *)
(* ("addr") later than its spec ("port").                                  *)
(***************************************************************************)
EXTENDS Integrations

MCTemplates == {"a", "b"}
MCTargets == {"x"}
MCRefs ==
  {[tmpl |-> "a", name |-> "a", target |-> "x", gives |-> {}],
   [tmpl |-> "a", name |-> "a", target |-> "x", gives |-> {"p"}],
   [tmpl |-> "b", name |-> "b", target |-> "x", gives |-> {"p"}]}
Shape(p, c, n, d, b, x) ==
  [pod |-> p, command |-> c, needs |-> n, declares |-> d, probe |-> b, clash |-> x]
MCShapes ==
  [t \in MCTemplates |->
    IF t = "a"
    THEN {Shape({"port", "addr"}, {"addr"}, {}, {}, TRUE, FALSE),
          Shape({"port"}, {"port"}, {"p"}, {"p"}, TRUE, FALSE),
          Shape({"port"}, {"port"}, {"p"}, {}, TRUE, FALSE),
          Shape({"port"}, {"port"}, {}, {}, TRUE, TRUE)}
    ELSE {Shape({"port"}, {}, {"p"}, {"p"}, FALSE, FALSE)}]
MCObjects ==
  {[port |-> 1, addr |-> Empty], [port |-> 1, addr |-> 1], [port |-> 2, addr |-> 2]}
=============================================================================

------------------------------ MODULE MCSession ------------------------------
(* Session for model checking: requests are interchangeable. *)
EXTENDS Session, TLC

Symmetry == Permutations(Requests)
=============================================================================

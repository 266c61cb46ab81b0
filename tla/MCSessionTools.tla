--------------------------- MODULE MCSessionTools ---------------------------
(* Instances of SessionTools for the model checker: hosts are interchangeable. *)
EXTENDS SessionTools, TLC

Symmetry == Permutations(Hosts)
=============================================================================

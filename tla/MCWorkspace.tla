----------------------------- MODULE MCWorkspace -----------------------------
(* Instances of Workspace for the model checker: hosts are interchangeable. *)
EXTENDS Workspace, TLC

Symmetry == Permutations(Servers)
=============================================================================

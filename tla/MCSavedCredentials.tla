-------------------------- MODULE MCSavedCredentials --------------------------
(***************************************************************************)
(* An instance of SavedCredentials for TLC: two processes, two servers and *)
(* one account, which an earlier run has left.                             *)
(***************************************************************************)
EXTENDS SavedCredentials, TLC

Alike == Permutations(Procs) \cup Permutations(Servers) \cup Permutations(Users)
=============================================================================

----------------------------- MODULE MCRemoteCommit -----------------------------
(* An instance of RemoteCommit for TLC: an empty file, one of one block and one *)
(* of two.                                                                      *)
EXTENDS RemoteCommit

ThreeSizes == [v \in {0, 1, 2} |-> v]
=============================================================================

----------------------------- MODULE MCFileEditor -----------------------------
(***************************************************************************)
(* An instance of FileEditor for TLC: two files on two servers.            *)
(***************************************************************************)
EXTENDS FileEditor
=============================================================================

------------------------------ MODULE MCFilePanel ------------------------------
(***************************************************************************)
(* An instance of FilePanel for TLC: a server with the root and a home     *)
(* directory and two names.                                                *)
(***************************************************************************)
EXTENDS FilePanel
=============================================================================
